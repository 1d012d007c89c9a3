--------------------------- MODULE EmbeddingIndex ---------------------------
(***************************************************************************)
(* What the embedding queue promises the rest of the control plane, seen   *)
(* from committed data only: a source row (ledger event, matrix node, chat *)
(* turn, insight) has a text and a vector, and the phase of its one job    *)
(* says whether the vector may be trusted.                                 *)
(*   "none"      no job: never enqueued, or purged by a kill switch        *)
(*   "due"       the text changed since the vector was last computed       *)
(*   "indexed"   the vector is the one of the current text                 *)
(*   "abandoned" the retries were spent without producing a vector         *)
(* EmbeddingQueue implements this under the mapping it states.             *)
(***************************************************************************)
CONSTANTS
    Rows,     \* source rows of the tables that have the enqueue trigger
    Texts,    \* texts that can be embedded
    Blank,    \* the text of a row whose composed text is empty
    Absent,   \* "text" of a row not inserted yet
    Gone,     \* "text" of a row that was deleted
    NoVector  \* embedding IS NULL

VARIABLES
    text,     \* text of every row
    vector,   \* the text its embedding was computed from
    phase     \* phase of its job

indexVars == <<text, vector, phase>>

IndexInit ==
    /\ text = [r \in Rows |-> Absent]
    /\ vector = [r \in Rows |-> NoVector]
    /\ phase = [r \in Rows |-> "none"]

(* A row is inserted or updated; its vector, if any, is out of date. *)
WriteRow(r, t) ==
    /\ text[r] # Gone
    /\ text' = [text EXCEPT ![r] = t]
    /\ phase' = [phase EXCEPT ![r] = "due"]
    /\ UNCHANGED vector

(* A row is deleted with its vector; nothing touches its job. *)
RemoveRow(r) ==
    /\ text[r] \in Texts \cup {Blank}
    /\ text' = [text EXCEPT ![r] = Gone]
    /\ vector' = [vector EXCEPT ![r] = NoVector]
    /\ UNCHANGED phase

(* One batch commits: the rows of D are indexed from their CURRENT text, *)
(* those of F are given up, the others stay due.                         *)
SettleBatch(D, F) ==
    /\ D \cap F = {}
    /\ \A r \in D \cup F : phase[r] = "due"
    /\ \A r \in D : text[r] \in Texts \cup {Gone}
    /\ vector' = [r \in Rows |->
                    IF r \in D /\ text[r] # Gone THEN text[r] ELSE vector[r]]
    /\ phase' = [r \in Rows |-> IF r \in D THEN "indexed"
                                ELSE IF r \in F THEN "abandoned" ELSE phase[r]]
    /\ UNCHANGED text

(* A kill switch drops pending jobs; the rows keep the vector they had. *)
DropJobs(S) ==
    /\ \A r \in S : phase[r] = "due"
    /\ phase' = [r \in Rows |-> IF r \in S THEN "none" ELSE phase[r]]
    /\ UNCHANGED <<text, vector>>

IndexNext ==
    \/ \E r \in Rows : RemoveRow(r) \/ \E t \in Texts \cup {Blank} : WriteRow(r, t)
    \/ \E D, F \in SUBSET Rows : SettleBatch(D, F)
    \/ \E S \in SUBSET Rows : DropJobs(S)

IndexSpec == IndexInit /\ [][IndexNext]_indexVars
=============================================================================
