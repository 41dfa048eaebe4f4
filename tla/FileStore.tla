----------------------------- MODULE FileStore -----------------------------
(***************************************************************************)
(* What RexFS promises a user of `touch', `write', `cat' and `rm': every   *)
(* entry has a content of its own, a write or a removal changes only the   *)
(* entry it names, and after a write the entry reads back as the payload,  *)
(* or as a first part of it when the disk filled up.  While a write or a   *)
(* removal is running its entry cannot be read.                            *)
(***************************************************************************)
EXTENDS Integers

CONSTANTS
  Ids,            \* entries
  Payloads,       \* what can be written
  Pieces(_),      \* number of pieces a payload is cut into
  Piece(_, _),    \* the j-th piece of a payload
  NoPayload       \* marks a removal

VARIABLES content, job

NoJob  == [id |-> 0, pay |-> NoPayload]

\* The first m pieces of p, which is what reading the entry returns.
FirstPart(p, m) == [is |-> "there", pieces |-> [j \in 0 .. (m - 1) |-> Piece(p, j)]]

Nothing == [j \in {} |-> NoPayload]
Absent  == [is |-> "absent", pieces |-> Nothing]
Torn    == [is |-> "torn", pieces |-> Nothing]
Empty   == [is |-> "there", pieces |-> Nothing]

Readable(i) == content[i].is = "there"

Init == content = [i \in Ids |-> Absent] /\ job = NoJob

Create(i) == /\ content[i] = Absent
             /\ content' = [content EXCEPT ![i] = Empty]
             /\ UNCHANGED job

\* A directory goes at once, a file after its blocks have been given back.
Remove(i) == /\ Readable(i) \/ job = [id |-> i, pay |-> NoPayload]
             /\ content' = [content EXCEPT ![i] = Absent]
             /\ job' = IF Readable(i) THEN job ELSE NoJob

Begin(i, p) == /\ job = NoJob /\ Readable(i)
               /\ content' = [content EXCEPT ![i] = Torn]
               /\ job' = [id |-> i, pay |-> p]

EndWrite(m) == /\ job # NoJob /\ job.pay \in Payloads
               /\ content' = [content EXCEPT ![job.id] = FirstPart(job.pay, m)]
               /\ job' = NoJob

Format(S) == /\ job = NoJob
             /\ content' = [i \in Ids |-> IF i \in S THEN Absent ELSE content[i]]
             /\ UNCHANGED job

Next ==
  \/ \E i \in Ids : Create(i) \/ Remove(i) \/ Begin(i, NoPayload)
  \/ \E i \in Ids, p \in Payloads : Begin(i, p)
  \/ job # NoJob /\ \E m \in 0 .. Pieces(job.pay) : EndWrite(m)
  \/ \E S \in SUBSET Ids : Format(S)

Spec == Init /\ [][Next]_<<content, job>>
=============================================================================
