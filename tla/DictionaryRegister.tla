------------------------- MODULE DictionaryRegister -------------------------
(***************************************************************************)
(* What the readers of a dictionary row are promised, without versions, an *)
(* entry or a worker: a register of which every content was committed at   *)
(* some time, and which a reader sees at least as new as what had been     *)
(* published when it began.  A row is denied only when there is none, and  *)
(* the catalog of a process moves forward only.                            *)
(***************************************************************************)
EXTENDS Integers, Sequences

CONSTANTS Readers, Contents, Absent

VARIABLES
    history,    \* the contents committed, the last being the row
    published,  \* how much of it every reader to come must know of
    reader,     \* reader[r]: what r is owed, and the commit it is answered with
    installed   \* the commit whose content is the catalog

vars == <<history, published, reader, installed>>

Now == Len(history)

Idle == [stage |-> "idle", floor |-> 0, answer |-> 0]

Init ==
    /\ history \in {<<c>> : c \in Contents}
    /\ published = 0
    /\ reader = [r \in Readers |-> Idle]
    /\ installed = 1

\* Only a row that is there can be deleted.
Write ==
    /\ \E c \in Contents :
          /\ c = Absent => history[Now] # Absent
          /\ history' = Append(history, c)
    /\ UNCHANGED <<published, reader, installed>>

Publish ==
    /\ published' = Now
    /\ UNCHANGED <<history, reader, installed>>

Begin(r) ==
    /\ reader[r] = Idle
    /\ reader' = [reader EXCEPT ![r] =
          [stage |-> "reading", floor |-> published, answer |-> 0]]
    /\ UNCHANGED <<history, published, installed>>

Find(r) ==
    /\ reader[r].stage = "reading"
    /\ \E s \in 1 .. Now :
          /\ reader[r].floor <= s
          /\ history[s] # Absent
          /\ reader' = [reader EXCEPT ![r] =
                [stage |-> "answering", floor |-> reader[r].floor, answer |-> s]]
    /\ UNCHANGED <<history, published, installed>>

\* What is deleted may be found for a while; what is there is not denied.
Miss(r) ==
    /\ reader[r].stage = "reading"
    /\ history[Now] = Absent
    /\ reader' = [reader EXCEPT ![r] = Idle]
    /\ UNCHANGED <<history, published, installed>>

Answer(r) ==
    /\ reader[r].stage = "answering"
    /\ reader' = [reader EXCEPT ![r] = Idle]
    /\ UNCHANGED <<history, published, installed>>

Install ==
    /\ \E s \in installed .. Now : installed' = s
    /\ UNCHANGED <<history, published, reader>>

\* A crash loses readers, and the process starts from the row as it is.
Restart ==
    /\ installed' = Now
    /\ published' \in {published, Now}
    /\ UNCHANGED history
    /\ \E lost \in SUBSET Readers :
          reader' = [r \in Readers |-> IF r \in lost THEN Idle ELSE reader[r]]

Next ==
    \/ Write
    \/ Publish
    \/ \E r \in Readers : Begin(r) \/ Find(r) \/ Miss(r) \/ Answer(r)
    \/ Install
    \/ Restart

Spec == Init /\ [][Next]_vars
=============================================================================
