--------------------------- MODULE AssignmentsMC ---------------------------
(***************************************************************************)
(* Assignments on a small instance: an administrator with everything, an   *)
(* assistant who may assign codes and file actions, and a user to be.      *)
(***************************************************************************)
EXTENDS Assignments, TLC

CONSTANTS admin, assistant, newcomer, role, group,
          all, manage, spare,       \* codes
          system, users, people,    \* bindings
          staff, basic,             \* permission groups
          q1, q2, q3

TwoUsers == {admin, assistant}
ThreeUsers == {admin, assistant, newcomer}
OneRole == {role}
OneGroup == {group}
ThreeCodes == {all, manage, spare}
ThreeKeys == {system, users, people}
TwoPermissionGroups == {staff, basic}
ThreeRequests == {q1, q2, q3}

Operation == [k \in Keys |-> IF k = system THEN Powers ELSE {"assign", "define"}]

Resources(u, p) == (system :> Powers) @@ (users :> u) @@ (people :> p)

First == [resources |-> Resources({"assign", "define"}, None),
          groups |-> {staff, basic}, defaults |-> {}]
Moved == [First EXCEPT !.resources = Resources(None, {"assign"})]
Unmapped == [First EXCEPT !.resources = Resources({}, None)]
Merged == [First EXCEPT !.groups = {staff}, !.defaults = {staff}]
Regrouped == [First EXCEPT !.groups = {basic}]
FiveDocuments == {First, Moved, Unmapped, Merged, Regrouped}

Actions == [c \in Codes |->
    CASE c = all -> [group |-> staff, keys |-> {system}, wide |-> TRUE]
      [] c = manage -> [group |-> staff, keys |-> {users}, wide |-> FALSE]
      [] OTHER -> None]
Assigned == [o \in Owners |-> CASE o = admin -> {all}
                                [] o = assistant -> {manage}
                                [] OTHER -> {}]
Existing == {admin, assistant, role}

Symmetry == Permutations(Requests)
=============================================================================
