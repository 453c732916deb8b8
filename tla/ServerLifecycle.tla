--------------------------- MODULE ServerLifecycle ---------------------------
(***************************************************************************)
(* What the fleet promises of one server: the way from its first contact   *)
(* to management, as docs/ARCHITECTURE.md draws it.  A server that is      *)
(* added with a password is pending; it becomes managed when its key has   *)
(* been proven by a login of its own and its host key policy is strict.    *)
(* The policy is relaxed at the operator's word only, and no server goes   *)
(* back to pending.                                                        *)
(***************************************************************************)
CONSTANT Ids

VARIABLES
    stage,   \* [Ids -> "absent", "pending" or "managed"]
    strict,  \* [Ids -> BOOLEAN], is an unknown host key refused?
    proven   \* [Ids -> BOOLEAN], has the key let somebody in?

vars == <<stage, strict, proven>>

TypeOK ==
    /\ stage \in [Ids -> {"absent", "pending", "managed"}]
    /\ strict \in [Ids -> BOOLEAN]
    /\ proven \in [Ids -> BOOLEAN]

Init ==
    /\ stage = [i \in Ids |-> "absent"]
    /\ strict = [i \in Ids |-> FALSE]
    /\ proven = [i \in Ids |-> FALSE]

\* With a key of the operator's own, which needs no proof.
AddManaged(i) ==
    /\ stage[i] = "absent"
    /\ stage' = [stage EXCEPT ![i] = "managed"]
    /\ \E s \in BOOLEAN : strict' = [strict EXCEPT ![i] = s]
    /\ proven' = [proven EXCEPT ![i] = TRUE]

AddPending(i) ==
    /\ stage[i] = "absent"
    /\ stage' = [stage EXCEPT ![i] = "pending"]
    /\ UNCHANGED <<strict, proven>>

Prove(i) ==
    /\ stage[i] # "absent"
    /\ proven' = [proven EXCEPT ![i] = TRUE]
    /\ UNCHANGED <<stage, strict>>

Tighten(i) ==
    /\ stage[i] # "absent"
    /\ strict' = [strict EXCEPT ![i] = TRUE]
    /\ UNCHANGED <<stage, proven>>

Relax(i) ==
    /\ stage[i] # "absent"
    /\ strict' = [strict EXCEPT ![i] = FALSE]
    /\ UNCHANGED <<stage, proven>>

Manage(i) ==
    /\ stage[i] = "pending" /\ proven[i] /\ strict[i]
    /\ stage' = [stage EXCEPT ![i] = "managed"]
    /\ UNCHANGED <<strict, proven>>

Remove(i) ==
    /\ stage[i] # "absent"
    /\ stage' = [stage EXCEPT ![i] = "absent"]
    /\ strict' = [strict EXCEPT ![i] = FALSE]
    /\ proven' = [proven EXCEPT ![i] = FALSE]

Next == \E i \in Ids : \/ AddManaged(i) \/ AddPending(i) \/ Prove(i)
                       \/ Tighten(i) \/ Relax(i) \/ Manage(i) \/ Remove(i)

Spec == Init /\ [][Next]_vars

=============================================================================
