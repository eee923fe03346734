------------------------------ MODULE Replicas ------------------------------
(***************************************************************************)
(* What the synchronisation core promises, told without timestamps,        *)
(* records, tasks or phases: each name has a target and some sources, the  *)
(* user changes them between runs, and a run only ever makes one side of a *)
(* pair equal to the other, notes that they agree, or gives up a source.   *)
(* A careful run destroys no content that is not either kept in another    *)
(* file of the name or the one the pair last agreed on.                    *)
(***************************************************************************)
CONSTANTS
  Names, Sides,   \* a copy of a name is its target or its source on a side
  Contents, Absent

Sources == Names \X Sides
Copies == Sources \cup (Names \X {"target"})
Target(s) == <<s[1], "target">>

VARIABLES
  copy,    \* the content of every copy
  agreed,  \* per source, what it and its target last had in common
  mode     \* "idle", or the run under way is "careful" or "free"

replicas == <<copy, agreed, mode>>

Init ==
  /\ copy \in [Copies -> Contents \cup {Absent}]
  /\ agreed \in [Sources -> Contents \cup {Absent}]
  /\ \A s \in Sources : agreed[s] # Absent => copy[s] = agreed[s] /\ copy[Target(s)] = agreed[s]
  /\ mode = "idle"

Edit(p) ==
  /\ mode = "idle"
  /\ \E c \in Contents \cup {Absent} : copy' = [copy EXCEPT ![p] = c]
  /\ UNCHANGED <<agreed, mode>>

Begin == mode = "idle" /\ mode' \in {"careful", "free"} /\ UNCHANGED <<copy, agreed>>
End == mode # "idle" /\ mode' = "idle" /\ UNCHANGED <<copy, agreed>>

(* The content of p may go: s and its target agreed on it, or a copy stays *)
Expendable(p, s) ==
  \/ copy[p] \in {Absent, agreed[s]}
  \/ \E q \in Copies \ {p} : q[1] = p[1] /\ copy'[q] = copy[p]

Transfer(s, from, to) ==
  /\ mode # "idle" /\ copy[from] # Absent
  /\ copy' = [copy EXCEPT ![to] = copy[from]]
  /\ agreed' = [agreed EXCEPT ![s] = copy[from]]
  /\ mode = "careful" => copy[to] = copy[from] \/ Expendable(to, s)
  /\ UNCHANGED mode

Agree(S) ==
  /\ mode # "idle" /\ \A s \in S : copy[s] # Absent /\ copy[s] = copy[Target(s)]
  /\ agreed' = [s \in Sources |-> IF s \in S THEN copy[s] ELSE agreed[s]]
  /\ UNCHANGED <<copy, mode>>

Drop(s) ==
  /\ mode # "idle"
  /\ copy' = [copy EXCEPT ![s] = Absent]
  /\ mode = "careful" => Expendable(s, s)
  /\ UNCHANGED <<agreed, mode>>

Next ==
  \/ \E p \in Copies : Edit(p)
  \/ Begin \/ End
  \/ \E s \in Sources : Transfer(s, s, Target(s)) \/ Transfer(s, Target(s), s) \/ Drop(s)
  \/ \E S \in SUBSET Sources : Agree(S)

Spec == Init /\ [][Next]_replicas
=============================================================================
