----------------------------- MODULE LicensedRun -----------------------------
(***************************************************************************)
(* What the Materials Gateway promises about one submission: the           *)
(* an action is taken by spending a licence that a person gave for it, a   *)
(* licence is spent once, a submission that was asked about ends once, and *)
(* how it ends is what a spent licence allows.                             *)
(***************************************************************************)
EXTENDS Naturals, FiniteSets

CONSTANT Actions          \* "approve" and those that end the submission

VARIABLES
  phase,      \* "none", "accepted", "asking" or how it ended
  armed,      \* actions with a licence to spend
  spent       \* actions whose licence was spent last

lic_vars == <<phase, armed, spent>>

Asked == {"asking", "succeeded", "failed", "cancelled"}

Init == phase = "none" /\ armed = {} /\ spent = {}

Accept == phase = "none" /\ phase' = "accepted" /\ UNCHANGED <<armed, spent>>

Ask == phase = "accepted" /\ phase' = "asking" /\ UNCHANGED <<armed, spent>>

Decline == phase = "accepted" /\ phase' = "failed" /\ UNCHANGED <<armed, spent>>

\* A first licence, or a new one for an action whose licence was spent in vain.
\* The person may be late: then it is never used.
Arm(a) ==
  /\ phase \in Asked /\ a \notin armed
  /\ armed' = armed \cup {a} /\ spent' = spent \ {a}
  /\ UNCHANGED phase

Spend(a) ==
  /\ phase \in Asked /\ a \in armed
  /\ armed' = armed \ {a} /\ spent' = spent \cup {a}
  /\ UNCHANGED phase

\* Only an approved run succeeds or fails.
End ==
  /\ phase = "asking"
  /\ \/ phase' \in {"succeeded", "failed"} /\ "approve" \in spent
     \/ phase' = "cancelled" /\ spent \ {"approve"} # {}
  /\ UNCHANGED <<armed, spent>>

Next == Accept \/ Ask \/ Decline \/ End \/ \E a \in Actions : Arm(a) \/ Spend(a)

Spec == Init /\ [][Next]_lic_vars
=============================================================================
