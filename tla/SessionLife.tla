----------------------------- MODULE SessionLife ----------------------------
(***************************************************************************)
(* What the session store promises two peers, without its maps, indexes,   *)
(* ceilings and sweeps: the life of a session.  Two peers begin one,       *)
(* provided they are not in another; it connects, it ends, it is           *)
(* forgotten, and it never goes back.  A negotiation that outlived its     *)
(* timeout can only fail or be forgotten.  One step of the store may move  *)
(* any number of sessions.                                                 *)
(***************************************************************************)
EXTENDS Integers

CONSTANTS Peers,               \* peer identifiers
          NegotiationTimeout   \* how long a session may negotiate

VARIABLES life,    \* session identifiers begun so far -> where each one is
          clock    \* the time

lifeVars == <<life, clock>>

Forgotten == [stage |-> "forgotten", parties |-> {}, since |-> 0]

Begun(p, q) == [stage |-> "negotiating", parties |-> {p, q}, since |-> clock]

Running(s) == s.stage \in {"negotiating", "connected"}

Overdue(s) == s.stage = "negotiating" /\ clock - s.since > NegotiationTimeout

\* The stages a session may move to, other than being forgotten.
Later(stage) ==
    {to \in {"connected", "failed", "closed"} :
        \/ stage = "negotiating"
        \/ stage = "connected" /\ to # "connected"}

Moves(s, t) ==
    \/ t = s
    \/ ~Running(s) /\ t = Forgotten
    \/ Overdue(s) /\ t \in {[s EXCEPT !.stage = "failed"], Forgotten}
    \/ ~Overdue(s) /\ \E to \in Later(s.stage) : t = [s EXCEPT !.stage = to]

Evolve == \A i \in DOMAIN life : Moves(life[i], life'[i])

Init == life = [i \in {} |-> Forgotten] /\ clock = 0

\* A session is begun, and the pair is in no other.
Begin(p, q) ==
    /\ \E i \in DOMAIN life' \ DOMAIN life :
          /\ DOMAIN life' = DOMAIN life \cup {i}
          /\ life'[i] = Begun(p, q)
    /\ Evolve
    /\ \A j \in DOMAIN life : life'[j].parties = {p, q} => ~Running(life'[j])
    /\ clock' = clock

Proceed ==
    /\ DOMAIN life' = DOMAIN life
    /\ Evolve
    /\ clock' = clock

Pass == clock' = clock + 1 /\ life' = life

Next ==
    \/ \E p, q \in Peers : p # q /\ Begin(p, q)
    \/ Proceed
    \/ Pass

Spec == Init /\ [][Next]_lifeVars

=============================================================================
