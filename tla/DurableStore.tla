---------------------------- MODULE DurableStore ----------------------------
(* What the backend promises about zgrams, with no file, index or rebuild in   *)
(* sight: an acknowledged zgram is there whenever the backend serves, under    *)
(* the identifier it was given, which no other zgram ever gets; graffiti alone *)
(* go, and only when they are older than their lifespan.                       *)
EXTENDS Naturals

CONSTANT Lifespan

VARIABLES today, serving,
          content,        \* zgrams the backend has: [id, body, kind, day]
          acknowledged,   \* zgrams it was given and has accepted
          damaged         \* what is stored came to harm: no more is promised

vars == <<today, serving, content, acknowledged, damaged>>

Expired(z) == z.kind = "unlogged" /\ z.day + Lifespan < today

\* None of zs has the identifier of a different zgram among the old ones.
Distinct(zs, old) == \A z \in zs: \A o \in old: z.id = o.id => z = o

Init ==
  /\ serving = "down" /\ content = {} /\ acknowledged = {} /\ damaged = FALSE
  /\ today \in Nat

NewDay == today' = today + 1 /\ UNCHANGED <<serving, content, acknowledged, damaged>>

Accept(zs) ==
  /\ serving = "serving"
  /\ acknowledged' = acknowledged \union zs
  /\ Distinct(zs, acknowledged \union content)
  /\ content' = content \union zs
  /\ UNCHANGED <<today, serving, damaged>>

Stop ==
  /\ serving' = "down" /\ content' = {}
  /\ UNCHANGED <<today, acknowledged, damaged>>

\* The backend starts, or takes up a new index: what it must keep is there.  What
\* else there is was being posted in a crash, or is about to expire.
Load(zs) ==
  /\ serving' = "serving"
  /\ \A a \in acknowledged: Expired(a) \/ a \in zs
  /\ Distinct(zs, acknowledged)
  /\ content' = zs
  /\ UNCHANGED <<today, acknowledged, damaged>>

Damage == damaged'

Next ==
  \/ NewDay
  \/ Accept(acknowledged' \ acknowledged)
  \/ Stop
  \/ Load(content')
  \/ Damage

Spec == Init /\ [][Next]_vars
=============================================================================
