-------------------------- MODULE MCIndexContents ---------------------------
(* Small texts and records for IndexContents: text 1 is the sender's name,   *)
(* 2 and 3 are instances, 4 to 6 are bodies.                                 *)
EXTENDS IndexContents

MCWordsOf == <<<<1>>, <<2>>, <<3, 2>>, <<4, 5, 4>>, <<5>>, <<>>>>
MCMentionsOf == [t \in 1 .. 6 |-> CASE t = 4 -> (1 :> 2) [] t = 5 -> (1 :> -1) @@ (2 :> 0) [] OTHER -> <<>>]
MCDrafts == {[instance |-> 2, body |-> 4], [instance |-> 3, body |-> 5]}
MCGraffiti == {3}

Reaction(id, creator, value) == [tag |-> "reaction", id |-> id, reaction |-> 1, creator |-> creator, value |-> value]
Revision(id, body) == [tag |-> "revision", id |-> id, instance |-> 2, body |-> body]
Reference(id, target, value) == [tag |-> "refersTo", id |-> id, target |-> target, value |-> value]
Zmojis(zmojis) == [tag |-> "zmojis", creator |-> 1, zmojis |-> zmojis]

MCOffers ==
  {Reaction(0, 1, TRUE), Reaction(0, 1, FALSE), Reaction(0, 2, TRUE), Reaction(1, 1, TRUE),
   Revision(0, 5), Revision(0, 6), Reference(0, 1, TRUE), Zmojis(1), Zmojis(2)}
MCBatches ==
  {<<Reaction(0, 1, TRUE)>>, <<Reaction(0, 1, FALSE)>>, <<Reaction(0, 2, TRUE), Reaction(1, 1, TRUE)>>,
   <<Revision(0, 5)>>, <<Revision(0, 5), Revision(0, 6)>>, <<Zmojis(1)>>, <<Zmojis(2), Reference(0, 1, TRUE)>>}

\* The batches of the run about restarts.
MCRevisions == {<<Revision(0, 5)>>}
=============================================================================
