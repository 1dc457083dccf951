--------------------------- MODULE MCCoordinator ----------------------------
(* One page among two users: texts 1 and 2 are the users' names, 3 is an     *)
(* instance, 4 to 6 are bodies.                                              *)
EXTENDS Coordinator

MCWordsOf == <<<<1>>, <<2>>, <<3>>, <<4>>, <<5>>, <<>>>>
MCMentionsOf == [t \in 1 .. 6 |-> CASE t = 4 -> (1 :> 2) [] t = 5 -> (1 :> -1) @@ (2 :> 0) [] OTHER -> <<>>]
MCDrafts == {[sender |-> 1, instance |-> 3, body |-> 4], [sender |-> 2, instance |-> 3, body |-> 5]}

Reaction(id, creator, value) == [tag |-> "reaction", id |-> id, reaction |-> 1, creator |-> creator, value |-> value]
Revision(id, body) == [tag |-> "revision", id |-> id, instance |-> 3, body |-> body]
Zmojis(creator, zmojis) == [tag |-> "zmojis", creator |-> creator, zmojis |-> zmojis]

By(poster, records) == [poster |-> poster, records |-> records]
MCBatches ==
  {By(1, <<Reaction(0, 1, TRUE), Zmojis(1, 1)>>), By(1, <<Reaction(0, 1, FALSE)>>),
   By(2, <<Reaction(1, 2, TRUE), Zmojis(2, 2)>>), By(1, <<Revision(0, 5)>>),
   By(1, <<Revision(0, 6), Revision(0, 4)>>), By(2, <<Revision(0, 6), Revision(1, 4)>>)}
=============================================================================
