------------------------------ MODULE Automaton ------------------------------
(***************************************************************************)
(* The globbing automaton of util/automaton/automaton.cc: a pattern (a      *)
(* sequence of PatternChars) becomes a nondeterministic machine, the        *)
(* machine becomes a deterministic one by the subset construction, and      *)
(* Converter::squish merges the states that look alike.                     *)
(*                                                                         *)
(* A character is a natural number, its code point.  A node of the          *)
(* nondeterministic machine is its place in the pattern, 1 .. Len + 1; an   *)
(* intermediate node is named by its key, the set of the places it stands   *)
(* for.  NoNode and NoKey are the null pointers.                            *)
(***************************************************************************)
EXTENDS Naturals, Sequences, FiniteSets

CONSTANT LookAlikes       \* getFuzzyEquivalents, for each letter from a to z

IsUpper(ch) == ch \in 65..90
IsLower(ch) == ch \in 97..122
ToUpper(ch) == ch - 32

ASSUME LookAlikesAssumption ==
  /\ DOMAIN LookAlikes = 97..122
  /\ \A ch \in 97..122 : \A like \in LookAlikes[ch] : like \in Nat /\ like >= 128

NoNode == 0
NoKey == {}

(* The slot of an edge: {ch} for a transition, {} for the otherwise edge.    *)
Slot(ch) == {ch}
Otherwise == {}

-----------------------------------------------------------------------------
(* Patterns *)

Char(ch, loose) ==
  [type |-> IF loose /\ IsLower(ch) THEN "Loose" ELSE "Exact", ch |-> ch]
MatchOne == [type |-> "MatchOne", ch |-> 0]
MatchN == [type |-> "MatchN", ch |-> 0]

(* The characters a pattern character names: the class of a Loose one is    *)
(* the letter, its capital and everything that resembles it.                *)
Class(pc) ==
  IF pc.type = "Loose" THEN {pc.ch, ToUpper(pc.ch)} \cup LookAlikes[pc.ch] ELSE {pc.ch}

(* The nondeterministic machine.  Working backwards, place p leads to       *)
(* p + 1, except that MatchN loops to itself and steps over for nothing.    *)
NDFA(pattern) ==
  [p \in 1..(Len(pattern) + 1) |->
     LET type == IF p > Len(pattern) THEN "done" ELSE pattern[p].type
     IN  [accepting   |-> type = "done",
          transitions |-> [ch \in IF type \in {"Loose", "Exact"} THEN Class(pattern[p]) ELSE {}
                             |-> p + 1],
          otherwise   |-> CASE type = "MatchOne" -> p + 1
                            [] type = "MatchN" -> p
                            [] OTHER -> NoNode,
          empty       |-> IF type = "MatchN" THEN p + 1 ELSE NoNode]]

-----------------------------------------------------------------------------
(* The subset construction *)

(* Where the empty transitions from a node end.                             *)
LastEmpty(ndfa, n) ==
  CHOOSE e \in n..Len(ndfa) :
    /\ ndfa[e].empty = NoNode
    /\ \A k \in n..(e - 1) : ndfa[k].empty = k + 1

(* IntermediateKeyBuilder::add, for each of the nodes: the node and all it  *)
(* reaches by empty transitions.  makeKey sorts and removes duplicates.     *)
KeyOf(ndfa, nodes) == UNION {n..LastEmpty(ndfa, n) : n \in nodes}

(* Where node n goes on ch, the otherwise transition included.              *)
Goes(node, ch) ==
  IF ch \in DOMAIN node.transitions THEN node.transitions[ch] ELSE node.otherwise

(* A mutant: a member without a transition on ch contributes nothing, its    *)
(* otherwise transition forgotten.                                          *)
PopulatedForgetting(ndfa, key) ==
  [accepting   |-> \E n \in key : ndfa[n].accepting,
   transitions |-> [ch \in UNION {DOMAIN ndfa[n].transitions : n \in key} |->
                      KeyOf(ndfa, {ndfa[n].transitions[ch] :
                                     n \in {m \in key : ch \in DOMAIN ndfa[m].transitions}})],
   otherwise   |-> KeyOf(ndfa, {ndfa[n].otherwise : n \in key} \ {NoNode})]

(* Converter::populateIntermediateNode: one transition for each character   *)
(* some member has a transition on, the otherwise transition when some      *)
(* member has one.                                                          *)
Populated(ndfa, key) ==
  [accepting   |-> \E n \in key : ndfa[n].accepting,
   transitions |-> [ch \in UNION {DOMAIN ndfa[n].transitions : n \in key} |->
                      KeyOf(ndfa, {Goes(ndfa[n], ch) : n \in key} \ {NoNode})],
   otherwise   |-> KeyOf(ndfa, {ndfa[n].otherwise : n \in key} \ {NoNode})]

Targets(inode) ==
  ({inode.transitions[ch] : ch \in DOMAIN inode.transitions} \cup {inode.otherwise}) \ {NoKey}

StartKey(ndfa) == KeyOf(ndfa, {1})

(* The work list of the Converter: a node is made for the start and for     *)
(* every key a node leads to, in any order and once.                        *)
LookupOrCreate(ndfa) ==
  LET from[keys \in SUBSET SUBSET (1..Len(ndfa))] ==
        LET all == keys \cup UNION {Targets(Populated(ndfa, key)) : key \in keys}
        IN  IF all = keys THEN keys ELSE from[all]
  IN  from[{StartKey(ndfa)}]

(* addTransition and addOtherwiseTransition note the incoming edge at its   *)
(* target, unless the node points at itself.                                *)
Edges(inodes) ==
  UNION {   {<<k, Slot(ch), inodes[k].transitions[ch]>> : ch \in DOMAIN inodes[k].transitions}
       \cup {<<k, Otherwise, inodes[k].otherwise>>}
         : k \in DOMAIN inodes}
Incoming(edges, to) == {<<e[1], e[2]>> : e \in {f \in edges : f[3] = to /\ f[1] # to}}

(* Converter::Converter: all the intermediate nodes of a pattern.           *)
Intermediates(pattern) ==
  LET ndfa == NDFA(pattern)
      inodes == [key \in LookupOrCreate(ndfa) |-> Populated(ndfa, key)]
      edges == Edges(inodes)
  IN  [k \in DOMAIN inodes |->
         [accepting   |-> inodes[k].accepting,
          transitions |-> inodes[k].transitions,
          otherwise   |-> inodes[k].otherwise,
          isStart     |-> k = StartKey(ndfa),
          incoming    |-> Incoming(edges, k)]]

-----------------------------------------------------------------------------
(* Squishing.  A converter in the course of it is a record: the nodes, the  *)
(* work still to do, and the nodes kept so far, no two of which are equal.  *)

Converter(pattern) ==
  LET inodes == Intermediates(pattern)
  IN  [inodes |-> inodes, squishWork |-> DOMAIN inodes, unique |-> {}]

(* INodeEqual: equal as structures, where a pointer to oneself equals a     *)
(* pointer to oneself.                                                      *)
Canonical(target, self) == IF target = self THEN {NoNode} ELSE target
INodeEqual(inodes, j, k) ==
  /\ inodes[j].accepting = inodes[k].accepting
  /\ DOMAIN inodes[j].transitions = DOMAIN inodes[k].transitions
  /\ \A ch \in DOMAIN inodes[j].transitions :
       Canonical(inodes[j].transitions[ch], j) = Canonical(inodes[k].transitions[ch], k)
  /\ Canonical(inodes[j].otherwise, j) = Canonical(inodes[k].otherwise, k)

(* The nodes with every edge of edges redirected to a node.                 *)
Redirected(inodes, edges, to) ==
  [k \in DOMAIN inodes |->
     [inodes[k] EXCEPT
        !.transitions = [ch \in DOMAIN @ |-> IF <<k, Slot(ch)>> \in edges THEN to ELSE @[ch]],
        !.otherwise   = IF <<k, Otherwise>> \in edges THEN to ELSE @]]

(* Converter::evictFromUnique, for each of the nodes: one that is among the *)
(* unique ones is looked at again.                                          *)
EvictFromUnique(conv, nodes) ==
  [conv EXCEPT !.unique = @ \ nodes, !.squishWork = @ \cup (nodes \cap conv.unique)]

(* Converter::forwardReferences: what led to `from` now leads to `to`, and  *)
(* the nodes so changed are evicted.                                        *)
ForwardReferences(conv, from, to) ==
  LET edges == conv.inodes[from].incoming
  IN  [EvictFromUnique(conv, {e[1] : e \in edges}) EXCEPT
         !.inodes = [Redirected(conv.inodes, edges, to) EXCEPT
                       ![to].incoming = @ \cup edges,
                       ![to].isStart = @ \/ conv.inodes[from].isStart]]

(* One turn of Converter::squish, with the item it takes from its work.     *)
Squish(conv, item) ==
  LET twins == {u \in conv.unique : INodeEqual(conv.inodes, item, u)}
      rest == [conv EXCEPT !.squishWork = @ \ {item}]
  IN  IF twins = {}
      THEN [rest EXCEPT !.unique = @ \cup {item}]
      ELSE ForwardReferences(rest, item, CHOOSE u \in twins : TRUE)

(* Converter::finish: the deterministic machine, of the unique nodes.       *)
Finish(conv) ==
  [start |-> CHOOSE k \in conv.unique : conv.inodes[k].isStart,
   nodes |-> [k \in conv.unique |->
                [accepting   |-> conv.inodes[k].accepting,
                 transitions |-> conv.inodes[k].transitions,
                 otherwise   |-> conv.inodes[k].otherwise]]]

-----------------------------------------------------------------------------
(* The deterministic machine *)

(* DFANode::tryAdvance on a character.                                      *)
TryAdvance(dfa, node, ch) == Goes(dfa.nodes[node], ch)

(* DFANode::tryAdvance on a string: it stops at the first null.             *)
TryAdvanceAll(dfa, node, key) ==
  LET at[i \in 0..Len(key)] ==
        IF i = 0 THEN node
        ELSE IF at[i - 1] = NoKey THEN NoKey
        ELSE TryAdvance(dfa, at[i - 1], key[i])
  IN  at[Len(key)]

(* A mutant: a key without a transition leads nowhere.                      *)
TryAdvanceMultiExact(dfa, node, keys) ==
  [i \in 1..Len(keys) |->
     IF keys[i] \in DOMAIN dfa.nodes[node].transitions
       THEN dfa.nodes[node].transitions[keys[i]] ELSE NoKey]

(* DFANode::tryAdvanceMulti: one pass over the sorted transitions for all   *)
(* the keys; the cursor never moves back.                                   *)
TryAdvanceMulti(dfa, node, keys) ==
  LET transitions == dfa.nodes[node].transitions
      passed[i \in 0..Len(keys)] ==   \* the transitions the cursor is beyond
        IF i = 0 THEN {}
        ELSE passed[i - 1] \cup {ch \in DOMAIN transitions : ch < keys[i]}
  IN  [i \in 1..Len(keys) |->
         IF keys[i] \in DOMAIN transitions \ passed[i]
           THEN transitions[keys[i]] ELSE dfa.nodes[node].otherwise]

Accepting(dfa, node) == node # NoKey /\ dfa.nodes[node].accepting

-----------------------------------------------------------------------------
(* What a pattern means, from the comments at CharType: the reference.      *)
(* From each place of the pattern on, where in the probe what it stands for *)
(* may begin.                                                               *)
Starts(pattern, probe) ==
  LET starts[p \in 1..(Len(pattern) + 1)] ==
        LET later == starts[p + 1]
        IN  IF p > Len(pattern) THEN {Len(probe) + 1}
            ELSE IF pattern[p].type = "MatchN"
            THEN {i \in 1..(Len(probe) + 1) : \E j \in later : i <= j}
            ELSE {i \in 1..Len(probe) :
                    /\ pattern[p].type = "MatchOne" \/ probe[i] \in Class(pattern[p])
                    /\ i + 1 \in later}
  IN  starts

Means(pattern, probe) == 1 \in Starts(pattern, probe)[1]
=============================================================================
