------------------------ MODULE CleanupScopesProofs ------------------------
(***************************************************************************)
(* Proofs about CleanupScopes: for every set of labels, catch lists and    *)
(* bounds, the generator's stacks stay consistent (TypeOK), a call without *)
(* an unwind edge is caught by nothing (PlainCallsUncaught), and only      *)
(* illegal gotos are rejected (RejectsOnlyIllegal).                        *)
(*                                                                         *)
(* The inductive invariant IInv is in CleanupScopesInvariant.              *)
(*                                                                         *)
(* Operations that loop over scopes, clauses or gotos are folds in the     *)
(* model; FoldFacts, instantiated with the operation and an invariant of   *)
(* the loop, takes the place of an induction.                              *)
(***************************************************************************)
EXTENDS CleanupScopesInvariant, SequenceTheorems, WellFoundedInduction, TLAPS

-----------------------------------------------------------------------------
(* One field replaced.                                                     *)
Put(s, i, x) == [s EXCEPT ![i] = x]
WithBlocks(f, B) == [f EXCEPT !.blk = B]
WithScopes(f, S) == [f EXCEPT !.scopes = S]
WithExits(f, i, E) == [f EXCEPT !.scopes[i].exits = E]
WithSelector(f, i) == [f EXCEPT !.scopes[i].selector = TRUE]
WithStart(f, x) == [f EXCEPT !.start = x]
WithCur(f, x) == [f EXCEPT !.cur = x]

(* What emitting code leaves alone.                                        *)
Kept(f, h) ==
  /\ h.msvc = f.msvc /\ h.catches = f.catches /\ h.gotos = f.gotos /\ h.labels = f.labels
  /\ h.loops = f.loops /\ h.plain = f.plain /\ Len(h.scopes) = Len(f.scopes)
  /\ Len(h.blk) >= Len(f.blk)
  /\ \A b \in 1 .. Len(f.blk) : h.blk[b].want = f.blk[b].want

-----------------------------------------------------------------------------
(* Numbers                                                                 *)

(* A non-empty set of natural numbers has a least element.                 *)
LEMMA LeastElement ==
  ASSUME NEW S, S \subseteq Nat, S # {}
  PROVE  \E i \in S : \A k \in S : i <= k
<1> DEFINE R == OpToRel(<, Nat)
<1>1. IsWellFoundedOn(R, Nat)
  BY NatLessThanWellFounded, Zenon
<1>2. \A i, k \in Nat : i < k => <<i, k>> \in R
  BY DEF OpToRel
<1> HIDE DEF R
<1>3. PICK i \in S : \A k \in S : <<k, i>> \notin R
  BY <1>1, WFMin
<1>4. ASSUME NEW k \in S PROVE i <= k
  <2>1. i \in Nat /\ k \in Nat /\ ~(k < i)
    BY <1>2, <1>3
  <2> QED
    BY <2>1
<1> QED
  BY <1>3, <1>4

(* The least-number principle, as FoldFacts wants it.                      *)
LEMMA WellOrdered == \A S \in SUBSET Nat : S # {} => \E i \in S : \A k \in S : i <= k
BY LeastElement

-----------------------------------------------------------------------------
(* Sequences                                                               *)

(* Sequences over a subset are sequences over the set.                     *)
LEMMA SeqMono ==
  ASSUME NEW S, NEW T, S \subseteq T
  PROVE  Seq(S) \subseteq Seq(T)
BY SeqDef

(* A sequence with one element replaced.                                   *)
LEMMA SeqUpdate ==
  ASSUME NEW S, NEW s \in Seq(S), NEW i \in 1 .. Len(s), NEW x \in S
  PROVE  /\ [s EXCEPT ![i] = x] \in Seq(S) /\ Len([s EXCEPT ![i] = x]) = Len(s)
         /\ \A k \in 1 .. Len(s) : [s EXCEPT ![i] = x][k] = IF k = i THEN x ELSE s[k]
OBVIOUS

(* A sequence with one element more: pushing on one of the generator's     *)
(* stacks.                                                                 *)
LEMMA SeqAppend ==
  ASSUME NEW S, NEW s \in Seq(S), NEW x \in S
  PROVE  /\ Append(s, x) \in Seq(S) /\ Len(Append(s, x)) = Len(s) + 1
         /\ \A k \in 1 .. Len(s) : Append(s, x)[k] = s[k]
         /\ Append(s, x)[Len(s) + 1] = x
OBVIOUS

(* A sequence without its last element: popping a stack.                   *)
LEMMA SeqFront ==
  ASSUME NEW S, NEW s \in Seq(S)
  PROVE  /\ Front(s) \in Seq(S)
         /\ s # <<>> => Len(Front(s)) = Len(s) - 1
         /\ \A k \in 1 .. Len(s) - 1 : Front(s)[k] = s[k]
<1> DEFINE n == Len(s) - 1
<1>1. n \in Int /\ 1 \in Int /\ \A i \in 1 .. n : s[i] \in S
  OBVIOUS
<1>2. s # <<>> => Len(s) >= 1
  OBVIOUS
<1> HIDE DEF n
<1>3. /\ SubSeq(s, 1, n) \in Seq(S)
      /\ Len(SubSeq(s, 1, n)) = IF 1 <= n THEN n - 1 + 1 ELSE 0
      /\ \A i \in 1 .. n - 1 + 1 : SubSeq(s, 1, n)[i] = s[1 + i - 1]
  BY <1>1, SubSeqProperties
<1>4. Front(s) = SubSeq(s, 1, n) /\ n = Len(s) - 1 /\ Len(s) \in Nat
  BY DEF Front, n
<1>5. \A i \in 1 .. n : SubSeq(s, 1, n)[i] = s[i]
  BY <1>1, <1>3
<1>6. s # <<>> => Len(SubSeq(s, 1, n)) = n
  BY <1>2, <1>3, <1>4
<1> QED
  BY <1>3, <1>4, <1>5, <1>6

(* A function on 1..n is a sequence, and SubSeq gives it back (EachBlock,  *)
(* CloneBlocks).                                                           *)
LEMMA SeqBuilt ==
  ASSUME NEW S, NEW n \in Nat, NEW s, s = [k \in 1 .. n |-> s[k]],
         \A k \in 1 .. n : s[k] \in S
  PROVE  s \in Seq(S) /\ Len(s) = n /\ SubSeq(s, 1, Len(s)) = s
OBVIOUS

-----------------------------------------------------------------------------
(* More blocks, or more ghosts, and everything keeps its type.             *)

(* Every set of the types grows with the number of blocks and with the     *)
(* ghosts.                                                                 *)
LEMMA Widen ==
  ASSUME NEW z \in {0, 1}, NEW n \in Nat, NEW m \in Nat, n <= m, NEW V, NEW W, V \subseteq W
  PROVE  /\ Seq(BlockSet(z, n, V)) \subseteq Seq(BlockSet(z, m, W))
         /\ BlockSet(z, n, V) \subseteq BlockSet(z, m, W)
         /\ TermSet(z, n) \subseteq TermSet(z, m)
         /\ ScopeSet(n) \subseteq ScopeSet(m)
         /\ Seq(ScopeSet(n)) \subseteq Seq(ScopeSet(m))
         /\ Seq(CatchSet(n)) \subseteq Seq(CatchSet(m))
         /\ Seq(Seq(GotoSet(n))) \subseteq Seq(Seq(GotoSet(m)))
         /\ Seq(Seq(0 .. n)) \subseteq Seq(Seq(0 .. m))
         /\ LabelMap(n) \subseteq LabelMap(m)
         /\ Seq(LoopSet(n)) \subseteq Seq(LoopSet(m))
<1>1. 1 .. n \subseteq 1 .. m /\ 0 .. n \subseteq 0 .. m /\ z .. n \subseteq z .. m
  OBVIOUS
<1>2. Seq(z .. n) \subseteq Seq(z .. m) /\ Seq(1 .. n) \subseteq Seq(1 .. m)
      /\ Seq(0 .. n) \subseteq Seq(0 .. m)
  BY <1>1, SeqMono
<1>3. TermSet(z, n) \subseteq TermSet(z, m)
  BY <1>2 DEF TermSet
<1>4. BlockSet(z, n, V) \subseteq BlockSet(z, m, W)
  BY <1>3 DEF BlockSet
<1>5. ExitSet(n) \subseteq ExitSet(m)
  BY <1>1, <1>2 DEF ExitSet
<1>6. Seq(ExitSet(n)) \subseteq Seq(ExitSet(m))
  BY <1>5, SeqMono
<1>7. ScopeSet(n) \subseteq ScopeSet(m)
  BY <1>1, <1>2, <1>6 DEF ScopeSet
<1>8. ClauseSet(n) \subseteq ClauseSet(m) /\ GotoSet(n) \subseteq GotoSet(m)
      /\ LabelSet(n) \subseteq LabelSet(m) /\ LoopSet(n) \subseteq LoopSet(m)
  BY <1>1 DEF ClauseSet, GotoSet, LabelSet, LoopSet
<1>9. Seq(ClauseSet(n)) \subseteq Seq(ClauseSet(m)) /\ Seq(GotoSet(n)) \subseteq Seq(GotoSet(m))
  BY <1>8, SeqMono
<1>10. CatchSet(n) \subseteq CatchSet(m)
  BY <1>9 DEF CatchSet
<1>11. LabelMap(n) \subseteq LabelMap(m)
  BY <1>8 DEF LabelMap
<1> QED
  BY <1>2, <1>3, <1>4, <1>7, <1>8, <1>9, <1>10, <1>11, SeqMono

(* A well-formed state stays one when more ghosts are allowed.             *)
LEMMA Accept ==
  ASSUME NEW z \in {0, 1}, NEW V, NEW W, V \subseteq W, NEW f, WellFormed(f, z, V)
  PROVE  WellFormed(f, z, W)
<1> DEFINE n == Len(f.blk)
<1>1. f \in FunctionSet(z, n, V) /\ n \in Nat
  BY DEF WellFormed, FunctionSet
<1>2. f \in FunctionSet(z, n, W)
  <2>1. Seq(BlockSet(z, n, V)) \subseteq Seq(BlockSet(z, n, W))
    BY <1>1, Widen
  <2> QED
    BY <1>1, <2>1 DEF FunctionSet
<1> QED
  BY <1>2 DEF WellFormed

-----------------------------------------------------------------------------
(* Blocks                                                                  *)

(* A block with another terminator keeps its type, its stores and its      *)
(* ghost.                                                                  *)
LEMMA BlockTerm ==
  ASSUME NEW z \in {0, 1}, NEW n \in Nat, NEW W, NEW x \in BlockSet(z, n, W),
         NEW y \in {0, 1}, NEW t \in TermSet(y, n)
  PROVE  LET b == [x EXCEPT !.term = t] IN
         b \in BlockSet(y, n, W) /\ b.stores = x.stores /\ b.want = x.want /\ b.term = t
BY DEF BlockSet

(* A block with another landingpad instruction keeps its type and the      *)
(* rest.                                                                   *)
LEMMA BlockPad ==
  ASSUME NEW z \in {0, 1}, NEW n \in Nat, NEW W, NEW x \in BlockSet(z, n, W), NEW p \in PadSet
  PROVE  LET b == [x EXCEPT !.pad = p] IN
         b \in BlockSet(z, n, W) /\ b.stores = x.stores /\ b.want = x.want /\ b.term = x.term
BY DEF BlockSet

(* A block with another ghost keeps its type and the rest.                 *)
LEMMA BlockWant ==
  ASSUME NEW z \in {0, 1}, NEW n \in Nat, NEW W, NEW x \in BlockSet(z, n, W), NEW w \in W
  PROVE  LET b == [x EXCEPT !.want = w] IN
         b \in BlockSet(z, n, W) /\ b.stores = x.stores /\ b.want = w /\ b.term = x.term
BY DEF BlockSet

(* A block marked as the start of a cleanup keeps its type and the rest.   *)
LEMMA BlockRuns ==
  ASSUME NEW z \in {0, 1}, NEW n \in Nat, NEW W, NEW x \in BlockSet(z, n, W), NEW r \in Nat
  PROVE  LET b == [x EXCEPT !.runs = r] IN
         b \in BlockSet(z, n, W) /\ b.stores = x.stores /\ b.want = x.want /\ b.term = x.term
BY DEF BlockSet

(* A block with one more store to a branch selector keeps its type and the *)
(* rest.                                                                   *)
LEMMA BlockStore ==
  ASSUME NEW z \in {0, 1}, NEW n \in Nat, NEW W, NEW x \in BlockSet(z, n, W),
         NEW s \in Nat, NEW v \in Nat
  PROVE  LET b == [x EXCEPT !.stores = Bind(x.stores, s, v)] IN
         b \in BlockSet(z, n, W) /\ b.want = x.want /\ b.term = x.term
<1>1. Bind(x.stores, s, v) \in StoreSet
  <2>1. PICK D \in SUBSET Nat : x.stores \in [D -> Nat]
    BY DEF BlockSet, StoreSet
  <2>2. Bind(x.stores, s, v) \in [D \cup {s} -> Nat]
    BY <2>1 DEF Bind
  <2> QED
    BY <2>2 DEF StoreSet
<1> QED
  BY <1>1 DEF BlockSet

(* A new block has its type, stores nothing and has no ghost.              *)
LEMMA BlockNew ==
  ASSUME NEW z \in {0, 1}, NEW n \in Nat, NEW W, NoWant \in W, NEW t \in TermSet(z, n)
  PROVE  /\ Block(t) \in BlockSet(z, n, W) /\ Block(t).stores = <<>> /\ Block(t).term = t
         /\ Block(t).want = NoWant
<1>1. <<>> \in StoreSet
  <2>1. <<>> \in [{} -> Nat]
    OBVIOUS
  <2> QED
    BY <2>1 DEF StoreSet
<1>2. NoPad \in PadSet
  BY DEF NoPad, PadSet
<1> QED
  BY <1>1, <1>2 DEF Block, BlockSet

(* The terminators the generator builds have their type.                   *)
LEMMA Terms ==
  ASSUME NEW z \in {0, 1}, NEW n \in Nat
  PROVE  /\ NoTerm \in TermSet(z, n) /\ NoTerm.op # "switch" /\ NoTerm.op # "catchswitch"
         /\ \A to \in z .. n : Br(to) \in TermSet(z, n) /\ Br(to).op = "br"
         /\ \A op \in Ops, arg \in Seq(Nat \cup Classes), to \in Seq(z .. n) :
               Term(op, arg, to) \in TermSet(z, n) /\ Term(op, arg, to).op = op
<1>1. <<>> \in Seq(Nat \cup Classes) /\ <<>> \in Seq(z .. n)
      /\ \A to \in z .. n : <<to>> \in Seq(z .. n)
  OBVIOUS
<1>2. \A op \in Ops, arg \in Seq(Nat \cup Classes), to \in Seq(z .. n) :
        Term(op, arg, to) \in TermSet(z, n) /\ Term(op, arg, to).op = op
  BY DEF Term, TermSet
<1>3. NoTerm \in TermSet(z, n) /\ NoTerm.op = "none"
  BY <1>1 DEF NoTerm, TermSet, Ops
<1>4. \A to \in z .. n : Br(to) \in TermSet(z, n) /\ Br(to).op = "br"
  BY <1>1 DEF Br, Term, TermSet, Ops
<1> QED
  BY <1>2, <1>3, <1>4

-----------------------------------------------------------------------------
(* Emitting blocks                                                         *)

(* What two steps leave alone is left alone by both.                       *)
LEMMA KeptTrans ==
  ASSUME NEW f, NEW h, NEW e, Kept(f, h), Kept(h, e),
         Len(f.blk) \in Nat, Len(h.blk) \in Nat, Len(e.blk) \in Nat
  PROVE  Kept(f, e)
BY DEF Kept

(* Everything but the blocks.                                              *)
Rest(f, h) ==
  /\ h.msvc = f.msvc /\ h.cur = f.cur /\ h.start = f.start /\ h.scopes = f.scopes
  /\ h.catches = f.catches /\ h.gotos = f.gotos /\ h.pads = f.pads /\ h.labels = f.labels
  /\ h.loops = f.loops /\ h.ret = f.ret /\ h.resume = f.resume /\ h.plain = f.plain

(* Other blocks, the rest unchanged: the state stays well formed (with new *)
(* ghosts).                                                                *)
LEMMA ReplaceBlocks ==
  ASSUME NEW y \in {0, 1}, NEW z \in {0, 1}, NEW W, NEW f, WellFormed(f, y, W),
         NEW m \in Nat, m >= Len(f.blk),
         NEW B \in Seq(BlockSet(z, m, W)), Len(B) = m,
         f.msvc => \A b \in 1 .. m : B[b].stores = <<>> /\ B[b].term.op # "switch",
         NEW h, h = WithBlocks(f, B)
  PROVE  WellFormed(h, z, W) /\ Rest(f, h) /\ h.blk = B
<1> DEFINE n == Len(f.blk)
<1>1. f \in FunctionSet(y, n, W) /\ n \in Nat
  BY SMTT(30) DEF WellFormed, FunctionSet
<1>2. Rest(f, h) /\ h.blk = B
  BY <1>1 DEF Rest, FunctionSet, WithBlocks
<1>3. h \in FunctionSet(z, m, W)
  <2>1. /\ 1 .. n \subseteq 1 .. m /\ 0 .. n \subseteq 0 .. m
        /\ Seq(ScopeSet(n)) \subseteq Seq(ScopeSet(m))
        /\ Seq(CatchSet(n)) \subseteq Seq(CatchSet(m))
        /\ Seq(Seq(GotoSet(n))) \subseteq Seq(Seq(GotoSet(m)))
        /\ Seq(Seq(0 .. n)) \subseteq Seq(Seq(0 .. m))
        /\ LabelMap(n) \subseteq LabelMap(m)
        /\ Seq(LoopSet(n)) \subseteq Seq(LoopSet(m))
    <3>1. n <= m /\ W \subseteq W
      BY <1>1
    <3>2. 1 .. n \subseteq 1 .. m /\ 0 .. n \subseteq 0 .. m
      BY <1>1, <3>1
    <3> HIDE DEF n
    <3> QED
      BY <1>1, <3>1, <3>2, Widen
  <2>2. /\ f.cur \in 1 .. n /\ f.start \in 0 .. n /\ f.msvc \in BOOLEAN
        /\ f.ret \in 0 .. n /\ f.resume \in 0 .. n /\ f.plain \in SUBSET W
        /\ f.scopes \in Seq(ScopeSet(n)) /\ f.catches \in Seq(CatchSet(n))
        /\ f.gotos \in Seq(Seq(GotoSet(n))) /\ f.pads \in Seq(Seq(0 .. n))
        /\ f.labels \in LabelMap(n) /\ f.loops \in Seq(LoopSet(n))
    BY <1>1 DEF FunctionSet
  <2>3. /\ f.cur \in 1 .. m /\ f.start \in 0 .. m
        /\ f.ret \in 0 .. m /\ f.resume \in 0 .. m
        /\ f.scopes \in Seq(ScopeSet(m)) /\ f.catches \in Seq(CatchSet(m))
        /\ f.gotos \in Seq(Seq(GotoSet(m))) /\ f.pads \in Seq(Seq(0 .. m))
        /\ f.labels \in LabelMap(m) /\ f.loops \in Seq(LoopSet(m))
    <3> HIDE DEF n
    <3> QED
      BY <2>1, <2>2
  <2> HIDE DEF n
  <2>4. B \in Seq(BlockSet(z, m, W))
    OBVIOUS
  <2> QED
    BY <1>1, <2>2, <2>3, <2>4 DEF FunctionSet, WithBlocks
<1>4. FuncletBlocks(h)
  BY <1>2 DEF FuncletBlocks, Rest
<1>5. ScopesFilled(h)
  BY <1>2 DEF WellFormed, ScopesFilled, ScopeFilled, ExitsFilled, Rest
<1> QED
  BY <1>2, <1>3, <1>4, <1>5 DEF WellFormed, Rest

(* The same when the blocks that were there keep their ghosts.             *)
LEMMA ChangeBlocks ==
  ASSUME NEW y \in {0, 1}, NEW z \in {0, 1}, NEW W, NEW f, WellFormed(f, y, W),
         NEW m \in Nat, m >= Len(f.blk),
         NEW B \in Seq(BlockSet(z, m, W)), Len(B) = m,
         \A b \in 1 .. Len(f.blk) : B[b].want = f.blk[b].want,
         f.msvc => \A b \in 1 .. m : B[b].stores = <<>> /\ B[b].term.op # "switch",
         NEW h, h = WithBlocks(f, B)
  PROVE  WellFormed(h, z, W) /\ Kept(f, h) /\ Rest(f, h) /\ h.blk = B
<1>1. WellFormed(h, z, W) /\ Rest(f, h) /\ h.blk = B
  BY ReplaceBlocks
<1>2. Len(f.blk) \in Nat
  BY DEF WellFormed, FunctionSet
<1> QED
  BY <1>1, <1>2 DEF Kept, Rest

(* The facts about lengths, domains and elements that the other lemmas ask *)
(* for.                                                                    *)
LEMMA Lengths ==
  ASSUME NEW z \in {0, 1}, NEW W, NEW f, WellFormed(f, z, W)
  PROVE  /\ Len(f.blk) \in Nat /\ f.blk \in Seq(BlockSet(z, Len(f.blk), W)) /\ Len(f.blk) > 0
         /\ DOMAIN f.blk = 1 .. Len(f.blk)
         /\ \A b \in 1 .. Len(f.blk) : f.blk[b] \in BlockSet(z, Len(f.blk), W)
         /\ Len(f.scopes) \in Nat /\ f.scopes \in Seq(ScopeSet(Len(f.blk)))
         /\ DOMAIN f.scopes = 1 .. Len(f.scopes)
         /\ \A i \in 1 .. Len(f.scopes) : f.scopes[i] \in ScopeSet(Len(f.blk))
         /\ f.cur \in 1 .. Len(f.blk) /\ f.start \in 0 .. Len(f.blk) /\ f.msvc \in BOOLEAN
         /\ f.ret \in 0 .. Len(f.blk) /\ f.resume \in 0 .. Len(f.blk)
<1> DEFINE n == Len(f.blk)
<1>1. f \in FunctionSet(z, n, W)
  BY DEF WellFormed
<1>2. /\ f.blk \in Seq(BlockSet(z, n, W)) /\ f.scopes \in Seq(ScopeSet(n))
      /\ f.cur \in 1 .. n /\ f.start \in 0 .. n /\ f.msvc \in BOOLEAN
      /\ f.ret \in 0 .. n /\ f.resume \in 0 .. n
  BY <1>1 DEF FunctionSet
<1> QED
  BY <1>2

(* insertBB: one block more, the state stays well formed.                  *)
LEMMA AddBlockOk ==
  ASSUME NEW z \in {0, 1}, NEW W, NEW f, WellFormed(f, z, W), NoWant \in W,
         NEW t \in TermSet(z, Len(f.blk) + 1), f.msvc => t.op # "switch"
  PROVE  LET h == AddBlock(f, Block(t)) IN
         /\ WellFormed(h, z, W) /\ Kept(f, h) /\ Rest(f, h)
         /\ Len(h.blk) = Len(f.blk) + 1 /\ LastBlock(h) = Len(f.blk) + 1
         /\ \A b \in 1 .. Len(f.blk) : h.blk[b] = f.blk[b]
         /\ h.blk[Len(f.blk) + 1] = Block(t)
<1> DEFINE n == Len(f.blk)
           h == AddBlock(f, Block(t))
           B == Append(f.blk, Block(t))
<1>1. n \in Nat /\ f.blk \in Seq(BlockSet(z, n, W)) /\ DOMAIN f.blk = 1 .. n
  BY Lengths
<1>2. /\ Block(t) \in BlockSet(z, n + 1, W) /\ Block(t).stores = <<>> /\ Block(t).term = t
  BY <1>1, BlockNew
<1>3. f.blk \in Seq(BlockSet(z, n + 1, W))
  <2>1. n + 1 \in Nat /\ n <= n + 1 /\ W \subseteq W
    BY <1>1
  <2>2. Seq(BlockSet(z, n, W)) \subseteq Seq(BlockSet(z, n + 1, W))
    BY <1>1, <2>1, Widen
  <2> QED
    BY <1>1, <2>2
<1>4. /\ B \in Seq(BlockSet(z, n + 1, W)) /\ Len(B) = n + 1
      /\ \A k \in 1 .. n : B[k] = f.blk[k]
      /\ B[n + 1] = Block(t)
  BY <1>2, <1>3, SeqAppend
<1>5. f.msvc => \A b \in 1 .. n + 1 : B[b].stores = <<>> /\ B[b].term.op # "switch"
  BY <1>1, <1>2, <1>4 DEF WellFormed, FuncletBlocks
<1>6. h = WithBlocks(f, B)
  BY DEF AddBlock, WithBlocks
<1> HIDE DEF B
<1>7. WellFormed(h, z, W) /\ Kept(f, h) /\ Rest(f, h) /\ h.blk = B
  <2>1. n + 1 \in Nat /\ n + 1 >= n /\ \A b \in 1 .. n : B[b].want = f.blk[b].want
    BY <1>1, <1>4
  <2> QED
    BY <1>4, <1>5, <1>6, <2>1, ChangeBlocks
<1> QED
  BY <1>4, <1>7 DEF LastBlock

(* Terminating a block with a well-typed instruction keeps the state well  *)
(* formed.                                                                 *)
LEMMA SetTermOk ==
  ASSUME NEW z \in {0, 1}, NEW W, NEW f, WellFormed(f, z, W), NEW b \in 1 .. Len(f.blk),
         NEW t \in TermSet(z, Len(f.blk)), f.msvc => t.op # "switch"
  PROVE  LET h == SetTerm(f, b, t) IN
         /\ WellFormed(h, z, W) /\ Kept(f, h) /\ Rest(f, h) /\ Len(h.blk) = Len(f.blk)
         /\ \A c \in 1 .. Len(f.blk) : h.blk[c].want = f.blk[c].want
         /\ \A c \in 1 .. Len(f.blk) : c # b => h.blk[c] = f.blk[c]
         /\ h.blk[b].term = t
<1> DEFINE n == Len(f.blk)
           h == SetTerm(f, b, t)
           x == f.blk[b]
           y == [x EXCEPT !.term = t]
           B == [f.blk EXCEPT ![b] = y]
<1>1. n \in Nat /\ f.blk \in Seq(BlockSet(z, n, W)) /\ DOMAIN f.blk = 1 .. n
      /\ x \in BlockSet(z, n, W)
  BY Lengths
<1>2. h = WithBlocks(f, B)
  BY DEF SetTerm, WithBlocks
<1> HIDE DEF x
<1>3. y \in BlockSet(z, n, W) /\ y.stores = x.stores /\ y.want = x.want /\ y.term = t
  BY <1>1, BlockTerm
<1> HIDE DEF y
<1>4. /\ B \in Seq(BlockSet(z, n, W)) /\ Len(B) = n
      /\ \A k \in 1 .. n : B[k] = IF k = b THEN y ELSE f.blk[k]
  BY <1>1, <1>3, SeqUpdate
<1> HIDE DEF B
<1>5. \A k \in 1 .. n : B[k].want = f.blk[k].want
  BY <1>3, <1>4 DEF x
<1>6. f.msvc => \A k \in 1 .. n : B[k].stores = <<>> /\ B[k].term.op # "switch"
  BY <1>1, <1>3, <1>4 DEF WellFormed, FuncletBlocks, x
<1>7. WellFormed(h, z, W) /\ Kept(f, h) /\ Rest(f, h) /\ h.blk = B
  <2>1. n >= Len(f.blk) /\ z \in {0, 1} /\ \A k \in 1 .. Len(f.blk) : B[k].want = f.blk[k].want
    BY <1>1, <1>5
  <2> HIDE DEF h, n
  <2> QED
    BY <1>1, <1>2, <1>4, <1>5, <1>6, <2>1, ChangeBlocks
<1> QED
  BY <1>3, <1>4, <1>5, <1>7

-----------------------------------------------------------------------------
(* One block, or each block, changed                                       *)

(* A change made to each block that keeps types and ghosts (EachBlock).    *)
LEMMA EachBlockOk ==
  ASSUME NEW y \in {0, 1}, NEW z \in {0, 1}, NEW W, NEW f, WellFormed(f, y, W), NEW F,
         F \in [1 .. Len(f.blk) -> BlockSet(z, Len(f.blk), W)],
         \A b \in 1 .. Len(f.blk) : F[b].want = f.blk[b].want,
         f.msvc => \A b \in 1 .. Len(f.blk) : F[b].stores = <<>> /\ F[b].term.op # "switch",
         NEW h, h = WithBlocks(f, SubSeq(F, 1, Len(f.blk)))
  PROVE  /\ WellFormed(h, z, W) /\ Kept(f, h) /\ Rest(f, h) /\ Len(h.blk) = Len(f.blk)
         /\ h.blk = F
<1> DEFINE n == Len(f.blk)
<1>1. n \in Nat
  BY Lengths
<1>2. F \in Seq(BlockSet(z, n, W)) /\ Len(F) = n /\ SubSeq(F, 1, Len(F)) = F
  <2> HIDE DEF n
  <2>1. F = [k \in 1 .. n |-> F[k]] /\ \A k \in 1 .. n : F[k] \in BlockSet(z, n, W)
    BY DEF n
  <2> QED
    BY <1>1, <2>1, SeqBuilt
<1>3. h = WithBlocks(f, F)
  BY <1>2
<1>4. WellFormed(h, z, W) /\ Kept(f, h) /\ Rest(f, h) /\ h.blk = F
  <2>1. f.msvc => \A b \in 1 .. n : F[b].stores = <<>> /\ F[b].term.op # "switch"
    OBVIOUS
  <2>2. n >= Len(f.blk) /\ \A b \in 1 .. Len(f.blk) : F[b].want = f.blk[b].want
    BY <1>1
  <2> HIDE DEF n
  <2> QED
    BY <1>1, <1>2, <1>3, <2>1, <2>2, ChangeBlocks
<1> QED
  BY <1>2, <1>4

(* Successors replaced by a block of the function, or the placeholder      *)
(* removed.                                                                *)
LEMMA SuccessorsOk ==
  ASSUME NEW y \in {0, 1}, NEW z \in {0, 1}, NEW n \in Nat, NEW t \in TermSet(y, n), NEW old,
         NEW new \in z .. n, z <= y \/ 0 \in old
  PROVE  Successors(t, old, new) \in TermSet(z, n) /\ Successors(t, old, new).op = t.op
<1> DEFINE to == [k \in DOMAIN t.to |-> IF t.to[k] \in old THEN new ELSE t.to[k]]
<1>1. t.to \in Seq(y .. n) /\ t.op \in Ops
  BY DEF TermSet
<1>2. to \in Seq(z .. n)
  <2>1. Len(t.to) \in Nat /\ DOMAIN t.to = 1 .. Len(t.to)
    BY <1>1
  <2>2. \A k \in 1 .. Len(t.to) : to[k] \in z .. n
    BY <1>1, <2>1
  <2>3. to = [k \in 1 .. Len(t.to) |-> to[k]]
    BY <2>1
  <2> HIDE DEF to
  <2> QED
    BY <2>1, <2>2, <2>3, SeqBuilt
<1>3. Successors(t, old, new) = [t EXCEPT !.to = to]
  BY DEF Successors
<1> HIDE DEF to
<1> QED
  BY <1>1, <1>2, <1>3 DEF TermSet

(* replaceAllUsesWith keeps the state well formed, also with the           *)
(* placeholder.                                                            *)
LEMMA ReplaceAllUsesWithOk ==
  ASSUME NEW y \in {0, 1}, NEW z \in {0, 1}, NEW W, NEW f, WellFormed(f, y, W), NEW old,
         NEW new \in z .. Len(f.blk), z <= y \/ 0 \in old
  PROVE  LET h == ReplaceAllUsesWith(f, old, new) IN
         WellFormed(h, z, W) /\ Kept(f, h) /\ Rest(f, h) /\ Len(h.blk) = Len(f.blk)
<1> DEFINE n == Len(f.blk)
           h == ReplaceAllUsesWith(f, old, new)
           F == [b \in 1 .. Len(f.blk) |-> [f.blk[b] EXCEPT !.term = Successors(f.blk[b].term, old, new)]]
<1>1. n \in Nat /\ \A b \in 1 .. n : f.blk[b] \in BlockSet(y, n, W)
  BY Lengths
<1>2. h = WithBlocks(f, SubSeq(F, 1, Len(f.blk)))
  BY DEF ReplaceAllUsesWith, EachBlock, WithBlocks
<1>3. ASSUME NEW b \in 1 .. Len(f.blk)
      PROVE  /\ F[b] \in BlockSet(z, Len(f.blk), W) /\ F[b].want = f.blk[b].want
             /\ F[b].stores = f.blk[b].stores /\ F[b].term.op = f.blk[b].term.op
  <2> DEFINE x == f.blk[b]
             t == Successors(x.term, old, new)
  <2>1. x \in BlockSet(y, n, W) /\ x.term \in TermSet(y, n)
    BY <1>1 DEF BlockSet
  <2>2. t \in TermSet(z, n) /\ t.op = x.term.op
    BY <1>1, <2>1, SuccessorsOk
  <2>3. F[b] = [x EXCEPT !.term = t]
    OBVIOUS
  <2> HIDE DEF x, t, F, n
  <2>4. LET d == [x EXCEPT !.term = t] IN
         d \in BlockSet(z, n, W) /\ d.stores = x.stores /\ d.want = x.want /\ d.term = t
    BY <1>1, <2>1, <2>2, BlockTerm
  <2> QED
    BY <2>2, <2>3, <2>4 DEF x, n
<1>4. f.msvc => \A b \in 1 .. Len(f.blk) : F[b].stores = <<>> /\ F[b].term.op # "switch"
  <2> HIDE DEF F
  <2> QED
    BY <1>1, <1>3, Lengths DEF WellFormed, FuncletBlocks
<1>5. F \in [1 .. Len(f.blk) -> BlockSet(z, Len(f.blk), W)]
  <2>1. F = [b \in 1 .. Len(f.blk) |-> F[b]]
    OBVIOUS
  <2> HIDE DEF F
  <2> QED
    BY <1>3, <2>1
<1> HIDE DEF F, h
<1>6. WellFormed(h, z, W) /\ Kept(f, h) /\ Rest(f, h) /\ Len(h.blk) = Len(f.blk)
  BY <1>2, <1>3, <1>4, <1>5, EachBlockOk
<1> QED
  BY <1>6 DEF h

(* A store to a branch selector keeps the state well formed (not for       *)
(* funclets).                                                              *)
LEMMA StoreOk ==
  ASSUME NEW z \in {0, 1}, NEW W, NEW f, WellFormed(f, z, W), ~f.msvc, NEW bs,
         NEW selector \in Nat, NEW value \in Nat
  PROVE  LET h == Store(f, bs, selector, value) IN
         WellFormed(h, z, W) /\ Kept(f, h) /\ Rest(f, h) /\ Len(h.blk) = Len(f.blk)
<1> DEFINE n == Len(f.blk)
           h == Store(f, bs, selector, value)
           F == [b \in 1 .. Len(f.blk) |->
                   IF b \in bs
                   THEN [f.blk[b] EXCEPT !.stores = Bind(f.blk[b].stores, selector, value)]
                   ELSE f.blk[b]]
<1>1. n \in Nat /\ \A b \in 1 .. n : f.blk[b] \in BlockSet(z, n, W)
  BY Lengths
<1>2. h = WithBlocks(f, SubSeq(F, 1, Len(f.blk)))
  BY DEF Store, EachBlock, WithBlocks
<1>3. ASSUME NEW b \in 1 .. Len(f.blk)
      PROVE  F[b] \in BlockSet(z, Len(f.blk), W) /\ F[b].want = f.blk[b].want
  <2> DEFINE x == f.blk[b]
  <2>1. x \in BlockSet(z, n, W)
    BY <1>1
  <2>2. F[b] = IF b \in bs THEN [x EXCEPT !.stores = Bind(x.stores, selector, value)] ELSE x
    OBVIOUS
  <2> HIDE DEF x, F, n
  <2>3. LET d == [x EXCEPT !.stores = Bind(x.stores, selector, value)] IN
         d \in BlockSet(z, n, W) /\ d.want = x.want
    BY <1>1, <2>1, BlockStore
  <2> QED
    BY <2>1, <2>2, <2>3 DEF x, n
<1>5. F \in [1 .. Len(f.blk) -> BlockSet(z, Len(f.blk), W)]
  <2>1. F = [b \in 1 .. Len(f.blk) |-> F[b]]
    OBVIOUS
  <2> HIDE DEF F
  <2> QED
    BY <1>3, <2>1
<1> HIDE DEF F, h
<1>6. WellFormed(h, z, W) /\ Kept(f, h) /\ Rest(f, h) /\ Len(h.blk) = Len(f.blk)
  BY <1>2, <1>3, <1>5, EachBlockOk
<1> QED
  BY <1>6 DEF h

-----------------------------------------------------------------------------
(* Other fields changed                                                    *)

(* The block an operation hands back replaced.                             *)
LEMMA SetStartOk ==
  ASSUME NEW z \in {0, 1}, NEW W, NEW f, WellFormed(f, z, W), NEW x \in 0 .. Len(f.blk),
         NEW h, h = WithStart(f, x)
  PROVE  /\ WellFormed(h, z, W) /\ Kept(f, h) /\ h.cur = f.cur /\ h.start = x /\ h.blk = f.blk
         /\ h.scopes = f.scopes /\ h.pads = f.pads /\ h.ret = f.ret /\ h.resume = f.resume
<1> DEFINE n == Len(f.blk)
<1>1. f \in FunctionSet(z, n, W) /\ n \in Nat
  BY Lengths DEF WellFormed
<1> HIDE DEF n
<1>2. /\ h \in FunctionSet(z, n, W) /\ h.start = x /\ h.blk = f.blk /\ h.cur = f.cur
      /\ h.msvc = f.msvc /\ h.scopes = f.scopes /\ h.catches = f.catches /\ h.gotos = f.gotos
      /\ h.pads = f.pads /\ h.labels = f.labels /\ h.loops = f.loops /\ h.ret = f.ret
      /\ h.resume = f.resume /\ h.plain = f.plain
  BY <1>1 DEF FunctionSet, n, WithStart, WithCur
<1>3. WellFormed(h, z, W)
  BY <1>2 DEF WellFormed, FuncletBlocks, ScopesFilled, ScopeFilled, ExitsFilled, n
<1>4. Kept(f, h)
  BY <1>1, <1>2 DEF Kept, n
<1> QED
  BY <1>2, <1>3, <1>4

(* The insertion point moved to another block.                             *)
LEMMA SetCurOk ==
  ASSUME NEW z \in {0, 1}, NEW W, NEW f, WellFormed(f, z, W), NEW x \in 1 .. Len(f.blk),
         NEW h, h = WithCur(f, x)
  PROVE  /\ WellFormed(h, z, W) /\ Kept(f, h) /\ h.cur = x /\ h.start = f.start /\ h.blk = f.blk
         /\ h.scopes = f.scopes /\ h.pads = f.pads /\ h.ret = f.ret /\ h.resume = f.resume
<1> DEFINE n == Len(f.blk)
<1>1. f \in FunctionSet(z, n, W) /\ n \in Nat
  BY Lengths DEF WellFormed
<1> HIDE DEF n
<1>2. /\ h \in FunctionSet(z, n, W) /\ h.start = f.start /\ h.blk = f.blk /\ h.cur = x
      /\ h.msvc = f.msvc /\ h.scopes = f.scopes /\ h.catches = f.catches /\ h.gotos = f.gotos
      /\ h.pads = f.pads /\ h.labels = f.labels /\ h.loops = f.loops /\ h.ret = f.ret
      /\ h.resume = f.resume /\ h.plain = f.plain
  BY <1>1 DEF FunctionSet, n, WithStart, WithCur
<1>3. WellFormed(h, z, W)
  BY <1>2 DEF WellFormed, FuncletBlocks, ScopesFilled, ScopeFilled, ExitsFilled, n
<1>4. Kept(f, h)
  BY <1>1, <1>2 DEF Kept, n
<1> QED
  BY <1>2, <1>3, <1>4

(* Other cleanup scopes of the same number, each of its type and filled.   *)
LEMMA PutScopes ==
  ASSUME NEW z \in {0, 1}, NEW W, NEW f, WellFormed(f, z, W),
         NEW S \in Seq(ScopeSet(Len(f.blk))), Len(S) = Len(f.scopes),
         \A i \in 1 .. Len(f.scopes) : ScopeFilled(f, S[i]),
         NEW h, h = WithScopes(f, S)
  PROVE  /\ WellFormed(h, z, W) /\ Kept(f, h) /\ h.cur = f.cur /\ h.start = f.start
         /\ h.blk = f.blk /\ h.pads = f.pads /\ h.ret = f.ret /\ h.resume = f.resume
         /\ h.scopes = S
<1> DEFINE n == Len(f.blk)
<1>1. f \in FunctionSet(z, n, W) /\ n \in Nat /\ Len(f.scopes) \in Nat
  BY Lengths DEF WellFormed
<1>3. S \in Seq(ScopeSet(n))
  OBVIOUS
<1> HIDE DEF n
<1>4. /\ h \in FunctionSet(z, n, W) /\ h.start = f.start /\ h.blk = f.blk /\ h.cur = f.cur
      /\ h.msvc = f.msvc /\ h.scopes = S /\ h.catches = f.catches /\ h.gotos = f.gotos
      /\ h.pads = f.pads /\ h.labels = f.labels /\ h.loops = f.loops /\ h.ret = f.ret
      /\ h.resume = f.resume /\ h.plain = f.plain
  BY <1>1, <1>3 DEF FunctionSet, WithScopes
<1>5. DOMAIN S = 1 .. Len(f.scopes)
  BY <1>1
<1>6. ScopesFilled(h)
  BY <1>4, <1>5 DEF ScopesFilled, ScopeFilled, ExitsFilled
<1>7. WellFormed(h, z, W)
  BY <1>4, <1>6 DEF WellFormed, FuncletBlocks, n
<1>8. Kept(f, h)
  BY <1>1, <1>4 DEF Kept, n
<1> QED
  BY <1>4, <1>7, <1>8

(* The stack of scopes with one scope replaced.                            *)
LEMMA ScopeUpdate ==
  ASSUME NEW z \in {0, 1}, NEW W, NEW f, WellFormed(f, z, W), NEW i \in 1 .. Len(f.scopes),
         NEW s \in ScopeSet(Len(f.blk)), ScopeFilled(f, s),
         NEW S, S = Put(f.scopes, i, s)
  PROVE  /\ S \in Seq(ScopeSet(Len(f.blk))) /\ Len(S) = Len(f.scopes)
         /\ \A x \in 1 .. Len(f.scopes) : ScopeFilled(f, S[x])
         /\ S[i] = s
<1>1. /\ f.scopes \in Seq(ScopeSet(Len(f.blk))) /\ Len(f.scopes) \in Nat
      /\ DOMAIN f.scopes = 1 .. Len(f.scopes)
  BY Lengths
<1>2. S \in Seq(ScopeSet(Len(f.blk))) /\ Len(S) = Len(f.scopes)
      /\ \A k \in 1 .. Len(f.scopes) : S[k] = IF k = i THEN s ELSE f.scopes[k]
  BY <1>1, SeqUpdate DEF Put
<1>3. \A x \in 1 .. Len(f.scopes) : ScopeFilled(f, S[x])
  BY <1>1, <1>2 DEF WellFormed, ScopesFilled
<1> QED
  BY <1>1, <1>2, <1>3

(* The two changes made to a scope.                                        *)
LEMMA PutExits ==
  ASSUME NEW z \in {0, 1}, NEW W, NEW f, WellFormed(f, z, W), NEW i \in 1 .. Len(f.scopes),
         NEW E \in Seq(ExitSet(Len(f.blk))), ExitsFilled(f, E),
         NEW h, h = WithExits(f, i, E)
  PROVE  /\ WellFormed(h, z, W) /\ Kept(f, h) /\ h.cur = f.cur /\ h.start = f.start
         /\ h.blk = f.blk /\ h.pads = f.pads /\ h.ret = f.ret /\ h.resume = f.resume
<1> DEFINE s == f.scopes[i]
           x == [s EXCEPT !.exits = E]
           S == Put(f.scopes, i, x)
           e == WithScopes(f, S)
<1>1. s \in ScopeSet(Len(f.blk)) /\ s.blocks # <<>>
  BY Lengths DEF WellFormed, ScopesFilled, ScopeFilled
<1>2. h = e
  BY DEF WithExits, WithSelector, WithScopes, Put
<1> HIDE DEF s
<1>3. x \in ScopeSet(Len(f.blk)) /\ x.blocks # <<>> /\ x.exits = E
  BY <1>1 DEF ScopeSet
<1> HIDE DEF x
<1>4. ScopeFilled(f, x)
  BY <1>3 DEF ScopeFilled
<1>5. /\ S \in Seq(ScopeSet(Len(f.blk))) /\ Len(S) = Len(f.scopes)
      /\ \A y \in 1 .. Len(f.scopes) : ScopeFilled(f, S[y])
  <2>1. S = Put(f.scopes, i, x)
    OBVIOUS
  <2> HIDE DEF S
  <2> QED
    BY <1>3, <1>4, <2>1, ScopeUpdate
<1> HIDE DEF S
<1>6. e = WithScopes(f, S)
  OBVIOUS
<1> HIDE DEF e
<1>7. /\ WellFormed(e, z, W) /\ Kept(f, e) /\ e.cur = f.cur /\ e.start = f.start
      /\ e.blk = f.blk /\ e.pads = f.pads /\ e.ret = f.ret /\ e.resume = f.resume
  BY <1>5, <1>6, PutScopes
<1> QED
  BY <1>2, <1>7

(* A scope that has got its branch selector.                               *)
LEMMA PutSelector ==
  ASSUME NEW z \in {0, 1}, NEW W, NEW f, WellFormed(f, z, W), NEW i \in 1 .. Len(f.scopes),
         NEW h, h = WithSelector(f, i)
  PROVE  /\ WellFormed(h, z, W) /\ Kept(f, h) /\ h.cur = f.cur /\ h.start = f.start
         /\ h.blk = f.blk /\ h.pads = f.pads /\ h.ret = f.ret /\ h.resume = f.resume
         /\ h.scopes[i].exits = f.scopes[i].exits /\ h.scopes[i].end = f.scopes[i].end
<1> DEFINE s == f.scopes[i]
           x == [s EXCEPT !.selector = TRUE]
           S == Put(f.scopes, i, x)
           e == WithScopes(f, S)
<1>1. s \in ScopeSet(Len(f.blk)) /\ ScopeFilled(f, s)
  BY Lengths DEF WellFormed, ScopesFilled
<1>2. h = e
  BY DEF WithExits, WithSelector, WithScopes, Put
<1> HIDE DEF s
<1>3. x \in ScopeSet(Len(f.blk)) /\ x.blocks = s.blocks /\ x.exits = s.exits /\ x.end = s.end
  BY <1>1 DEF ScopeSet
<1> HIDE DEF x
<1>4. ScopeFilled(f, x)
  BY <1>1, <1>3 DEF ScopeFilled
<1>5. /\ S \in Seq(ScopeSet(Len(f.blk))) /\ Len(S) = Len(f.scopes)
      /\ \A y \in 1 .. Len(f.scopes) : ScopeFilled(f, S[y])
      /\ S[i] = x
  <2>1. S = Put(f.scopes, i, x)
    OBVIOUS
  <2> HIDE DEF S
  <2> QED
    BY <1>3, <1>4, <2>1, ScopeUpdate
<1> HIDE DEF S
<1>6. e = WithScopes(f, S)
  OBVIOUS
<1> HIDE DEF e
<1>7. /\ WellFormed(e, z, W) /\ Kept(f, e) /\ e.cur = f.cur /\ e.start = f.start
      /\ e.blk = f.blk /\ e.pads = f.pads /\ e.ret = f.ret /\ e.resume = f.resume
      /\ e.scopes = S
  BY <1>5, <1>6, PutScopes
<1> QED
  BY <1>2, <1>3, <1>5, <1>7 DEF s

-----------------------------------------------------------------------------
(* An operation that only emits code: it hands back a well-formed state    *)
(* and is done in the block it started from.                               *)

Emits(f, h, z, W) == WellFormed(h, z, W) /\ Kept(f, h) /\ h.cur = f.cur

(* Emitting code twice is emitting code.                                   *)
LEMMA EmitsTrans ==
  ASSUME NEW z \in {0, 1}, NEW W, NEW f, WellFormed(f, z, W), NEW h, Emits(f, h, z, W),
         NEW e, Emits(h, e, z, W)
  PROVE  Emits(f, e, z, W)
<1>1. Len(f.blk) \in Nat /\ Len(h.blk) \in Nat /\ Len(e.blk) \in Nat
  BY Lengths DEF Emits
<1> QED
  BY <1>1, KeptTrans DEF Emits

(* ExitTo is 0 or the position of an exit target of the scope.             *)
LEMMA ExitToOk ==
  ASSUME NEW n \in Nat, NEW s \in ScopeSet(n), NEW cont
  PROVE  ExitTo(s, cont) # 0 => ExitTo(s, cont) \in 1 .. Len(s.exits)
<1>1. DOMAIN s.exits = 1 .. Len(s.exits)
  BY DEF ScopeSet
<1> QED
  BY <1>1 DEF ExitTo

(* One more source of an exit; one more exit.                              *)
FromAlso(E, k, src) == [E EXCEPT ![k].src = @ \cup {src}]
NewExit(cont, src, blocks) == [to |-> cont, src |-> {src}, blocks |-> blocks]

(* A source block added to an exit target keeps the exits' type.           *)
LEMMA FromAlsoOk ==
  ASSUME NEW n \in Nat, NEW E \in Seq(ExitSet(n)), NEW k \in 1 .. Len(E), NEW src \in 1 .. n,
         NEW f, ExitsFilled(f, E)
  PROVE  FromAlso(E, k, src) \in Seq(ExitSet(n)) /\ ExitsFilled(f, FromAlso(E, k, src))
<1> DEFINE x == E[k]
           y == [x EXCEPT !.src = x.src \cup {src}]
           F == [E EXCEPT ![k] = y]
<1>1. x \in ExitSet(n) /\ DOMAIN E = 1 .. Len(E) /\ Len(E) \in Nat
  OBVIOUS
<1>2. FromAlso(E, k, src) = F
  BY DEF FromAlso
<1> HIDE DEF x
<1>3. y \in ExitSet(n) /\ y.blocks = x.blocks
  BY <1>1 DEF ExitSet
<1> HIDE DEF y
<1>4. F \in Seq(ExitSet(n)) /\ Len(F) = Len(E)
      /\ \A d \in 1 .. Len(E) : F[d] = IF d = k THEN y ELSE E[d]
  BY <1>1, <1>3, SeqUpdate
<1> HIDE DEF F
<1>5. DOMAIN F = 1 .. Len(E)
  BY <1>1, <1>4
<1>6. ExitsFilled(f, F)
  BY <1>1, <1>3, <1>4, <1>5 DEF ExitsFilled, x
<1> QED
  BY <1>2, <1>4, <1>6

(* An exit target added to a scope keeps the exits' type.                  *)
LEMMA NewExitOk ==
  ASSUME NEW n \in Nat, NEW E \in Seq(ExitSet(n)), NEW cont \in 1 .. n, NEW src \in 1 .. n,
         NEW blocks \in Seq(1 .. n), NEW f, ExitsFilled(f, E), f.msvc => blocks # <<>>
  PROVE  /\ Append(E, NewExit(cont, src, blocks)) \in Seq(ExitSet(n))
         /\ ExitsFilled(f, Append(E, NewExit(cont, src, blocks)))
<1> DEFINE x == NewExit(cont, src, blocks)
           F == Append(E, x)
<1>1. x \in ExitSet(n) /\ x.blocks = blocks
  BY DEF NewExit, ExitSet
<1>2. DOMAIN E = 1 .. Len(E) /\ Len(E) \in Nat
  OBVIOUS
<1> HIDE DEF x
<1>3. F \in Seq(ExitSet(n)) /\ Len(F) = Len(E) + 1
      /\ (\A k \in 1 .. Len(E) : F[k] = E[k]) /\ F[Len(E) + 1] = x
  BY <1>1, <1>2, SeqAppend
<1> HIDE DEF F
<1>4. DOMAIN F = 1 .. Len(E) + 1
  BY <1>2, <1>3
<1>5. ExitsFilled(f, F)
  BY <1>1, <1>2, <1>3, <1>4, SMTT(30) DEF ExitsFilled
<1> QED
  BY <1>3, <1>5 DEF F, x

(* The blocks of a scope are blocks of the function.                       *)
LEMMA ScopeFacts ==
  ASSUME NEW z \in {0, 1}, NEW W, NEW f, WellFormed(f, z, W), NEW i \in 1 .. Len(f.scopes)
  PROVE  /\ f.scopes[i] \in ScopeSet(Len(f.blk)) /\ ScopeFilled(f, f.scopes[i])
         /\ f.scopes[i].begin \in 1 .. Len(f.blk) /\ f.scopes[i].end \in 1 .. Len(f.blk)
         /\ f.scopes[i].exits \in Seq(ExitSet(Len(f.blk))) /\ ExitsFilled(f, f.scopes[i].exits)
         /\ f.scopes[i].blocks \in Seq(1 .. Len(f.blk)) /\ f.scopes[i].blocks # <<>>
<1>1. f.scopes[i] \in ScopeSet(Len(f.blk)) /\ ScopeFilled(f, f.scopes[i])
  BY Lengths DEF WellFormed, ScopesFilled
<1> QED
  BY <1>1 DEF ScopeSet, ScopeFilled

(* run(): introducing the branch selector keeps the state well formed.     *)
LEMMA CreateSelectorOk ==
  ASSUME NEW z \in {0, 1}, NEW W, NEW f, WellFormed(f, z, W), ~f.msvc,
         NEW i \in 1 .. Len(f.scopes), f.scopes[i].exits # <<>>
  PROVE  LET h == CreateSelector(f, i) IN
         /\ Emits(f, h, z, W) /\ Len(h.blk) = Len(f.blk)
         /\ h.scopes[i].exits = f.scopes[i].exits
<1> DEFINE n == Len(f.blk)
           s == f.scopes[i]
           x == s.exits[1].to
           f1 == Store(f, s.exits[1].src, s.begin, 0)
           t == Term("switch", <<s.begin>>, <<x>>)
           f2 == SetTerm(f1, s.end, t)
           h == WithSelector(f2, i)
<1>1. /\ n \in Nat /\ s.begin \in 1 .. n /\ s.end \in 1 .. n /\ s.exits \in Seq(ExitSet(n))
  BY Lengths, ScopeFacts
<1>2. x \in 1 .. n
  <2>1. s.exits[1] \in ExitSet(n)
    BY <1>1
  <2> QED
    BY <2>1 DEF ExitSet
<1>3. CreateSelector(f, i) = h
  BY DEF CreateSelector, WithSelector
<1>4. WellFormed(f1, z, W) /\ Kept(f, f1) /\ Rest(f, f1) /\ Len(f1.blk) = n
  <2>1. s.begin \in Nat /\ 0 \in Nat
    BY <1>1
  <2> QED
    BY <2>1, StoreOk
<1>5. t \in TermSet(z, Len(f1.blk)) /\ s.end \in 1 .. Len(f1.blk) /\ ~f1.msvc
  <2>1. <<s.begin>> \in Seq(Nat \cup Classes) /\ <<x>> \in Seq(z .. n) /\ "switch" \in Ops
    BY <1>1, <1>2 DEF Ops
  <2> QED
    BY <1>1, <1>4, <2>1, Terms DEF Rest
<1> HIDE DEF f1, t
<1>6. WellFormed(f2, z, W) /\ Kept(f1, f2) /\ Rest(f1, f2) /\ Len(f2.blk) = n
  <2>1. f1.msvc => t.op # "switch"
    BY <1>5
  <2> QED
    BY <1>4, <1>5, <2>1, SetTermOk
<1> HIDE DEF f2
<1>7. i \in 1 .. Len(f2.scopes) /\ f2.scopes = f.scopes /\ f2.cur = f.cur
  BY <1>4, <1>6 DEF Rest
<1>8. h = WithSelector(f2, i)
  OBVIOUS
<1> HIDE DEF h
<1>9. WellFormed(h, z, W) /\ Kept(f2, h) /\ h.cur = f2.cur /\ h.blk = f2.blk
      /\ h.scopes[i].exits = f2.scopes[i].exits
  BY <1>6, <1>7, <1>8, PutSelector
<1>10. Len(f.blk) \in Nat /\ Len(f1.blk) \in Nat /\ Len(f2.blk) \in Nat /\ Len(h.blk) \in Nat
  BY <1>1, <1>4, <1>6, <1>9
<1>11. Kept(f, f2)
  BY <1>4, <1>6, <1>10, KeptTrans
<1>12. Kept(f, h)
  BY <1>9, <1>10, <1>11, KeptTrans
<1> QED
  BY <1>3, <1>6, <1>7, <1>9, <1>12 DEF Emits

(* One more successor of a switch.                                         *)
AddCase(f, b, to) == [f EXCEPT !.blk[b].term.to = Append(@, to)]

(* run(): the switch at the end of a cleanup gets one more successor.      *)
LEMMA AddCaseOk ==
  ASSUME NEW z \in {0, 1}, NEW W, NEW f, WellFormed(f, z, W), NEW b \in 1 .. Len(f.blk),
         NEW to \in 1 .. Len(f.blk)
  PROVE  LET h == AddCase(f, b, to) IN
         WellFormed(h, z, W) /\ Kept(f, h) /\ Rest(f, h) /\ Len(h.blk) = Len(f.blk)
<1> DEFINE n == Len(f.blk)
           t == f.blk[b].term
           x == Append(t.to, to)
           t2 == [t EXCEPT !.to = x]
<1>1. n \in Nat /\ t \in TermSet(z, n) /\ (f.msvc => t.op # "switch")
  BY Lengths DEF BlockSet, WellFormed, FuncletBlocks
<1>2. AddCase(f, b, to) = SetTerm(f, b, t2)
  BY DEF AddCase, SetTerm
<1> HIDE DEF t
<1>3. t.to \in Seq(z .. n)
  BY <1>1 DEF TermSet
<1>4. x \in Seq(z .. n)
  BY <1>1, <1>3, SeqAppend
<1> HIDE DEF x
<1>5. t2 \in TermSet(z, n) /\ t2.op = t.op
  BY <1>1, <1>4 DEF TermSet
<1> HIDE DEF t2
<1>6. f.msvc => t2.op # "switch"
  BY <1>1, <1>5
<1> QED
  BY <1>1, <1>2, <1>5, <1>6, SetTermOk

(* Terminating a block with a branch to a block of the function.           *)
LEMMA BrOk ==
  ASSUME NEW z \in {0, 1}, NEW W, NEW f, WellFormed(f, z, W), NEW b \in 1 .. Len(f.blk),
         NEW to \in 1 .. Len(f.blk)
  PROVE  LET h == SetTerm(f, b, Br(to)) IN
         /\ WellFormed(h, z, W) /\ Kept(f, h) /\ Rest(f, h) /\ Len(h.blk) = Len(f.blk)
         /\ \A c \in 1 .. Len(f.blk) : h.blk[c].want = f.blk[c].want
<1>1. Len(f.blk) \in Nat /\ to \in z .. Len(f.blk)
  BY Lengths
<1>2. Br(to) \in TermSet(z, Len(f.blk)) /\ Br(to).op = "br"
  BY <1>1, Terms
<1>3. f.msvc => Br(to).op # "switch"
  BY <1>2
<1> QED
  BY <1>2, <1>3, SetTermOk

(* Replacing the exits of a scope counts as emitting code.                 *)
LEMMA ExitsEmits ==
  ASSUME NEW z \in {0, 1}, NEW W, NEW f, WellFormed(f, z, W), NEW i \in 1 .. Len(f.scopes),
         NEW e, Emits(f, e, z, W), NEW E \in Seq(ExitSet(Len(e.blk))), ExitsFilled(e, E)
  PROVE  LET h == WithExits(e, i, E) IN Emits(f, h, z, W) /\ h.blk = e.blk
<1> DEFINE h == WithExits(e, i, E)
<1>1. WellFormed(e, z, W) /\ i \in 1 .. Len(e.scopes)
  BY DEF Emits, Kept
<1>2. h = WithExits(e, i, E)
  OBVIOUS
<1> HIDE DEF h
<1>3. WellFormed(h, z, W) /\ Kept(e, h) /\ h.cur = e.cur /\ h.blk = e.blk
  BY <1>1, <1>2, PutExits
<1>4. Emits(e, h, z, W)
  BY <1>3 DEF Emits
<1>5. Emits(f, h, z, W)
  BY <1>4, EmitsTrans
<1> QED
  BY <1>3, <1>5 DEF h

(* Replacing the block to hand back counts as emitting code.               *)
LEMMA StartEmits ==
  ASSUME NEW z \in {0, 1}, NEW W, NEW f, WellFormed(f, z, W), NEW e, Emits(f, e, z, W),
         NEW x \in 0 .. Len(e.blk)
  PROVE  LET h == WithStart(e, x) IN
         Emits(f, h, z, W) /\ h.blk = e.blk /\ h.start = x
<1> DEFINE h == WithStart(e, x)
<1>1. WellFormed(e, z, W)
  BY DEF Emits
<1>2. h = WithStart(e, x)
  OBVIOUS
<1> HIDE DEF h
<1>3. WellFormed(h, z, W) /\ Kept(e, h) /\ h.cur = e.cur /\ h.blk = e.blk /\ h.start = x
  BY <1>1, <1>2, SetStartOk
<1>4. Emits(e, h, z, W)
  BY <1>3 DEF Emits
<1>5. Emits(f, h, z, W)
  BY <1>4, EmitsTrans
<1> QED
  BY <1>3, <1>5 DEF h

(* run() with a branch selector, in each of its four cases: only code is   *)
(* emitted.                                                                *)
LEMMA RunSelectorOk ==
  ASSUME NEW z \in {0, 1}, NEW W, NEW f, WellFormed(f, z, W), ~f.msvc,
         NEW i \in 1 .. Len(f.scopes), NEW src \in 1 .. Len(f.blk), NEW cont \in 1 .. Len(f.blk)
  PROVE  LET h == RunSelector(f, i, src, cont) IN
         Emits(f, h, z, W) /\ Len(h.blk) = Len(f.blk) /\ h.start \in 1 .. Len(h.blk)
<1> DEFINE n == Len(f.blk)
           s == f.scopes[i]
           k == ExitTo(s, cont)
           fs == IF s.selector THEN f ELSE CreateSelector(f, i)
           A1 == SetTerm(f, s.end, Br(cont))
           E1 == Append(<<>>, NewExit(cont, src, <<>>))
           E2 == FromAlso(s.exits, 1, src)
           A3 == Store(fs, {src}, s.begin, k - 1)
           E3 == FromAlso(s.exits, k, src)
           A4 == Store(fs, {src}, s.begin, Len(s.exits))
           B4 == AddCase(A4, s.end, cont)
           E4 == Append(s.exits, NewExit(cont, src, <<>>))
           C1 == s.exits = <<>>
           C2 == Len(s.exits) = 1 /\ k = 1
           C3 == s.exits # <<>> /\ k # 0 /\ Len(s.exits) > 1
           C4 == s.exits # <<>> /\ k = 0
<1>1. /\ n \in Nat /\ s.begin \in 1 .. n /\ s.end \in 1 .. n /\ s.exits \in Seq(ExitSet(n))
      /\ ExitsFilled(f, s.exits) /\ <<>> \in Seq(1 .. n) /\ Len(s.exits) \in Nat
  BY Lengths, ScopeFacts
<1>2. k # 0 => k \in 1 .. Len(s.exits)
  BY Lengths, ScopeFacts, ExitToOk
<1>3. (C1 \/ C2 \/ C3 \/ C4)
  <2> DEFINE L == Len(s.exits)
  <2>1. L \in Nat /\ (C1 \/ L >= 1) /\ (k # 0 => k \in 1 .. L)
    BY <1>1, <1>2
  <2> HIDE DEF k, L
  <2>2. L >= 1 => (L = 1 \/ L > 1) /\ (k # 0 /\ L = 1 => k = 1)
    BY <2>1
  <2> QED
    BY <2>1, <2>2 DEF L
<1> DEFINE X1 == [A1 EXCEPT !.scopes[i].exits = <<NewExit(cont, src, <<>>)>>]
           X2 == [f EXCEPT !.scopes[i].exits[1].src = @ \cup {src}]
           X3 == [A3 EXCEPT !.scopes[i].exits[k].src = @ \cup {src}]
           X4 == [A4 EXCEPT !.blk[s.end].term.to = Append(@, cont),
                            !.scopes[i].exits = Append(@, NewExit(cont, src, <<>>))]
           X == CASE C1 -> X1 [] C2 -> X2 [] C3 -> X3 [] C4 -> X4
<1>4. RunSelector(f, i, src, cont) = WithStart(X, s.begin)
  BY DEF RunSelector, WithStart, NewExit
<1>5. C1 => Emits(f, X1, z, W) /\ Len(X1.blk) = n
  <2> HAVE C1
  <2>1. X1 = WithExits(A1, i, E1)
    <3>1. Append(<<>>, NewExit(cont, src, <<>>)) = <<NewExit(cont, src, <<>>)>>
      OBVIOUS
    <3> QED
      BY <3>1 DEF WithExits
  <2>2. Emits(f, A1, z, W) /\ Len(A1.blk) = n /\ ~A1.msvc
    BY <1>1, BrOk, SMTT(30) DEF Emits, Rest
  <2> HIDE DEF A1
  <2>3. E1 \in Seq(ExitSet(Len(A1.blk))) /\ ExitsFilled(A1, E1)
    <3>1. <<>> \in Seq(ExitSet(n)) /\ ExitsFilled(A1, <<>>) /\ (A1.msvc => <<>> # <<>>)
      BY <2>2 DEF ExitsFilled
    <3> QED
      BY <1>1, <2>2, <3>1, NewExitOk
  <2> HIDE DEF E1, X1
  <2> QED
    BY <2>1, <2>2, <2>3, ExitsEmits
<1>6. C2 => Emits(f, X2, z, W) /\ Len(X2.blk) = n
  <2> HAVE C2
  <2>1. X2 = WithExits(f, i, E2)
    <3>1. FromAlso(f.scopes[i].exits, 1, src)
            = [f.scopes[i].exits EXCEPT ![1].src = f.scopes[i].exits[1].src \cup {src}]
      BY DEF FromAlso
    <3> QED
      BY <3>1 DEF WithExits, FromAlso
  <2>2. Emits(f, f, z, W)
    BY <1>1 DEF Emits, Kept
  <2>3. E2 \in Seq(ExitSet(n)) /\ ExitsFilled(f, E2)
    <3>1. k \in 1 .. Len(s.exits) /\ E2 = FromAlso(s.exits, k, src)
      OBVIOUS
    <3> HIDE DEF k, E2
    <3> QED
      BY <1>1, <3>1, FromAlsoOk
  <2> HIDE DEF E2, X2
  <2> QED
    BY <2>1, <2>2, <2>3, ExitsEmits
<1>7. s.exits # <<>> => /\ Emits(f, fs, z, W) /\ Len(fs.blk) = n /\ ~fs.msvc
                        /\ fs.scopes[i].exits = s.exits
  <2> HAVE s.exits # <<>>
  <2>1. CASE s.selector
    <3>1. fs = f
      BY <2>1
    <3>2. Emits(f, f, z, W)
      BY <1>1 DEF Emits, Kept
    <3> HIDE DEF fs, k
    <3> QED
      BY <3>1, <3>2
  <2>2. CASE ~s.selector
    <3> DEFINE e == CreateSelector(f, i)
    <3>1. fs = e
      BY <2>2
    <3>2. Emits(f, e, z, W) /\ Len(e.blk) = n /\ e.scopes[i].exits = s.exits
      BY CreateSelectorOk
    <3> HIDE DEF fs, k, e
    <3>3. e.msvc = f.msvc
      BY <3>2 DEF Emits, Kept
    <3> QED
      BY <3>1, <3>2, <3>3
  <2> QED
    BY <2>1, <2>2
<1>8. ASSUME s.exits # <<>>, NEW v \in Nat
      PROVE  LET A == Store(fs, {src}, s.begin, v) IN
             /\ Emits(f, A, z, W) /\ Len(A.blk) = n /\ ~A.msvc /\ A.scopes = fs.scopes
  <2> DEFINE A == Store(fs, {src}, s.begin, v)
  <2> HIDE DEF fs
  <2>1. WellFormed(A, z, W) /\ Kept(fs, A) /\ Rest(fs, A) /\ Len(A.blk) = n
    BY <1>1, <1>7, <1>8, StoreOk, SMTT(30) DEF Emits
  <2> HIDE DEF A
  <2>2. Emits(fs, A, z, W) /\ ~A.msvc /\ A.scopes = fs.scopes
    BY <1>7, <1>8, <2>1 DEF Emits, Rest
  <2>3. Emits(f, A, z, W)
    BY <1>7, <1>8, <2>2, EmitsTrans
  <2> QED
    BY <2>1, <2>2, <2>3 DEF A
<1> HIDE DEF fs
<1>9. C3 => Emits(f, X3, z, W) /\ Len(X3.blk) = n
  <2> HAVE C3
  <2>1. k - 1 \in Nat /\ k \in 1 .. Len(s.exits)
    BY <1>1, <1>2
  <2>2. Emits(f, A3, z, W) /\ Len(A3.blk) = n /\ ~A3.msvc /\ A3.scopes[i].exits = s.exits
    BY <1>7, <1>8, <2>1
  <2> HIDE DEF A3
  <2>3. X3 = WithExits(A3, i, E3)
    BY <2>2 DEF WithExits, FromAlso
  <2>4. E3 \in Seq(ExitSet(n)) /\ ExitsFilled(A3, E3)
    <3>1. ExitsFilled(A3, s.exits)
      BY <2>2 DEF ExitsFilled
    <3> HIDE DEF k
    <3> QED
      BY <1>1, <2>1, <3>1, FromAlsoOk
  <2> HIDE DEF E3, X3
  <2> QED
    BY <2>2, <2>3, <2>4, ExitsEmits, SMTT(30)
<1>10. C4 => Emits(f, X4, z, W) /\ Len(X4.blk) = n
  <2> HAVE C4
  <2>2. Emits(f, A4, z, W) /\ Len(A4.blk) = n /\ ~A4.msvc /\ A4.scopes[i].exits = s.exits
    BY <1>1, <1>7, <1>8
  <2> HIDE DEF A4
  <2>3. WellFormed(B4, z, W) /\ Kept(A4, B4) /\ Rest(A4, B4) /\ Len(B4.blk) = n
    BY <1>1, <2>2, AddCaseOk, SMTT(30) DEF Emits
  <2>4. X4 = WithExits(B4, i, E4)
    <3>1. B4.scopes = A4.scopes /\ B4.scopes[i].exits = s.exits
      BY <2>2, <2>3 DEF Rest
    <3>2. X4 = [B4 EXCEPT !.scopes[i].exits = Append(@, NewExit(cont, src, <<>>))]
      BY DEF AddCase
    <3> HIDE DEF B4, X4
    <3> QED
      BY <3>1, <3>2 DEF WithExits
  <2> HIDE DEF B4
  <2>5. Emits(f, B4, z, W) /\ ~B4.msvc
    <3>1. Emits(A4, B4, z, W)
      BY <2>3 DEF Emits, Rest
    <3> QED
      BY <2>2, <2>3, <3>1, EmitsTrans DEF Rest
  <2>6. E4 \in Seq(ExitSet(n)) /\ ExitsFilled(B4, E4)
    <3>1. ExitsFilled(B4, s.exits) /\ (B4.msvc => <<>> # <<>>)
      BY <2>5 DEF ExitsFilled
    <3> QED
      BY <1>1, <3>1, NewExitOk
  <2> HIDE DEF E4, X4
  <2> QED
    BY <2>3, <2>4, <2>5, <2>6, ExitsEmits, SMTT(30)
<1> HIDE DEF X1, X2, X3, X4, C1, C2, C3, C4
<1>11. Emits(f, X, z, W) /\ Len(X.blk) = n
  BY <1>3, <1>5, <1>6, <1>9, <1>10
<1> HIDE DEF X
<1>12. s.begin \in 0 .. Len(X.blk)
  BY <1>1, <1>11
<1>13. LET h == WithStart(X, s.begin) IN Emits(f, h, z, W) /\ h.blk = X.blk /\ h.start = s.begin
  BY <1>11, <1>12, StartEmits
<1> QED
  BY <1>1, <1>4, <1>11, <1>13

-----------------------------------------------------------------------------
(* Copies of cleanups                                                      *)

(* The copies runCleanups makes, one scope after the other.                *)
CopyOp(c, a, i) == RunCopying(a, i, a.cur, a.start, 0, FALSE)
CopyInv(c, k, a) == Emits(c.f, a, c.z, c.W) /\ a.start \in 1 .. Len(a.blk)
CopyFold == INSTANCE FoldFacts WITH Op <- CopyOp, Inv <- CopyInv

(* SelectInSeq is 0 or a position that satisfies the test.                 *)
LEMMA SelectInSeqOk ==
  ASSUME NEW n \in Nat, NEW s \in Seq(1 .. n), NEW b \in Range(s)
  PROVE  SelectInSeq(s, LAMBDA x : x = b) \in 1 .. Len(s)
<1> DEFINE I == {i \in 1 .. Len(s) : s[i] = b}
<1>1. I # {} /\ I \subseteq Nat
  BY DEF Range
<1>2. SelectInSeq(s, LAMBDA x : x = b) = Min(I)
  BY <1>1 DEF SelectInSeq
<1>3. Min(I) \in I
  <2> HIDE DEF I
  <2>1. \E i \in I : \A k \in I : i <= k
    BY <1>1, LeastElement
  <2> QED
    BY <2>1 DEF Min
<1> QED
  BY <1>2, <1>3

(* The concatenation of two sequences over a set.                          *)
LEMMA SeqConcat ==
  ASSUME NEW S, NEW s \in Seq(S), NEW t \in Seq(S)
  PROVE  /\ s \o t \in Seq(S) /\ Len(s \o t) = Len(s) + Len(t)
         /\ \A k \in 1 .. Len(s) : (s \o t)[k] = s[k]
         /\ \A k \in 1 .. Len(s) + Len(t) : k > Len(s) => (s \o t)[k] = t[k - Len(s)]
OBVIOUS

(* cloneBlocks: the copies branch to blocks of the function only.          *)
LEMMA CloneBlocksOk ==
  ASSUME NEW z \in {0, 1}, NEW W, NEW f, WellFormed(f, z, W),
         NEW blocks \in Seq(1 .. Len(f.blk)), NEW cont \in 1 .. Len(f.blk),
         NEW unwindTo \in 0 .. Len(f.blk)
  PROVE  LET h == CloneBlocks(f, blocks, cont, unwindTo) IN
         /\ WellFormed(h, z, W) /\ Kept(f, h) /\ Rest(f, h)
         /\ Len(h.blk) = Len(f.blk) + Len(blocks)
<1> DEFINE n == Len(f.blk)
           m == n + Len(blocks)
           h == CloneBlocks(f, blocks, cont, unwindTo)
           last == f.blk[blocks[Len(blocks)]].term.to
           Remap(b, k, op) ==
             CASE b \in Range(blocks) -> Len(f.blk) + SelectInSeq(blocks, LAMBDA x : x = b)
               [] unwindTo # 0 /\ op = "invoke" /\ k = 2 -> unwindTo
               [] OTHER -> IF b \in Range(last) THEN cont ELSE b
           Copy(b) == [f.blk[b] EXCEPT !.term.to =
                         [k \in DOMAIN @ |-> Remap(@[k], k, f.blk[b].term.op)]]
           C == [k \in DOMAIN blocks |-> Copy(blocks[k])]
           B == f.blk \o C
<1>1. n \in Nat /\ f.blk \in Seq(BlockSet(z, n, W)) /\ m \in Nat /\ n <= m /\ Len(blocks) \in Nat
      /\ DOMAIN blocks = 1 .. Len(blocks)
  BY Lengths
<1>2. h = WithBlocks(f, B)
  BY DEF CloneBlocks, WithBlocks
<1>3. ASSUME NEW b \in z .. n, NEW k, NEW op
      PROVE  Remap(b, k, op) \in z .. m
  <2>1. CASE b \in Range(blocks)
    <3>1. SelectInSeq(blocks, LAMBDA x : x = b) \in 1 .. Len(blocks)
      BY <1>1, <2>1, SelectInSeqOk
    <3> DEFINE i == SelectInSeq(blocks, LAMBDA x : x = b)
    <3>2. n + i \in z .. m
      <4> HIDE DEF i
      <4> QED
        BY <1>1, <3>1 DEF i
    <3> QED
      BY <2>1, <3>2
  <2>2. CASE b \notin Range(blocks)
    <3>1. unwindTo # 0 => unwindTo \in z .. m
      BY <1>1
    <3>2. cont \in z .. m /\ b \in z .. m
      BY <1>1
    <3> QED
      BY <2>2, <3>1, <3>2
  <2> QED
    BY <2>1, <2>2
<1> HIDE DEF Remap
<1>4. ASSUME NEW b \in 1 .. n
      PROVE  /\ Copy(b) \in BlockSet(z, m, W)
             /\ Copy(b).stores = f.blk[b].stores /\ Copy(b).term.op = f.blk[b].term.op
  <2> DEFINE x == f.blk[b]
             t == x.term
             to == [k \in DOMAIN t.to |-> Remap(t.to[k], k, t.op)]
             t2 == [t EXCEPT !.to = to]
  <2>1. x \in BlockSet(z, n, W)
    BY <1>1
  <2>2. Copy(b) = [x EXCEPT !.term = t2]
    OBVIOUS
  <2>3. t \in TermSet(z, n) /\ t.to \in Seq(z .. n)
    BY <2>1 DEF BlockSet, TermSet
  <2>4. to \in Seq(z .. m)
    <3>1. DOMAIN t.to = 1 .. Len(t.to) /\ Len(t.to) \in Nat /\ \A k \in DOMAIN t.to : t.to[k] \in z .. n
      <4> DEFINE q == t.to
                 R == z .. n
      <4>1. q \in Seq(R)
        BY <2>3
      <4> HIDE DEF q, R
      <4>2. DOMAIN q = 1 .. Len(q) /\ Len(q) \in Nat /\ \A k \in DOMAIN q : q[k] \in R
        BY <4>1
      <4> QED
        BY <4>2 DEF q, R
    <3>2. to = [k \in 1 .. Len(t.to) |-> to[k]]
      BY <3>1
    <3>3. \A k \in 1 .. Len(t.to) : to[k] \in z .. m
      BY <1>3, <3>1
    <3> HIDE DEF to, m
    <3> QED
      BY <3>1, <3>2, <3>3, SeqBuilt
  <2>5. x \in BlockSet(z, m, W)
    <3> HIDE DEF m, n
    <3>1. W \subseteq W
      OBVIOUS
    <3> QED
      BY <1>1, <2>1, <3>1, Widen
  <2> HIDE DEF to, m, t
  <2>6. t2 \in TermSet(z, m) /\ t2.op = t.op
    BY <2>3, <2>4 DEF TermSet
  <2> HIDE DEF t2, x
  <2>7. LET d == [x EXCEPT !.term = t2] IN
        d \in BlockSet(z, m, W) /\ d.stores = x.stores /\ d.term = t2
    BY <1>1, <2>5, <2>6, BlockTerm
  <2> QED
    BY <2>2, <2>6, <2>7 DEF t, x
<1> HIDE DEF Copy
<1>5. C \in Seq(BlockSet(z, m, W)) /\ Len(C) = Len(blocks)
  <2>1. \A k \in 1 .. Len(blocks) : C[k] \in BlockSet(z, m, W)
    BY <1>1, <1>4
  <2>2. C = [k \in 1 .. Len(blocks) |-> C[k]]
    BY <1>1
  <2> HIDE DEF C, m
  <2> QED
    BY <1>1, <2>1, <2>2, SeqBuilt
<1>6. f.msvc => \A k \in 1 .. Len(blocks) : C[k].stores = <<>> /\ C[k].term.op # "switch"
  <2>1. f.msvc => \A b \in 1 .. n : f.blk[b].stores = <<>> /\ f.blk[b].term.op # "switch"
    BY <1>1, Lengths DEF WellFormed, FuncletBlocks
  <2>2. f.msvc => \A b \in 1 .. n : Copy(b).stores = <<>> /\ Copy(b).term.op # "switch"
    BY <1>4, <2>1
  <2> QED
    BY <1>1, <2>2
<1>7. f.blk \in Seq(BlockSet(z, m, W))
  <2> HIDE DEF m, n
  <2>1. W \subseteq W
    OBVIOUS
  <2> QED
    BY <1>1, <2>1, Widen
<1> HIDE DEF C
<1>8. /\ B \in Seq(BlockSet(z, m, W)) /\ Len(B) = n + Len(blocks)
      /\ \A k \in 1 .. n : B[k] = f.blk[k]
      /\ \A k \in 1 .. n + Len(blocks) : k > n => B[k] = C[k - n]
  <2> DEFINE S == BlockSet(z, m, W)
  <2>1. C \in Seq(S) /\ f.blk \in Seq(S)
    BY <1>5, <1>7
  <2> HIDE DEF S, m
  <2>2. /\ B \in Seq(S) /\ Len(B) = Len(f.blk) + Len(C)
        /\ \A k \in 1 .. Len(f.blk) : B[k] = f.blk[k]
        /\ \A k \in 1 .. Len(f.blk) + Len(C) : k > Len(f.blk) => B[k] = C[k - Len(f.blk)]
    BY <2>1, SeqConcat
  <2> QED
    BY <1>5, <2>2 DEF S
<1> HIDE DEF B
<1>9. f.msvc => \A k \in 1 .. m : B[k].stores = <<>> /\ B[k].term.op # "switch"
  <2> SUFFICES ASSUME f.msvc, NEW k \in 1 .. m
               PROVE  B[k].stores = <<>> /\ B[k].term.op # "switch"
    OBVIOUS
  <2>1. CASE k <= n
    BY <1>1, <1>8, <2>1, Lengths DEF WellFormed, FuncletBlocks
  <2>2. CASE k > n
    <3>1. k - n \in 1 .. Len(blocks) /\ B[k] = C[k - n]
      BY <1>1, <1>8, <2>2
    <3> QED
      BY <1>6, <3>1
  <2> QED
    BY <1>1, <2>1, <2>2
<1>10. \A k \in 1 .. Len(f.blk) : B[k].want = f.blk[k].want
  BY <1>8
<1>11. m >= Len(f.blk) /\ Len(B) = m
  BY <1>1, <1>8
<1>12. WellFormed(h, z, W) /\ Kept(f, h) /\ Rest(f, h) /\ h.blk = B
  <2>1. z \in {0, 1} /\ m \in Nat /\ B \in Seq(BlockSet(z, m, W))
    BY <1>1, <1>8
  <2>2. /\ \A k \in 1 .. Len(f.blk) : B[k].want = f.blk[k].want
        /\ f.msvc => \A k \in 1 .. m : B[k].stores = <<>> /\ B[k].term.op # "switch"
        /\ m >= Len(f.blk) /\ Len(B) = m /\ h = WithBlocks(f, B)
    BY <1>2, <1>9, <1>10, <1>11
  <2> HIDE DEF h, m, n, last
  <2>3. /\ m >= Len(f.blk) /\ Len(B) = m /\ h = WithBlocks(f, B)
        /\ \A b \in 1 .. Len(f.blk) : B[b].want = f.blk[b].want
        /\ f.msvc => \A b \in 1 .. m : B[b].stores = <<>> /\ B[b].term.op # "switch"
    BY <2>2
  <2> QED
    <3>1. z \in {0, 1} /\ z \in {0, 1} /\ WellFormed(f, z, W)
      BY <2>1
    <3>2. m \in Nat /\ m >= Len(f.blk) /\ B \in Seq(BlockSet(z, m, W)) /\ Len(B) = m
      BY <2>1, <2>3
    <3>3. f.msvc => \A b \in 1 .. m : B[b].stores = <<>> /\ B[b].term.op # "switch"
      BY <2>3
    <3>4. \A b \in 1 .. Len(f.blk) : B[b].want = f.blk[b].want
      BY <2>3
    <3>5. h = WithBlocks(f, B)
      BY <2>3
    <3> QED
      BY <3>1, <3>2, <3>3, <3>4, <3>5, ChangeBlocks
<1> QED
  BY <1>8, <1>12

(* runCopying: only code is emitted, and the block handed back exists.     *)
LEMMA RunCopyingOk ==
  ASSUME NEW z \in {0, 1}, NEW W, NEW f, WellFormed(f, z, W), f.msvc,
         NEW i \in 1 .. Len(f.scopes), NEW src \in 1 .. Len(f.blk), NEW cont \in 1 .. Len(f.blk),
         NEW unwindTo \in 0 .. Len(f.blk), NEW funclet \in BOOLEAN
  PROVE  LET h == RunCopying(f, i, src, cont, unwindTo, funclet) IN
         Emits(f, h, z, W) /\ h.start \in 1 .. Len(h.blk)
<1> DEFINE n == Len(f.blk)
           s == f.scopes[i]
           k == ExitTo(s, cont)
           f0 == IF s.exits = <<>> /\ f.blk[s.end].term = NoTerm
                 THEN SetTerm(f, s.end, Br(cont)) ELSE f
           useOriginal == ~funclet /\ \A x \in DOMAIN s.exits : s.exits[x].blocks[1] # s.begin
           f1 == IF useOriginal THEN SetTerm(f0, s.end, Br(cont))
                                ELSE CloneBlocks(f0, s.blocks, cont, unwindTo)
           copy == IF useOriginal THEN s.blocks
                   ELSE [x \in DOMAIN s.blocks |-> Len(f.blk) + x]
           C1 == IsCatchSwitchBlock(f, s.begin)
           E2 == FromAlso(s.exits, k, src)
           e2 == WithExits(f, i, E2)
           E3 == Append(f1.scopes[i].exits, NewExit(cont, src, copy))
           e3 == WithExits(f1, i, E3)
           X1 == [f EXCEPT !.start = cont]
           X2 == [f EXCEPT !.scopes[i].exits[k].src = @ \cup {src},
                           !.start = s.exits[k].blocks[1]]
           X3 == [f1 EXCEPT !.scopes[i].exits =
                               Append(@, [to |-> cont, src |-> {src}, blocks |-> copy]),
                            !.start = copy[1]]
           X == CASE C1 -> X1 [] ~C1 /\ k # 0 -> X2 [] ~C1 /\ k = 0 -> X3
<1>1. /\ n \in Nat /\ s.begin \in 1 .. n /\ s.end \in 1 .. n /\ s.exits \in Seq(ExitSet(n))
      /\ ExitsFilled(f, s.exits) /\ Len(s.exits) \in Nat /\ DOMAIN s.exits = 1 .. Len(s.exits)
      /\ s.blocks \in Seq(1 .. n) /\ s.blocks # <<>>
  BY Lengths, ScopeFacts
<1>2. k # 0 => k \in 1 .. Len(s.exits)
  BY Lengths, ScopeFacts, ExitToOk
<1>3. RunCopying(f, i, src, cont, unwindTo, funclet) = X
  BY DEF RunCopying
<1>4. Emits(f, X1, z, W) /\ X1.start \in 1 .. Len(X1.blk)
  <2>1. X1 = WithStart(f, cont) /\ cont \in 0 .. n
    BY <1>1 DEF WithStart
  <2> HIDE DEF X1
  <2>2. WellFormed(X1, z, W) /\ Kept(f, X1) /\ X1.cur = f.cur /\ X1.start = cont /\ X1.blk = f.blk
    BY <2>1, SetStartOk
  <2> QED
    BY <2>2 DEF Emits
<1>5. k # 0 => Emits(f, X2, z, W) /\ X2.start \in 1 .. Len(X2.blk)
  <2> HAVE k # 0
  <2>1. X2 = WithStart(e2, s.exits[k].blocks[1])
    BY DEF WithStart, WithExits, FromAlso
  <2>2. Emits(f, f, z, W)
    BY <1>1 DEF Emits, Kept
  <2>3. E2 \in Seq(ExitSet(n)) /\ ExitsFilled(f, E2)
    <3> HIDE DEF k
    <3> QED
      BY <1>1, <1>2, FromAlsoOk
  <2>4. s.exits[k].blocks[1] \in 1 .. n
    <3>1. s.exits[k] \in ExitSet(n) /\ s.exits[k].blocks # <<>>
      <4> HIDE DEF k
      <4> QED
        BY <1>1, <1>2 DEF ExitsFilled
    <3> DEFINE d == s.exits[k].blocks
               R == 1 .. n
    <3>2. d \in Seq(R) /\ d # <<>>
      BY <3>1 DEF ExitSet
    <3> HIDE DEF d, R
    <3>3. d[1] \in R
      BY <3>2
    <3> QED
      BY <3>3 DEF d, R
  <2> HIDE DEF E2
  <2>5. Emits(f, e2, z, W) /\ e2.blk = f.blk
    BY <2>2, <2>3, ExitsEmits
  <2> DEFINE b == s.exits[k].blocks[1]
  <2>b. b \in 1 .. n
    BY <2>4
  <2> HIDE DEF b, e2
  <2>6. b \in 0 .. Len(e2.blk)
    BY <1>1, <2>b, <2>5
  <2>7. LET h == WithStart(e2, b) IN Emits(f, h, z, W) /\ h.blk = e2.blk /\ h.start = b
    BY <2>5, <2>6, StartEmits
  <2> QED
    BY <2>1, <2>4, <2>5, <2>7 DEF b
<1>6. Emits(f, f0, z, W) /\ Rest(f, f0) /\ Len(f0.blk) = n
  <2>1. Rest(f, f) /\ Emits(f, f, z, W)
    BY <1>1 DEF Rest, Emits, Kept
  <2> DEFINE d == SetTerm(f, s.end, Br(cont))
  <2>2. WellFormed(d, z, W) /\ Kept(f, d) /\ Rest(f, d) /\ Len(d.blk) = Len(f.blk)
    <3> HIDE DEF s
    <3> QED
      BY <1>1, BrOk, SMTT(30)
  <2> HIDE DEF d
  <2>3. Emits(f, d, z, W)
    BY <2>2 DEF Emits, Rest
  <2>4. f0 = d \/ f0 = f
    BY DEF d
  <2> QED
    BY <2>1, <2>2, <2>3, <2>4
<1> HIDE DEF f0
<1>7. /\ Emits(f, f1, z, W) /\ Rest(f, f1) /\ Len(f1.blk) >= n
      /\ copy \in Seq(1 .. Len(f1.blk)) /\ copy # <<>>
  <2>0. WellFormed(f0, z, W) /\ s.end \in 1 .. Len(f0.blk) /\ cont \in 1 .. Len(f0.blk)
        /\ unwindTo \in 0 .. Len(f0.blk) /\ s.blocks \in Seq(1 .. Len(f0.blk))
    BY <1>1, <1>6 DEF Emits
  <2>1. CASE useOriginal
    <3>1. f1 = SetTerm(f0, s.end, Br(cont)) /\ copy = s.blocks
      BY <2>1
    <3>2. WellFormed(f1, z, W) /\ Kept(f0, f1) /\ Rest(f0, f1) /\ Len(f1.blk) = Len(f0.blk)
      <4> HIDE DEF s, f1, copy, useOriginal
      <4> QED
        BY <2>0, <3>1, BrOk
    <3> HIDE DEF f1, copy
    <3>3. Emits(f0, f1, z, W) /\ Rest(f, f1)
      BY <1>6, <3>2 DEF Emits, Rest
    <3> QED
      BY <1>1, <1>6, <3>1, <3>2, <3>3, EmitsTrans
  <2>2. CASE ~useOriginal
    <3> HIDE DEF useOriginal
    <3>1. f1 = CloneBlocks(f0, s.blocks, cont, unwindTo)
          /\ copy = [x \in DOMAIN s.blocks |-> n + x]
      BY <2>2
    <3>2. /\ WellFormed(f1, z, W) /\ Kept(f0, f1) /\ Rest(f0, f1)
          /\ Len(f1.blk) = Len(f0.blk) + Len(s.blocks)
      <4> DEFINE d == s.blocks
      <4>1. f1 = CloneBlocks(f0, d, cont, unwindTo) /\ d \in Seq(1 .. Len(f0.blk))
        BY <2>0, <3>1
      <4> HIDE DEF d, f1
      <4>2. /\ WellFormed(f1, z, W) /\ Kept(f0, f1) /\ Rest(f0, f1)
            /\ Len(f1.blk) = Len(f0.blk) + Len(d)
        BY <2>0, <4>1, CloneBlocksOk
      <4> QED
        BY <4>2 DEF d
    <3>3. Emits(f0, f1, z, W) /\ Rest(f, f1)
      <4> HIDE DEF f1
      <4> QED
        BY <1>6, <3>2 DEF Emits, Rest
    <3>4. copy \in Seq(1 .. Len(f1.blk)) /\ copy # <<>>
      <4> DEFINE d == s.blocks
                 L == Len(d)
                 m == Len(f1.blk)
      <4>1. d \in Seq(1 .. n) /\ d # <<>> /\ m = n + L
        BY <1>1, <1>6, <3>2
      <4>2. copy = [x \in DOMAIN d |-> n + x]
        BY <3>1
      <4>3. L \in Nat /\ L >= 1 /\ DOMAIN d = 1 .. L
        <5> HIDE DEF d
        <5> QED
          BY <4>1
      <4> HIDE DEF d, L, m, copy
      <4>4. copy = [x \in 1 .. L |-> copy[x]] /\ \A x \in 1 .. L : copy[x] \in 1 .. m
        BY <1>1, <4>1, <4>2, <4>3
      <4>5. copy \in Seq(1 .. m) /\ Len(copy) = L
        BY <4>3, <4>4, SeqBuilt
      <4>6. copy # <<>>
        BY <4>3, <4>5
      <4> QED
        BY <4>5, <4>6 DEF m
    <3>5. Len(f1.blk) >= n
      <4> DEFINE L == Len(s.blocks)
      <4>1. L \in Nat
        BY <1>1
      <4> HIDE DEF L
      <4>2. Len(f1.blk) = n + L
        BY <1>6, <3>2 DEF L
      <4> QED
        BY <1>1, <4>1, <4>2
    <3> HIDE DEF f1, copy
    <3> QED
      BY <1>6, <3>3, <3>4, <3>5, EmitsTrans
  <2> QED
    BY <2>1, <2>2
<1> HIDE DEF f1, copy, useOriginal
<1>8. Emits(f, X3, z, W) /\ X3.start \in 1 .. Len(X3.blk)
  <2> DEFINE m == Len(f1.blk)
             b == copy[1]
  <2>1. X3 = WithStart(e3, b)
    BY DEF WithStart, WithExits, NewExit
  <2>2. WellFormed(f1, z, W) /\ i \in 1 .. Len(f1.scopes) /\ m \in Nat /\ m >= n
    BY <1>7, Lengths DEF Emits, Rest
  <2>3. f1.scopes[i].exits \in Seq(ExitSet(m)) /\ ExitsFilled(f1, f1.scopes[i].exits)
    BY <2>2, ScopeFacts
  <2>4. cont \in 1 .. m /\ src \in 1 .. m
    <3>1. n \in Nat /\ cont \in 1 .. n /\ src \in 1 .. n
      BY <1>1
    <3> HIDE DEF m, n
    <3> QED
      BY <2>2, <3>1
  <2>5. b \in 1 .. m
    BY <1>7
  <2>6. E3 \in Seq(ExitSet(m)) /\ ExitsFilled(f1, E3)
    <3>1. f1.msvc => copy # <<>>
      BY <1>7
    <3> DEFINE E == f1.scopes[i].exits
    <3> HIDE DEF E
    <3>2. E3 = Append(E, NewExit(cont, src, copy))
      BY DEF E
    <3>3. E \in Seq(ExitSet(m)) /\ ExitsFilled(f1, E)
      BY <2>3 DEF E
    <3> HIDE DEF E3
    <3> QED
      BY <1>7, <2>2, <2>4, <3>1, <3>2, <3>3, NewExitOk
  <2> HIDE DEF E3
  <2>7. Emits(f, e3, z, W) /\ e3.blk = f1.blk
    BY <1>7, <2>6, ExitsEmits
  <2>8. b \in 0 .. Len(e3.blk)
    BY <2>2, <2>5, <2>7
  <2> HIDE DEF e3, b
  <2>9. LET h == WithStart(e3, b) IN Emits(f, h, z, W) /\ h.blk = e3.blk /\ h.start = b
    BY <2>7, <2>8, StartEmits
  <2> QED
    BY <2>1, <2>5, <2>7, <2>9
<1> HIDE DEF X1, X2, X3, C1, k
<1>9. Emits(f, X, z, W) /\ X.start \in 1 .. Len(X.blk)
  BY <1>4, <1>5, <1>8
<1> QED
  BY <1>3, <1>9

(* CleanupScope::run, with or without funclets: only code is emitted.      *)
LEMMA RunOk ==
  ASSUME NEW z \in {0, 1}, NEW W, NEW f, WellFormed(f, z, W),
         NEW i \in 1 .. Len(f.scopes), NEW src \in 1 .. Len(f.blk), NEW cont \in 1 .. Len(f.blk)
  PROVE  LET h == Run(f, i, src, cont) IN
         Emits(f, h, z, W) /\ h.start \in 1 .. Len(h.blk)
<1>1. CASE f.msvc
  <2>1. 0 \in 0 .. Len(f.blk) /\ FALSE \in BOOLEAN
    BY Lengths
  <2>2. Run(f, i, src, cont) = RunCopying(f, i, src, cont, 0, FALSE)
    BY <1>1 DEF Run
  <2> QED
    BY <1>1, <2>1, <2>2, RunCopyingOk
<1>2. CASE ~f.msvc
  <2>1. Run(f, i, src, cont) = RunSelector(f, i, src, cont)
    BY <1>2 DEF Run
  <2> QED
    BY <1>2, <2>1, RunSelectorOk
<1> QED
  BY <1>1, <1>2

-----------------------------------------------------------------------------
(* runCleanups                                                             *)

(* The cleanups it runs through their branch selectors.                    *)
SelectorOp(c, a, i) ==
  RunSelector(a, i, a.cur, IF i - 1 > c.target THEN c.f.scopes[i - 1].begin ELSE c.cont)
SelectorInv(c, k, a) == Emits(c.f, a, c.z, c.W) /\ Len(a.blk) = Len(c.f.blk)
ThroughSelectors(f, base, source, target, cont) ==
  LET NextBlock(i) == IF i - 1 > target THEN f.scopes[i - 1].begin ELSE cont
  IN FoldLeft(LAMBDA a, i : RunSelector(a, i, a.cur, NextBlock(i)), base, Descending(source, target))
SelectorFold == INSTANCE FoldFacts WITH Op <- SelectorOp, Inv <- SelectorInv

(* Descending and Ascending list the cursors between two heights.          *)
LEMMA Cursors ==
  ASSUME NEW m \in Nat, NEW from \in 0 .. m, NEW to \in 0 .. from
  PROVE  /\ Descending(from, to) \in Seq(1 .. m) /\ Len(Descending(from, to)) = from - to
         /\ \A k \in 1 .. from - to : Descending(from, to)[k] = from + 1 - k
         /\ Ascending(to, from) \in Seq(1 .. m) /\ Len(Ascending(to, from)) = from - to
         /\ \A k \in 1 .. from - to : Ascending(to, from)[k] = to + k
<1> DEFINE d == from - to
           D == Descending(from, to)
           A == Ascending(to, from)
<1>1. d \in Nat
  OBVIOUS
<1>2. D = [k \in 1 .. d |-> D[k]] /\ \A k \in 1 .. d : D[k] = from + 1 - k /\ D[k] \in 1 .. m
  BY DEF Descending
<1>3. A = [k \in 1 .. d |-> A[k]] /\ \A k \in 1 .. d : A[k] = to + k /\ A[k] \in 1 .. m
  BY DEF Ascending
<1> HIDE DEF D, A, d
<1>4. D \in Seq(1 .. m) /\ Len(D) = d
  BY <1>1, <1>2, SeqBuilt
<1>5. A \in Seq(1 .. m) /\ Len(A) = d
  BY <1>1, <1>3, SeqBuilt
<1> QED
  BY <1>2, <1>3, <1>4, <1>5 DEF D, A, d

(* What emitting code leaves of a state, in the form the folds ask for.    *)
LEMMA EmitsFacts ==
  ASSUME NEW z \in {0, 1}, NEW W, NEW f, WellFormed(f, z, W), NEW h, Emits(f, h, z, W)
  PROVE  /\ WellFormed(h, z, W) /\ h.msvc = f.msvc /\ Len(h.scopes) = Len(f.scopes)
         /\ Len(f.blk) \in Nat /\ Len(h.blk) \in Nat /\ Len(h.blk) >= Len(f.blk)
         /\ h.cur = f.cur /\ h.cur \in 1 .. Len(h.blk) /\ 1 .. Len(f.blk) \subseteq 1 .. Len(h.blk)
         /\ 0 .. Len(f.blk) \subseteq 0 .. Len(h.blk)
<1>1. WellFormed(h, z, W) /\ h.msvc = f.msvc /\ Len(h.scopes) = Len(f.scopes)
      /\ Len(h.blk) >= Len(f.blk) /\ h.cur = f.cur
  BY DEF Emits, Kept
<1>2. Len(f.blk) \in Nat /\ Len(h.blk) \in Nat /\ h.cur \in 1 .. Len(h.blk)
  BY <1>1, Lengths
<1> QED
  BY <1>1, <1>2

(* runCleanups for funclets: the copies of every scope in turn, by         *)
(* induction over the fold.                                                *)
LEMMA CopiesOk ==
  ASSUME NEW z \in {0, 1}, NEW W, NEW f, WellFormed(f, z, W), f.msvc,
         NEW source \in 0 .. Len(f.scopes), NEW target \in 0 .. source,
         NEW cont \in 1 .. Len(f.blk)
  PROVE  LET h == FoldLeft(LAMBDA a, i : RunCopying(a, i, a.cur, a.start, 0, FALSE),
                           [f EXCEPT !.start = cont], Ascending(target, source))
         IN  Emits(f, h, z, W) /\ h.start \in 1 .. Len(h.blk)
<1> DEFINE c == [f |-> f, z |-> z, W |-> W]
           base == [f EXCEPT !.start = cont]
           seq == Ascending(target, source)
           h == FoldLeft(LAMBDA a, i : RunCopying(a, i, a.cur, a.start, 0, FALSE), base, seq)
<1>1. h = CopyFold!Folding(c, base, seq)
  <2> HIDE DEF c, base, seq
  <2> QED
    BY DEF CopyFold!Folding, CopyOp, FoldLeft, MapThenFoldSet,
           CopyFold!MapThenFoldSet, Max, CopyFold!Largest
<1>2. seq \in Seq(1 .. Len(f.scopes))
  BY Lengths, Cursors
<1>3. CopyInv(c, 0, base)
  <2>1. base = WithStart(f, cont) /\ cont \in 0 .. Len(f.blk)
    BY Lengths DEF WithStart
  <2> HIDE DEF base
  <2>2. WellFormed(base, z, W) /\ Kept(f, base) /\ base.cur = f.cur /\ base.start = cont
        /\ base.blk = f.blk
    BY <2>1, SetStartOk
  <2> QED
    BY <2>2 DEF CopyInv, Emits
<1>4. ASSUME NEW k \in 1 .. Len(seq), NEW a, CopyInv(c, k - 1, a)
      PROVE  CopyInv(c, k, CopyOp(c, a, seq[k]))
  <2> HIDE DEF seq
  <2> DEFINE i == seq[k]
             e == CopyOp(c, a, i)
  <2>1. i \in 1 .. Len(f.scopes)
    BY <1>2
  <2>2. Emits(f, a, z, W) /\ a.start \in 1 .. Len(a.blk)
    BY <1>4 DEF CopyInv
  <2>3. /\ WellFormed(a, z, W) /\ a.msvc /\ i \in 1 .. Len(a.scopes) /\ a.cur \in 1 .. Len(a.blk)
        /\ 0 \in 0 .. Len(a.blk) /\ FALSE \in BOOLEAN
    BY <2>1, <2>2, EmitsFacts
  <2> HIDE DEF i
  <2>4. e = RunCopying(a, i, a.cur, a.start, 0, FALSE)
    BY DEF CopyOp
  <2> HIDE DEF e
  <2>5. Emits(a, e, z, W) /\ e.start \in 1 .. Len(e.blk)
    BY <2>2, <2>3, <2>4, RunCopyingOk
  <2>6. Emits(f, e, z, W)
    BY <2>2, <2>5, EmitsTrans
  <2> QED
    BY <2>5, <2>6 DEF CopyInv, e, i
<1>5. CopyInv(c, Len(seq), CopyFold!Folding(c, base, seq))
  <2> HIDE DEF c, base, seq
  <2> QED
    BY <1>2, <1>3, <1>4, WellOrdered, CopyFold!Folded DEF CopyFold!LeastNumbers
<1> HIDE DEF h
<1>6. CopyInv(c, Len(seq), h)
  BY <1>1, <1>5
<1> QED
  BY <1>6 DEF CopyInv, h

(* runCleanups otherwise: every scope's run() in turn, by induction over   *)
(* the fold.                                                               *)
LEMMA SelectorsOk ==
  ASSUME NEW z \in {0, 1}, NEW W, NEW f, WellFormed(f, z, W), ~f.msvc,
         NEW source \in 0 .. Len(f.scopes), NEW target \in 0 .. source,
         NEW cont \in 1 .. Len(f.blk), NEW base, Emits(f, base, z, W), Len(base.blk) = Len(f.blk)
  PROVE  Emits(f, ThroughSelectors(f, base, source, target, cont), z, W)
<1> DEFINE c == [f |-> f, target |-> target, cont |-> cont, z |-> z, W |-> W]
           seq == Descending(source, target)
           NextBlock(i) == IF i - 1 > target THEN f.scopes[i - 1].begin ELSE cont
           h == FoldLeft(LAMBDA a, i : RunSelector(a, i, a.cur, NextBlock(i)), base, seq)
<1>1. h = SelectorFold!Folding(c, base, seq)
  <2> HIDE DEF seq
  <2> QED
    BY DEF SelectorFold!Folding, SelectorOp, FoldLeft, MapThenFoldSet,
           SelectorFold!MapThenFoldSet, Max, SelectorFold!Largest
<1>2. seq \in Seq(1 .. Len(f.scopes))
  BY Lengths, Cursors
<1>3. SelectorInv(c, 0, base)
  BY DEF SelectorInv
<1>4. ASSUME NEW k \in 1 .. Len(seq), NEW a, SelectorInv(c, k - 1, a)
      PROVE  SelectorInv(c, k, SelectorOp(c, a, seq[k]))
  <2> HIDE DEF seq
  <2> DEFINE i == seq[k]
             e == SelectorOp(c, a, i)
             d == NextBlock(i)
  <2>1. i \in 1 .. Len(f.scopes)
    BY <1>2
  <2>2. Emits(f, a, z, W) /\ Len(a.blk) = Len(f.blk)
    BY <1>4 DEF SelectorInv
  <2>3. /\ WellFormed(a, z, W) /\ ~a.msvc /\ i \in 1 .. Len(a.scopes) /\ a.cur \in 1 .. Len(a.blk)
    BY <2>1, <2>2, EmitsFacts
  <2> HIDE DEF i
  <2>4. d \in 1 .. Len(a.blk)
    <3>1. CASE i - 1 > target
      <4>1. i - 1 \in 1 .. Len(f.scopes)
        BY <2>1, <3>1, Lengths
      <4>2. f.scopes[i - 1].begin \in 1 .. Len(f.blk)
        BY <4>1, ScopeFacts
      <4> QED
        BY <2>2, <3>1, <4>2
    <3>2. CASE ~(i - 1 > target)
      BY <2>2, <3>2
    <3> QED
      BY <3>1, <3>2
  <2>5. e = RunSelector(a, i, a.cur, d)
    BY DEF SelectorOp
  <2> HIDE DEF e, d
  <2>6. Emits(a, e, z, W) /\ Len(e.blk) = Len(a.blk)
    BY <2>3, <2>4, <2>5, RunSelectorOk
  <2>7. Emits(f, e, z, W)
    BY <2>2, <2>6, EmitsTrans
  <2> QED
    BY <2>2, <2>6, <2>7 DEF SelectorInv, e, i
<1>5. SelectorInv(c, Len(seq), SelectorFold!Folding(c, base, seq))
  <2> HIDE DEF c, seq
  <2> QED
    BY <1>2, <1>3, <1>4, WellOrdered, SelectorFold!Folded DEF SelectorFold!LeastNumbers
<1> HIDE DEF h
<1>6. SelectorInv(c, Len(seq), h)
  BY <1>1, <1>5
<1> QED
  BY <1>6 DEF SelectorInv, h, ThroughSelectors

(* runCleanups between any two cursors emits code and touches no stack.    *)
LEMMA RunCleanupsOk ==
  ASSUME NEW z \in {0, 1}, NEW W, NEW f, WellFormed(f, z, W),
         NEW source \in 0 .. Len(f.scopes), NEW target \in 0 .. source,
         NEW cont \in 1 .. Len(f.blk)
  PROVE  Emits(f, RunCleanups(f, source, target, cont), z, W)
<1> DEFINE h == RunCleanups(f, source, target, cont)
           Copies == FoldLeft(LAMBDA a, i : RunCopying(a, i, a.cur, a.start, 0, FALSE),
                              [f EXCEPT !.start = cont], Ascending(target, source))
           NextBlock(i) == IF i - 1 > target THEN f.scopes[i - 1].begin ELSE cont
           f1 == SetTerm(f, f.cur, Br(f.scopes[source].begin))
           Sel == ThroughSelectors(f, f1, source, target, cont)
<1>1. CASE f.msvc
  <2>1. h = SetTerm(Copies, f.cur, Br(Copies.start))
    BY <1>1 DEF RunCleanups, BranchToStart
  <2>2. Emits(f, Copies, z, W) /\ Copies.start \in 1 .. Len(Copies.blk)
    BY <1>1, CopiesOk
  <2> HIDE DEF Copies, h
  <2>3. WellFormed(Copies, z, W) /\ f.cur \in 1 .. Len(Copies.blk)
    BY <2>2, EmitsFacts
  <2>4. WellFormed(h, z, W) /\ Kept(Copies, h) /\ Rest(Copies, h)
    BY <2>1, <2>2, <2>3, BrOk
  <2>5. Emits(Copies, h, z, W)
    BY <2>4 DEF Emits, Rest
  <2>6. Emits(f, h, z, W)
    BY <2>2, <2>5, EmitsTrans
  <2> QED
    BY <2>6 DEF h
<1>2. CASE ~f.msvc /\ target = source
  <2>1. h = SetTerm(f, f.cur, Br(cont))
    BY <1>2 DEF RunCleanups
  <2>2. f.cur \in 1 .. Len(f.blk)
    BY Lengths
  <2> HIDE DEF h
  <2>4. WellFormed(h, z, W) /\ Kept(f, h) /\ Rest(f, h)
    BY <2>1, <2>2, BrOk
  <2>5. Emits(f, h, z, W)
    BY <2>4 DEF Emits, Rest
  <2> QED
    BY <2>5 DEF h
<1>3. CASE ~f.msvc /\ target # source
  <2>1. h = Sel
    BY <1>3 DEF RunCleanups, ThroughSelectors
  <2>2. f.cur \in 1 .. Len(f.blk) /\ source \in 1 .. Len(f.scopes)
    BY <1>3, Lengths
  <2>3. f.scopes[source].begin \in 1 .. Len(f.blk)
    BY <2>2, ScopeFacts
  <2> DEFINE d == f.scopes[source].begin
  <2> HIDE DEF d
  <2>4. f1 = SetTerm(f, f.cur, Br(d)) /\ d \in 1 .. Len(f.blk)
    BY <2>3 DEF d
  <2> HIDE DEF f1
  <2>5. WellFormed(f1, z, W) /\ Kept(f, f1) /\ Rest(f, f1) /\ Len(f1.blk) = Len(f.blk)
    BY <2>2, <2>4, BrOk
  <2>6. Emits(f, f1, z, W)
    BY <2>5 DEF Emits, Rest
  <2>7. Emits(f, Sel, z, W)
    BY <1>3, <2>5, <2>6, SelectorsOk
  <2> QED
    BY <2>1, <2>7
<1> QED
  BY <1>1, <1>2, <1>3

-----------------------------------------------------------------------------
(* Pushing and popping cleanups                                            *)

(* What a change of the stacks leaves alone.                               *)
Carries(f, h) ==
  /\ h.msvc = f.msvc /\ h.catches = f.catches /\ h.labels = f.labels /\ h.loops = f.loops
  /\ h.plain = f.plain /\ h.cur = f.cur /\ Len(h.blk) >= Len(f.blk)
  /\ \A b \in 1 .. Len(f.blk) : h.blk[b].want = f.blk[b].want

(* The scopes above t are popped, what waits in them waits in t now.       *)
PopsTo(f, h, t, W) ==
  /\ WellFormed(h, 1, W) /\ Carries(f, h) /\ Len(h.scopes) = t
  /\ \A c \in 1 .. t : h.gotos[c] = f.gotos[c]
  /\ \A j \in Range(h.gotos[t + 1]) : \E c \in 1 .. Len(f.gotos) : c > t /\ j \in Range(f.gotos[c])

(* What two steps leave alone but the gotos is left alone by both.         *)
LEMMA CarriesTrans ==
  ASSUME NEW f, NEW h, NEW e, Carries(f, h), Carries(h, e),
         Len(f.blk) \in Nat, Len(h.blk) \in Nat, Len(e.blk) \in Nat
  PROVE  Carries(f, e)
BY SMTT(30) DEF Carries

(* The gotos that wait in any cursor are sequences of their type.          *)
LEMMA GotoFacts ==
  ASSUME NEW z \in {0, 1}, NEW W, NEW f, WellFormed(f, z, W)
  PROVE  /\ f.gotos \in Seq(Seq(GotoSet(Len(f.blk)))) /\ Len(f.gotos) = Len(f.scopes) + 1
         /\ Len(f.gotos) \in Nat
         /\ f.pads \in Seq(Seq(0 .. Len(f.blk))) /\ Len(f.pads) = Len(f.scopes) + 1
         /\ \A c \in 1 .. Len(f.scopes) + 1 : f.gotos[c] \in Seq(GotoSet(Len(f.blk)))
         /\ \A c \in 1 .. Len(f.scopes) + 1 : f.pads[c] \in Seq(0 .. Len(f.blk))
<1>1. f.gotos \in Seq(Seq(GotoSet(Len(f.blk)))) /\ f.pads \in Seq(Seq(0 .. Len(f.blk)))
      /\ Len(f.gotos) = Len(f.scopes) + 1 /\ Len(f.pads) = Len(f.scopes) + 1
  BY DEF WellFormed, FunctionSet
<1> QED
  BY <1>1

(* popCleanups: a goto that leaves a scope is redirected; the placeholder  *)
(* is gone after it.                                                       *)
LEMMA RedirectGotoOk ==
  ASSUME NEW W, NEW f, WellFormed(f, 1, W), NEW i \in 1 .. Len(f.scopes),
         NEW j \in GotoSet(Len(f.blk))
  PROVE  Emits(f, RedirectGoto(f, i, j), 1, W)
<1> DEFINE f0 == ReplaceAllUsesWith(f, {j.tentative}, 0)
           f1 == Run(f0, i, j.src, j.tentative)
           h == ReplaceAllUsesWith(f1, {0}, f1.start)
<1>1. RedirectGoto(f, i, j) = h
  BY DEF RedirectGoto, ReplaceByStart
<1>2. j.src \in 1 .. Len(f.blk) /\ j.tentative \in 1 .. Len(f.blk)
  BY DEF GotoSet
<1>3. WellFormed(f0, 0, W) /\ Kept(f, f0) /\ Rest(f, f0) /\ Len(f0.blk) = Len(f.blk)
  <2>1. 0 \in 0 .. Len(f.blk) /\ 0 <= 1 /\ 0 \in {0, 1} /\ 1 \in {0, 1}
    BY Lengths
  <2> QED
    BY <2>1, ReplaceAllUsesWithOk
<1> HIDE DEF f0
<1>4. Emits(f0, f1, 0, W) /\ f1.start \in 1 .. Len(f1.blk)
  <2>1. 0 \in {0, 1} /\ i \in 1 .. Len(f0.scopes) /\ j.src \in 1 .. Len(f0.blk)
        /\ j.tentative \in 1 .. Len(f0.blk)
    BY <1>2, <1>3 DEF Rest
  <2> QED
    BY <1>3, <2>1, RunOk
<1> HIDE DEF f1
<1>5. WellFormed(h, 1, W) /\ Kept(f1, h) /\ Rest(f1, h)
  <2>1. 0 \in {0, 1} /\ 1 \in {0, 1} /\ WellFormed(f1, 0, W) /\ 0 \in {0}
    BY <1>4 DEF Emits
  <2> QED
    BY <1>4, <2>1, ReplaceAllUsesWithOk
<1> HIDE DEF h
<1>6. Len(f.blk) \in Nat /\ Len(f0.blk) \in Nat /\ Len(f1.blk) \in Nat /\ Len(h.blk) \in Nat
  <2>1. 0 \in {0, 1} /\ 1 \in {0, 1}
    OBVIOUS
  <2> QED
    BY <1>3, <1>4, <1>5, <2>1, Lengths DEF Emits
<1>7. Kept(f, f1)
  BY <1>3, <1>4, <1>6, KeptTrans DEF Emits
<1>8. Kept(f, h)
  BY <1>5, <1>6, <1>7, KeptTrans
<1>9. h.cur = f.cur
  BY <1>3, <1>4, <1>5 DEF Rest, Emits
<1> QED
  BY <1>1, <1>5, <1>8, <1>9 DEF Emits

RedirectOp(c, a, j) == RedirectGoto(a, c.i, j)
RedirectInv(c, k, a) == Emits(c.f, a, 1, c.W)
RedirectFold == INSTANCE FoldFacts WITH Op <- RedirectOp, Inv <- RedirectInv
Redirected(f, i) == FoldLeft(LAMBDA a, j : RedirectGoto(a, i, j), f, f.gotos[i + 1])

(* All gotos of a scope redirected, by induction over the fold.            *)
LEMMA RedirectedOk ==
  ASSUME NEW W, NEW f, WellFormed(f, 1, W), NEW i \in 1 .. Len(f.scopes)
  PROVE  Emits(f, Redirected(f, i), 1, W)
<1> DEFINE c == [f |-> f, i |-> i, W |-> W]
           seq == f.gotos[i + 1]
           h == FoldLeft(LAMBDA a, j : RedirectGoto(a, i, j), f, seq)
<1>0. 1 \in {0, 1}
  OBVIOUS
<1>1. h = RedirectFold!Folding(c, f, seq)
  <2> HIDE DEF seq
  <2> QED
    BY DEF RedirectFold!Folding, RedirectOp, FoldLeft, MapThenFoldSet,
           RedirectFold!MapThenFoldSet, Max, RedirectFold!Largest
<1>2. seq \in Seq(GotoSet(Len(f.blk)))
  BY <1>0, Lengths, GotoFacts
<1>3. RedirectInv(c, 0, f)
  BY <1>0, Lengths DEF RedirectInv, Emits, Kept
<1>4. ASSUME NEW k \in 1 .. Len(seq), NEW a, RedirectInv(c, k - 1, a)
      PROVE  RedirectInv(c, k, RedirectOp(c, a, seq[k]))
  <2> HIDE DEF seq
  <2> DEFINE j == seq[k]
             e == RedirectOp(c, a, j)
  <2>1. j \in GotoSet(Len(f.blk))
    BY <1>2
  <2>2. Emits(f, a, 1, W)
    BY <1>4 DEF RedirectInv
  <2>3. WellFormed(a, 1, W) /\ i \in 1 .. Len(a.scopes) /\ 1 .. Len(f.blk) \subseteq 1 .. Len(a.blk)
    BY <1>0, <2>2, EmitsFacts
  <2> HIDE DEF j
  <2>4. j \in GotoSet(Len(a.blk))
    BY <2>1, <2>3 DEF GotoSet
  <2>5. e = RedirectGoto(a, i, j)
    BY DEF RedirectOp
  <2> HIDE DEF e
  <2>6. Emits(a, e, 1, W)
    BY <2>3, <2>4, <2>5, RedirectGotoOk
  <2>7. Emits(f, e, 1, W)
    BY <1>0, <2>2, <2>6, EmitsTrans
  <2> QED
    BY <2>7 DEF RedirectInv, e, j
<1>5. RedirectInv(c, Len(seq), RedirectFold!Folding(c, f, seq))
  <2> HIDE DEF c, seq
  <2> QED
    BY <1>2, <1>3, <1>4, WellOrdered, RedirectFold!Folded DEF RedirectFold!LeastNumbers
<1> HIDE DEF h
<1>6. RedirectInv(c, Len(seq), h)
  BY <1>1, <1>5
<1> QED
  BY <1>6 DEF RedirectInv, h, Redirected

WithStacks(f, S, G, P) == [f EXCEPT !.scopes = S, !.gotos = G, !.pads = P]

StacksFit(f, S, G, P) ==
  /\ S \in Seq(ScopeSet(Len(f.blk))) /\ \A i \in 1 .. Len(S) : ScopeFilled(f, S[i])
  /\ G \in Seq(Seq(GotoSet(Len(f.blk)))) /\ Len(G) = Len(S) + 1
  /\ P \in Seq(Seq(0 .. Len(f.blk))) /\ Len(P) = Len(S) + 1

(* The three stacks replaced by ones of equal height.                      *)
LEMMA StacksOk ==
  ASSUME NEW z \in {0, 1}, NEW W, NEW f, WellFormed(f, z, W),
         NEW S, NEW G, NEW P, StacksFit(f, S, G, P)
  PROVE  LET h == WithStacks(f, S, G, P) IN
         /\ WellFormed(h, z, W) /\ Carries(f, h) /\ h.scopes = S /\ h.gotos = G /\ h.pads = P
         /\ h.blk = f.blk /\ h.start = f.start
<1> DEFINE n == Len(f.blk)
           h == WithStacks(f, S, G, P)
<1>1. f \in FunctionSet(z, n, W) /\ n \in Nat
  BY Lengths DEF WellFormed
<1>2. /\ S \in Seq(ScopeSet(n)) /\ G \in Seq(Seq(GotoSet(n))) /\ P \in Seq(Seq(0 .. n))
      /\ Len(G) = Len(S) + 1 /\ Len(P) = Len(S) + 1 /\ \A i \in 1 .. Len(S) : ScopeFilled(f, S[i])
  BY DEF StacksFit
<1> HIDE DEF n
<1>4. /\ h \in FunctionSet(z, n, W) /\ h.start = f.start /\ h.blk = f.blk /\ h.cur = f.cur
      /\ h.msvc = f.msvc /\ h.scopes = S /\ h.catches = f.catches /\ h.gotos = G
      /\ h.pads = P /\ h.labels = f.labels /\ h.loops = f.loops /\ h.ret = f.ret
      /\ h.resume = f.resume /\ h.plain = f.plain
  BY <1>1, <1>2 DEF FunctionSet, WithStacks
<1> HIDE DEF h
<1>5. DOMAIN S = 1 .. Len(S)
  BY <1>2
<1>6. ScopesFilled(h)
  BY <1>2, <1>4, <1>5 DEF ScopesFilled, ScopeFilled, ExitsFilled
<1>7. WellFormed(h, z, W)
  BY <1>2, <1>4, <1>6 DEF WellFormed, FuncletBlocks, n
<1>8. Carries(f, h)
  BY <1>1, <1>4 DEF Carries, n
<1> QED
  BY <1>4, <1>7, <1>8 DEF h

(* pushCleanup raises the three stacks by one, with no goto in the new     *)
(* cursor.                                                                 *)
LEMMA PushCleanupOk ==
  ASSUME NEW z \in {0, 1}, NEW W, NEW f, WellFormed(f, z, W),
         NEW begin \in 1 .. Len(f.blk), NEW end \in 1 .. Len(f.blk)
  PROVE  LET h == PushCleanup(f, begin, end) IN
         /\ WellFormed(h, z, W) /\ Carries(f, h) /\ Len(h.scopes) = Len(f.scopes) + 1
         /\ h.gotos = Append(f.gotos, <<>>) /\ h.blk = f.blk
<1> DEFINE n == Len(f.blk)
           d == BlocksOf(begin, end)
           x == [begin |-> begin, end |-> end, exits |-> <<>>, selector |-> FALSE, blocks |-> d]
           S == Append(f.scopes, x)
           G == Append(f.gotos, <<>>)
           P == Append(f.pads, <<>>)
           h == WithStacks(f, S, G, P)
<1>1. PushCleanup(f, begin, end) = h
  BY DEF PushCleanup, WithStacks
<1>2. /\ n \in Nat /\ f.scopes \in Seq(ScopeSet(n)) /\ Len(f.scopes) \in Nat
      /\ f.gotos \in Seq(Seq(GotoSet(n))) /\ f.pads \in Seq(Seq(0 .. n))
      /\ Len(f.gotos) = Len(f.scopes) + 1 /\ Len(f.pads) = Len(f.scopes) + 1
  BY Lengths, GotoFacts
<1>3. d \in Seq(1 .. n) /\ d # <<>>
  <2> DEFINE R == 1 .. n
  <2>1. begin \in R /\ end \in R
    OBVIOUS
  <2> HIDE DEF R
  <2>2. <<begin>> \in Seq(R) /\ <<begin, end>> \in Seq(R) /\ <<begin>> # <<>> /\ <<begin, end>> # <<>>
    BY <2>1
  <2> QED
    BY <2>2 DEF BlocksOf, R
<1> HIDE DEF d
<1>4. x \in ScopeSet(n) /\ ScopeFilled(f, x)
  <2>1. <<>> \in Seq(ExitSet(n)) /\ x.exits = <<>> /\ x.blocks = d
    OBVIOUS
  <2>2. ExitsFilled(f, <<>>)
    BY DEF ExitsFilled
  <2> QED
    BY <1>2, <1>3, <2>1, <2>2 DEF ScopeSet, ScopeFilled
<1> HIDE DEF x
<1>5. S \in Seq(ScopeSet(n)) /\ Len(S) = Len(f.scopes) + 1
      /\ (\A k \in 1 .. Len(f.scopes) : S[k] = f.scopes[k]) /\ S[Len(f.scopes) + 1] = x
  BY <1>2, <1>4, SeqAppend
<1>6. \A k \in 1 .. Len(S) : ScopeFilled(f, S[k])
  <2>1. \A k \in 1 .. Len(f.scopes) : ScopeFilled(f, f.scopes[k])
    BY ScopeFacts
  <2> HIDE DEF S
  <2> SUFFICES ASSUME NEW k \in 1 .. Len(S) PROVE ScopeFilled(f, S[k])
    OBVIOUS
  <2>2. k \in 1 .. Len(f.scopes) \/ k = Len(f.scopes) + 1
    BY <1>2, <1>5
  <2> QED
    BY <1>4, <1>5, <2>1, <2>2
<1>7. <<>> \in Seq(GotoSet(n)) /\ <<>> \in Seq(0 .. n)
  OBVIOUS
<1>8. G \in Seq(Seq(GotoSet(n))) /\ Len(G) = Len(f.gotos) + 1
  <2> DEFINE T == Seq(GotoSet(n))
             nil == <<>>
  <2>1. f.gotos \in Seq(T) /\ nil \in T /\ G = Append(f.gotos, nil)
    BY <1>2, <1>7
  <2> HIDE DEF T, nil, G
  <2>2. G \in Seq(T) /\ Len(G) = Len(f.gotos) + 1
    BY <2>1, SeqAppend
  <2> QED
    BY <2>2 DEF T
<1>9. P \in Seq(Seq(0 .. n)) /\ Len(P) = Len(f.pads) + 1
  <2> DEFINE T == Seq(0 .. n)
             nil == <<>>
  <2>1. f.pads \in Seq(T) /\ nil \in T /\ P = Append(f.pads, nil)
    BY <1>2, <1>7
  <2> HIDE DEF T, nil, P
  <2>2. P \in Seq(T) /\ Len(P) = Len(f.pads) + 1
    BY <2>1, SeqAppend
  <2> QED
    BY <2>2 DEF T
<1>10. Len(G) = Len(S) + 1 /\ Len(P) = Len(S) + 1
  BY <1>2, <1>5, <1>8, <1>9
<1> HIDE DEF S, G, P, h
<1>11. h = WithStacks(f, S, G, P)
  BY DEF h
<1>12. /\ WellFormed(h, z, W) /\ Carries(f, h) /\ h.scopes = S /\ h.gotos = G
       /\ h.blk = f.blk
  <2>1. StacksFit(f, S, G, P)
    BY <1>5, <1>6, <1>8, <1>9, <1>10 DEF StacksFit
  <2> QED
    BY <1>11, <2>1, StacksOk
<1> QED
  BY <1>1, <1>5, <1>12 DEF G

(* popCleanups for one scope: its gotos move to the cursor below.          *)
LEMMA PopCleanupOk ==
  ASSUME NEW W, NEW f, WellFormed(f, 1, W), NEW i \in 1 .. Len(f.scopes), i = Len(f.scopes)
  PROVE  PopsTo(f, PopCleanup(f, i), i - 1, W)
<1> DEFINE e == Redirected(f, i)
           n == Len(e.blk)
           w == f.gotos[i + 1]
           F == Front(e.gotos)
           y == e.gotos[i] \o w
           S == Front(e.scopes)
           G == [F EXCEPT ![i] = y]
           P == Front(e.pads)
           h == WithStacks(e, S, G, P)
<1>0. 1 \in {0, 1}
  OBVIOUS
<1>1. PopCleanup(f, i) = h
  BY DEF PopCleanup, Redirected, WithStacks
<1>2. Emits(f, e, 1, W)
  BY RedirectedOk
<1> HIDE DEF e
<1>3. /\ WellFormed(e, 1, W) /\ e.gotos = f.gotos /\ Len(e.scopes) = i /\ Carries(f, e)
      /\ i \in Nat
  BY <1>2, Lengths DEF Emits, Kept, Carries
<1>4. /\ n \in Nat /\ e.scopes \in Seq(ScopeSet(n)) /\ e.gotos \in Seq(Seq(GotoSet(n)))
      /\ e.pads \in Seq(Seq(0 .. n)) /\ Len(e.gotos) = i + 1 /\ Len(e.pads) = i + 1
      /\ \A k \in 1 .. i : ScopeFilled(e, e.scopes[k])
      /\ \A k \in 1 .. i + 1 : e.gotos[k] \in Seq(GotoSet(n))
  BY <1>0, <1>3, Lengths, GotoFacts, ScopeFacts
<1>5. /\ S \in Seq(ScopeSet(n)) /\ Len(S) = i - 1 /\ \A k \in 1 .. i - 1 : S[k] = e.scopes[k]
  <2>1. e.scopes # <<>>
    BY <1>3
  <2> QED
    BY <1>3, <1>4, <2>1, SeqFront
<1>6. /\ F \in Seq(Seq(GotoSet(n))) /\ Len(F) = i /\ \A k \in 1 .. i : F[k] = f.gotos[k]
  <2>1. e.gotos # <<>> /\ Len(e.gotos) - 1 = i
    BY <1>3, <1>4
  <2> QED
    BY <1>3, <1>4, <2>1, SeqFront, ZenonT(60)
<1>7. /\ P \in Seq(Seq(0 .. n)) /\ Len(P) = i
  <2>1. e.pads # <<>> /\ Len(e.pads) - 1 = i
    BY <1>3, <1>4
  <2> QED
    BY <1>4, <2>1, SeqFront
<1>8. e.gotos[i] \in Seq(GotoSet(n)) /\ w \in Seq(GotoSet(n)) /\ e.gotos[i] = f.gotos[i]
  <2> HIDE DEF F
  <2>1. i \in 1 .. i /\ i \in 1 .. i + 1 /\ i + 1 \in 1 .. i + 1
    BY <1>3
  <2>2. e.gotos[i] = f.gotos[i] /\ f.gotos[i] \in Seq(GotoSet(n)) /\ f.gotos[i + 1] \in Seq(GotoSet(n))
    BY <1>3, <1>4, <2>1
  <2> QED
    BY <2>2
<1> HIDE DEF F, w
<1>9. y \in Seq(GotoSet(n)) /\ Range(y) \subseteq Range(e.gotos[i]) \cup Range(w)
  <2> DEFINE u == e.gotos[i]
             T == GotoSet(n)
  <2>1. u \in Seq(T) /\ w \in Seq(T)
    BY <1>8
  <2> HIDE DEF u, T
  <2>2. /\ u \o w \in Seq(T) /\ Len(u \o w) = Len(u) + Len(w)
        /\ \A k \in 1 .. Len(u) : (u \o w)[k] = u[k]
        /\ \A k \in 1 .. Len(u) + Len(w) : k > Len(u) => (u \o w)[k] = w[k - Len(u)]
    BY <2>1, SeqConcat
  <2>3. ASSUME NEW k \in DOMAIN (u \o w)
        PROVE  (u \o w)[k] \in Range(u) \cup Range(w)
    <3>1. k \in 1 .. Len(u) + Len(w) /\ Len(u) \in Nat /\ Len(w) \in Nat
          /\ DOMAIN u = 1 .. Len(u) /\ DOMAIN w = 1 .. Len(w)
      BY <2>1, <2>2
    <3>2. CASE k <= Len(u)
      <4>1. k \in DOMAIN u /\ (u \o w)[k] = u[k]
        BY <2>2, <3>1, <3>2
      <4> QED
        BY <4>1 DEF Range
    <3>3. CASE k > Len(u)
      <4>1. k - Len(u) \in DOMAIN w /\ (u \o w)[k] = w[k - Len(u)]
        BY <2>2, <3>1, <3>3
      <4> QED
        BY <4>1 DEF Range
    <3> QED
      BY <3>1, <3>2, <3>3
  <2>4. Range(u \o w) \subseteq Range(u) \cup Range(w)
    <3> DEFINE q == u \o w
    <3> HIDE DEF q
    <3> QED
      BY <2>3 DEF Range, q
  <2> QED
    BY <2>2, <2>4 DEF u, T
<1> HIDE DEF y
<1>10. /\ G \in Seq(Seq(GotoSet(n))) /\ Len(G) = i
       /\ \A k \in 1 .. i : G[k] = IF k = i THEN y ELSE f.gotos[k]
  <2>1. i \in 1 .. Len(F)
    BY <1>3, <1>6
  <2> QED
    BY <1>6, <1>9, <2>1, SeqUpdate
<1> HIDE DEF S, G, P, h
<1>11. h = WithStacks(e, S, G, P)
  BY DEF h
<1>12. \A k \in 1 .. Len(S) : ScopeFilled(e, S[k])
  BY <1>3, <1>4, <1>5
<1>13. Len(G) = Len(S) + 1 /\ Len(P) = Len(S) + 1
  BY <1>3, <1>5, <1>7, <1>10
<1>14. WellFormed(h, 1, W) /\ Carries(e, h) /\ h.scopes = S /\ h.gotos = G /\ h.blk = e.blk
  <2>1. StacksFit(e, S, G, P)
    BY <1>5, <1>7, <1>10, <1>12, <1>13 DEF StacksFit
  <2> QED
    BY <1>0, <1>3, <1>11, <2>1, StacksOk
<1>15. Carries(f, h)
  <2>1. Len(f.blk) \in Nat /\ Len(e.blk) \in Nat /\ Len(h.blk) \in Nat
    BY <1>0, <1>3, <1>14, Lengths
  <2> QED
    BY <1>3, <1>14, <2>1, CarriesTrans
<1>16. Len(h.scopes) = i - 1 /\ \A c \in 1 .. i - 1 : h.gotos[c] = f.gotos[c]
  BY <1>3, <1>5, <1>10, <1>14, SMTT(30)
<1>17. \A j \in Range(h.gotos[i - 1 + 1]) :
         \E c \in 1 .. Len(f.gotos) : c > i - 1 /\ j \in Range(f.gotos[c])
  <2>1. h.gotos[i - 1 + 1] = y
    BY <1>3, <1>10, <1>14
  <2>2. i \in 1 .. Len(f.gotos) /\ i + 1 \in 1 .. Len(f.gotos) /\ i > i - 1 /\ i + 1 > i - 1
    <3>1. Len(f.gotos) = i + 1 /\ i \in Nat /\ i >= 1
      BY <1>0, <1>3, GotoFacts
    <3> QED
      BY <3>1
  <2>3. ASSUME NEW j \in Range(y)
        PROVE  \E c \in 1 .. Len(f.gotos) : c > i - 1 /\ j \in Range(f.gotos[c])
    <3>1. CASE j \in Range(f.gotos[i])
      BY <2>2, <3>1
    <3>2. CASE j \in Range(f.gotos[i + 1])
      BY <2>2, <3>2
    <3> QED
      BY <1>8, <1>9, <3>1, <3>2 DEF w
  <2> QED
    BY <2>1, <2>3
<1> QED
  BY <1>1, <1>14, <1>15, <1>16, <1>17 DEF PopsTo


PopOp(c, a, i) == PopCleanup(a, i)
PopInv(c, k, a) == PopsTo(c.f, a, Len(c.f.scopes) - k, c.W)
PopFold == INSTANCE FoldFacts WITH Op <- PopOp, Inv <- PopInv

(* Popping again.                                                          *)
LEMMA PopsFurther ==
  ASSUME NEW W, NEW f, NEW h, NEW e, NEW t \in Nat, WellFormed(f, 1, W),
         t + 1 <= Len(f.scopes),
         PopsTo(f, h, t + 1, W), PopsTo(h, e, t, W)
  PROVE  PopsTo(f, e, t, W)
<1>0. 1 \in {0, 1}
  OBVIOUS
<1>1. /\ WellFormed(h, 1, W) /\ Carries(f, h) /\ Len(h.scopes) = t + 1
      /\ \A c \in 1 .. t + 1 : h.gotos[c] = f.gotos[c]
      /\ \A j \in Range(h.gotos[t + 2]) :
           \E c \in 1 .. Len(f.gotos) : c > t + 1 /\ j \in Range(f.gotos[c])
  <2>1. t + 1 + 1 = t + 2
    OBVIOUS
  <2> QED
    BY <2>1 DEF PopsTo
<1>2. /\ WellFormed(e, 1, W) /\ Carries(h, e) /\ Len(e.scopes) = t
      /\ \A c \in 1 .. t : e.gotos[c] = h.gotos[c]
      /\ \A j \in Range(e.gotos[t + 1]) :
           \E c \in 1 .. Len(h.gotos) : c > t /\ j \in Range(h.gotos[c])
  BY DEF PopsTo
<1>3. Carries(f, e)
  <2>1. Len(f.blk) \in Nat /\ Len(h.blk) \in Nat /\ Len(e.blk) \in Nat
    BY <1>0, <1>1, <1>2, Lengths
  <2> QED
    BY <1>1, <1>2, <2>1, CarriesTrans
<1>4. Len(h.gotos) = t + 2 /\ Len(f.gotos) \in Nat
  BY <1>0, <1>1, GotoFacts
<1>5. t + 1 <= Len(f.gotos)
  <2>1. Len(f.gotos) = Len(f.scopes) + 1 /\ Len(f.scopes) \in Nat
    BY <1>0, GotoFacts, Lengths
  <2> QED
    BY <2>1
<1>6. ASSUME NEW j \in Range(e.gotos[t + 1])
      PROVE  \E c \in 1 .. Len(f.gotos) : c > t /\ j \in Range(f.gotos[c])
  <2>1. PICK c \in 1 .. Len(h.gotos) : c > t /\ j \in Range(h.gotos[c])
    BY <1>2
  <2>2. CASE c = t + 1
    <3>1. j \in Range(f.gotos[t + 1]) /\ t + 1 \in 1 .. Len(f.gotos)
      BY <1>1, <1>4, <1>5, <2>1, <2>2
    <3> QED
      BY <3>1
  <2>3. CASE c = t + 2
    BY <1>1, <1>4, <2>1, <2>3
  <2> QED
    BY <1>4, <2>1, <2>2, <2>3
<1>7. \A c \in 1 .. t : e.gotos[c] = f.gotos[c]
  BY <1>1, <1>2
<1> QED
  BY <1>2, <1>3, <1>6, <1>7 DEF PopsTo

(* Popping no scope.                                                       *)
LEMMA PopNothing ==
  ASSUME NEW W, NEW f, WellFormed(f, 1, W)
  PROVE  PopsTo(f, f, Len(f.scopes), W)
<1>0. 1 \in {0, 1}
  OBVIOUS
<1>1. Len(f.blk) \in Nat /\ Len(f.scopes) \in Nat /\ Len(f.gotos) = Len(f.scopes) + 1
  BY <1>0, Lengths, GotoFacts
<1>2. Carries(f, f)
  BY <1>1 DEF Carries
<1>3. Len(f.scopes) + 1 \in 1 .. Len(f.gotos) /\ Len(f.scopes) + 1 > Len(f.scopes)
  BY <1>1
<1>4. \A j \in Range(f.gotos[Len(f.scopes) + 1]) :
        \E c \in 1 .. Len(f.gotos) : c > Len(f.scopes) /\ j \in Range(f.gotos[c])
  BY <1>3
<1> QED
  BY <1>2, <1>4 DEF PopsTo

(* popCleanups down to any cursor: the gotos of all popped scopes are in   *)
(* it.                                                                     *)
LEMMA PopCleanupsOk ==
  ASSUME NEW W, NEW f, WellFormed(f, 1, W), NEW t \in 0 .. Len(f.scopes)
  PROVE  PopsTo(f, PopCleanups(f, t), t, W)
<1> DEFINE c == [f |-> f, W |-> W]
           s == Len(f.scopes)
           seq == Descending(s, t)
           h == FoldLeft(LAMBDA a, i : PopCleanup(a, i), f, seq)
<1>0. 1 \in {0, 1}
  OBVIOUS
<1>1. PopCleanups(f, t) = h
  BY DEF PopCleanups, CurrentCleanupScope
<1>2. h = PopFold!Folding(c, f, seq)
  <2> HIDE DEF seq
  <2> QED
    BY DEF PopFold!Folding, PopOp, FoldLeft, MapThenFoldSet,
           PopFold!MapThenFoldSet, Max, PopFold!Largest
<1>3. s \in Nat
  BY <1>0, Lengths
<1>4. /\ seq \in Seq(1 .. s) /\ Len(seq) = s - t
      /\ \A k \in 1 .. s - t : seq[k] = s + 1 - k
  <2>1. s \in 0 .. s /\ t \in 0 .. s
    BY <1>3
  <2> HIDE DEF s
  <2> QED
    BY <1>3, <2>1, Cursors
<1> HIDE DEF seq
<1>5. PopInv(c, 0, f)
  <2>1. c.f = f /\ c.W = W /\ s - 0 = s
    BY <1>3
  <2>2. PopsTo(f, f, s, W)
    BY PopNothing
  <2> QED
    BY <2>1, <2>2 DEF PopInv
<1>6. ASSUME NEW k \in 1 .. Len(seq), NEW a, PopInv(c, k - 1, a)
      PROVE  PopInv(c, k, PopOp(c, a, seq[k]))
  <2> DEFINE i == seq[k]
             u == s - k
             e == PopCleanup(a, i)
  <2>1. i = s + 1 - k /\ u \in Nat /\ u + 1 = i /\ i - 1 = u /\ s - (k - 1) = i /\ u + 1 <= s
    BY <1>3, <1>4
  <2>2. PopsTo(f, a, u + 1, W)
    <3>1. PopsTo(f, a, s - (k - 1), W)
      BY <1>6 DEF PopInv
    <3> QED
      BY <2>1, <3>1
  <2>3. WellFormed(a, 1, W) /\ Len(a.scopes) = i
    BY <2>1, <2>2 DEF PopsTo
  <2> HIDE DEF i, u
  <2>4. i \in 1 .. Len(a.scopes)
    BY <2>1, <2>3
  <2>5. PopsTo(a, e, i - 1, W)
    BY <2>3, <2>4, PopCleanupOk
  <2> HIDE DEF e
  <2>6. PopsTo(a, e, u, W)
    BY <2>1, <2>5
  <2>7. PopsTo(f, e, u, W)
    BY <2>1, <2>2, <2>6, PopsFurther
  <2> QED
    BY <2>7 DEF PopInv, PopOp, e, i, u
<1>7. PopInv(c, Len(seq), PopFold!Folding(c, f, seq))
  <2> HIDE DEF c
  <2> QED
    BY <1>4, <1>5, <1>6, WellOrdered, PopFold!Folded DEF PopFold!LeastNumbers
<1> HIDE DEF h
<1>8. PopsTo(f, h, s - (s - t), W)
  BY <1>2, <1>4, <1>7 DEF PopInv
<1>9. s - (s - t) = t
  BY <1>3
<1> QED
  BY <1>1, <1>8, <1>9

-----------------------------------------------------------------------------
(* One field of the generator's state replaced, the others kept.           *)

WithCatches(f, C) == [f EXCEPT !.catches = C]
WithGotos(f, G) == [f EXCEPT !.gotos = G]
WithPads(f, P) == [f EXCEPT !.pads = P]
WithLabels(f, L) == [f EXCEPT !.labels = L]
WithLoops(f, L) == [f EXCEPT !.loops = L]
WithRet(f, x) == [f EXCEPT !.ret = x]
WithResume(f, x) == [f EXCEPT !.resume = x]
WithPlain(f, p) == [f EXCEPT !.plain = p]

(* A state whose fields other than blocks, scopes and heights changed      *)
(* stays well formed.                                                      *)
LEMMA Reframed ==
  ASSUME NEW z \in {0, 1}, NEW W, NEW f, WellFormed(f, z, W),
         NEW h, h \in FunctionSet(z, Len(f.blk), W), h.blk = f.blk, h.scopes = f.scopes,
         h.msvc = f.msvc, Len(h.gotos) = Len(f.gotos), Len(h.pads) = Len(f.pads)
  PROVE  WellFormed(h, z, W)
BY DEF WellFormed, FuncletBlocks, ScopesFilled, ScopeFilled, ExitsFilled

(* The stack of try statements replaced, the rest kept.                    *)
LEMMA PutCatches ==
  ASSUME NEW z \in {0, 1}, NEW W, NEW f, WellFormed(f, z, W),
         NEW C \in Seq(CatchSet(Len(f.blk))),
         NEW h, h = WithCatches(f, C)
  PROVE  /\ WellFormed(h, z, W)
         /\ h.msvc = f.msvc /\ h.blk = f.blk /\ h.cur = f.cur /\ h.start = f.start
         /\ h.scopes = f.scopes /\ h.gotos = f.gotos /\ h.pads = f.pads /\ h.labels = f.labels
         /\ h.loops = f.loops /\ h.ret = f.ret /\ h.resume = f.resume /\ h.plain = f.plain
         /\ h.catches = C
<1> DEFINE n == Len(f.blk)
<1>1. f \in FunctionSet(z, n, W) /\ C \in Seq(CatchSet(n))
  BY DEF WellFormed
<1> HIDE DEF n
<1>2. /\ h \in FunctionSet(z, n, W)
      /\ h.msvc = f.msvc /\ h.blk = f.blk /\ h.cur = f.cur /\ h.start = f.start
      /\ h.scopes = f.scopes /\ h.gotos = f.gotos /\ h.pads = f.pads /\ h.labels = f.labels
      /\ h.loops = f.loops /\ h.ret = f.ret /\ h.resume = f.resume /\ h.plain = f.plain
      /\ h.catches = C
  BY <1>1 DEF FunctionSet, WithCatches
<1>3. WellFormed(h, z, W)
  BY <1>2, Reframed DEF n
<1> QED
  BY <1>2, <1>3

(* The waiting gotos replaced, the rest kept.                              *)
LEMMA PutGotos ==
  ASSUME NEW z \in {0, 1}, NEW W, NEW f, WellFormed(f, z, W),
         NEW G \in Seq(Seq(GotoSet(Len(f.blk)))), Len(G) = Len(f.gotos),
         NEW h, h = WithGotos(f, G)
  PROVE  /\ WellFormed(h, z, W)
         /\ h.msvc = f.msvc /\ h.blk = f.blk /\ h.cur = f.cur /\ h.start = f.start
         /\ h.scopes = f.scopes /\ h.catches = f.catches /\ h.pads = f.pads /\ h.labels = f.labels
         /\ h.loops = f.loops /\ h.ret = f.ret /\ h.resume = f.resume /\ h.plain = f.plain
         /\ h.gotos = G
<1> DEFINE n == Len(f.blk)
<1>1. f \in FunctionSet(z, n, W) /\ G \in Seq(Seq(GotoSet(n)))
  BY DEF WellFormed
<1> HIDE DEF n
<1>2. /\ h \in FunctionSet(z, n, W)
      /\ h.msvc = f.msvc /\ h.blk = f.blk /\ h.cur = f.cur /\ h.start = f.start
      /\ h.scopes = f.scopes /\ h.catches = f.catches /\ h.pads = f.pads /\ h.labels = f.labels
      /\ h.loops = f.loops /\ h.ret = f.ret /\ h.resume = f.resume /\ h.plain = f.plain
      /\ h.gotos = G
  BY <1>1 DEF FunctionSet, WithGotos
<1>3. WellFormed(h, z, W)
  BY <1>2, Reframed DEF n
<1> QED
  BY <1>2, <1>3

(* The cached landing pads replaced, the rest kept.                        *)
LEMMA PutPads ==
  ASSUME NEW z \in {0, 1}, NEW W, NEW f, WellFormed(f, z, W),
         NEW P \in Seq(Seq(0 .. Len(f.blk))), Len(P) = Len(f.pads),
         NEW h, h = WithPads(f, P)
  PROVE  /\ WellFormed(h, z, W)
         /\ h.msvc = f.msvc /\ h.blk = f.blk /\ h.cur = f.cur /\ h.start = f.start
         /\ h.scopes = f.scopes /\ h.catches = f.catches /\ h.gotos = f.gotos /\ h.labels = f.labels
         /\ h.loops = f.loops /\ h.ret = f.ret /\ h.resume = f.resume /\ h.plain = f.plain
         /\ h.pads = P
<1> DEFINE n == Len(f.blk)
<1>1. f \in FunctionSet(z, n, W) /\ P \in Seq(Seq(0 .. n))
  BY DEF WellFormed
<1> HIDE DEF n
<1>2. /\ h \in FunctionSet(z, n, W)
      /\ h.msvc = f.msvc /\ h.blk = f.blk /\ h.cur = f.cur /\ h.start = f.start
      /\ h.scopes = f.scopes /\ h.catches = f.catches /\ h.gotos = f.gotos /\ h.labels = f.labels
      /\ h.loops = f.loops /\ h.ret = f.ret /\ h.resume = f.resume /\ h.plain = f.plain
      /\ h.pads = P
  BY <1>1 DEF FunctionSet, WithPads
<1>3. WellFormed(h, z, W)
  BY <1>2, Reframed DEF n
<1> QED
  BY <1>2, <1>3

(* The labels replaced, the rest kept.                                     *)
LEMMA PutLabels ==
  ASSUME NEW z \in {0, 1}, NEW W, NEW f, WellFormed(f, z, W),
         NEW L \in LabelMap(Len(f.blk)),
         NEW h, h = WithLabels(f, L)
  PROVE  /\ WellFormed(h, z, W)
         /\ h.msvc = f.msvc /\ h.blk = f.blk /\ h.cur = f.cur /\ h.start = f.start
         /\ h.scopes = f.scopes /\ h.catches = f.catches /\ h.gotos = f.gotos /\ h.pads = f.pads
         /\ h.loops = f.loops /\ h.ret = f.ret /\ h.resume = f.resume /\ h.plain = f.plain
         /\ h.labels = L
<1> DEFINE n == Len(f.blk)
<1>1. f \in FunctionSet(z, n, W) /\ L \in LabelMap(n)
  BY DEF WellFormed
<1> HIDE DEF n
<1>2. /\ h \in FunctionSet(z, n, W)
      /\ h.msvc = f.msvc /\ h.blk = f.blk /\ h.cur = f.cur /\ h.start = f.start
      /\ h.scopes = f.scopes /\ h.catches = f.catches /\ h.gotos = f.gotos /\ h.pads = f.pads
      /\ h.loops = f.loops /\ h.ret = f.ret /\ h.resume = f.resume /\ h.plain = f.plain
      /\ h.labels = L
  BY <1>1 DEF FunctionSet, WithLabels
<1>3. WellFormed(h, z, W)
  BY <1>2, Reframed DEF n
<1> QED
  BY <1>2, <1>3

(* The loop targets replaced, the rest kept.                               *)
LEMMA PutLoops ==
  ASSUME NEW z \in {0, 1}, NEW W, NEW f, WellFormed(f, z, W),
         NEW L \in Seq(LoopSet(Len(f.blk))),
         NEW h, h = WithLoops(f, L)
  PROVE  /\ WellFormed(h, z, W)
         /\ h.msvc = f.msvc /\ h.blk = f.blk /\ h.cur = f.cur /\ h.start = f.start
         /\ h.scopes = f.scopes /\ h.catches = f.catches /\ h.gotos = f.gotos /\ h.pads = f.pads
         /\ h.labels = f.labels /\ h.ret = f.ret /\ h.resume = f.resume /\ h.plain = f.plain
         /\ h.loops = L
<1> DEFINE n == Len(f.blk)
<1>1. f \in FunctionSet(z, n, W) /\ L \in Seq(LoopSet(n))
  BY DEF WellFormed
<1> HIDE DEF n
<1>2. /\ h \in FunctionSet(z, n, W)
      /\ h.msvc = f.msvc /\ h.blk = f.blk /\ h.cur = f.cur /\ h.start = f.start
      /\ h.scopes = f.scopes /\ h.catches = f.catches /\ h.gotos = f.gotos /\ h.pads = f.pads
      /\ h.labels = f.labels /\ h.ret = f.ret /\ h.resume = f.resume /\ h.plain = f.plain
      /\ h.loops = L
  BY <1>1 DEF FunctionSet, WithLoops
<1>3. WellFormed(h, z, W)
  BY <1>2, Reframed DEF n
<1> QED
  BY <1>2, <1>3

(* The return block replaced, the rest kept.                               *)
LEMMA PutRet ==
  ASSUME NEW z \in {0, 1}, NEW W, NEW f, WellFormed(f, z, W),
         NEW x \in 0 .. Len(f.blk),
         NEW h, h = WithRet(f, x)
  PROVE  /\ WellFormed(h, z, W)
         /\ h.msvc = f.msvc /\ h.blk = f.blk /\ h.cur = f.cur /\ h.start = f.start
         /\ h.scopes = f.scopes /\ h.catches = f.catches /\ h.gotos = f.gotos /\ h.pads = f.pads
         /\ h.labels = f.labels /\ h.loops = f.loops /\ h.resume = f.resume /\ h.plain = f.plain
         /\ h.ret = x
<1> DEFINE n == Len(f.blk)
<1>1. f \in FunctionSet(z, n, W) /\ x \in 0 .. n
  BY DEF WellFormed
<1> HIDE DEF n
<1>2. /\ h \in FunctionSet(z, n, W)
      /\ h.msvc = f.msvc /\ h.blk = f.blk /\ h.cur = f.cur /\ h.start = f.start
      /\ h.scopes = f.scopes /\ h.catches = f.catches /\ h.gotos = f.gotos /\ h.pads = f.pads
      /\ h.labels = f.labels /\ h.loops = f.loops /\ h.resume = f.resume /\ h.plain = f.plain
      /\ h.ret = x
  BY <1>1 DEF FunctionSet, WithRet
<1>3. WellFormed(h, z, W)
  BY <1>2, Reframed DEF n
<1> QED
  BY <1>2, <1>3

(* The resume block replaced, the rest kept.                               *)
LEMMA PutResume ==
  ASSUME NEW z \in {0, 1}, NEW W, NEW f, WellFormed(f, z, W),
         NEW x \in 0 .. Len(f.blk),
         NEW h, h = WithResume(f, x)
  PROVE  /\ WellFormed(h, z, W)
         /\ h.msvc = f.msvc /\ h.blk = f.blk /\ h.cur = f.cur /\ h.start = f.start
         /\ h.scopes = f.scopes /\ h.catches = f.catches /\ h.gotos = f.gotos /\ h.pads = f.pads
         /\ h.labels = f.labels /\ h.loops = f.loops /\ h.ret = f.ret /\ h.plain = f.plain
         /\ h.resume = x
<1> DEFINE n == Len(f.blk)
<1>1. f \in FunctionSet(z, n, W) /\ x \in 0 .. n
  BY DEF WellFormed
<1> HIDE DEF n
<1>2. /\ h \in FunctionSet(z, n, W)
      /\ h.msvc = f.msvc /\ h.blk = f.blk /\ h.cur = f.cur /\ h.start = f.start
      /\ h.scopes = f.scopes /\ h.catches = f.catches /\ h.gotos = f.gotos /\ h.pads = f.pads
      /\ h.labels = f.labels /\ h.loops = f.loops /\ h.ret = f.ret /\ h.plain = f.plain
      /\ h.resume = x
  BY <1>1 DEF FunctionSet, WithResume
<1>3. WellFormed(h, z, W)
  BY <1>2, Reframed DEF n
<1> QED
  BY <1>2, <1>3

(* The calls without an unwind edge replaced, the rest kept.               *)
LEMMA PutPlain ==
  ASSUME NEW z \in {0, 1}, NEW W, NEW f, WellFormed(f, z, W),
         NEW p \in SUBSET W,
         NEW h, h = WithPlain(f, p)
  PROVE  /\ WellFormed(h, z, W)
         /\ h.msvc = f.msvc /\ h.blk = f.blk /\ h.cur = f.cur /\ h.start = f.start
         /\ h.scopes = f.scopes /\ h.catches = f.catches /\ h.gotos = f.gotos /\ h.pads = f.pads
         /\ h.labels = f.labels /\ h.loops = f.loops /\ h.ret = f.ret /\ h.resume = f.resume
         /\ h.plain = p
<1> DEFINE n == Len(f.blk)
<1>1. f \in FunctionSet(z, n, W) /\ p \in SUBSET W
  BY DEF WellFormed
<1> HIDE DEF n
<1>2. /\ h \in FunctionSet(z, n, W)
      /\ h.msvc = f.msvc /\ h.blk = f.blk /\ h.cur = f.cur /\ h.start = f.start
      /\ h.scopes = f.scopes /\ h.catches = f.catches /\ h.gotos = f.gotos /\ h.pads = f.pads
      /\ h.labels = f.labels /\ h.loops = f.loops /\ h.ret = f.ret /\ h.resume = f.resume
      /\ h.plain = p
  BY <1>1 DEF FunctionSet, WithPlain
<1>3. WellFormed(h, z, W)
  BY <1>2, Reframed DEF n
<1> QED
  BY <1>2, <1>3

-----------------------------------------------------------------------------
(* The other parts of a block replaced                                     *)

WithRuns(f, b, r) == [f EXCEPT !.blk[b].runs = r]
WithClause(f, b, class) == [f EXCEPT !.blk[b].pad.clauses = Append(@, class)]
MarkedCleanup(f, b) == [f EXCEPT !.blk[b].pad.cleanup = TRUE]

(* Marking the start of a cleanup's code.                                  *)
LEMMA RunsOk ==
  ASSUME NEW z \in {0, 1}, NEW W, NEW f, WellFormed(f, z, W), NEW b \in 1 .. Len(f.blk),
         NEW r \in Nat
  PROVE  LET h == WithRuns(f, b, r) IN
         /\ WellFormed(h, z, W) /\ Kept(f, h) /\ Rest(f, h) /\ Len(h.blk) = Len(f.blk)
<1> DEFINE n == Len(f.blk)
           h == WithRuns(f, b, r)
           x == f.blk[b]
           y == [x EXCEPT !.runs = r]
           B == [f.blk EXCEPT ![b] = y]
<1>1. n \in Nat /\ f.blk \in Seq(BlockSet(z, n, W)) /\ DOMAIN f.blk = 1 .. n
      /\ x \in BlockSet(z, n, W)
  BY Lengths
<1>2. h = WithBlocks(f, B)
  BY DEF WithBlocks, WithRuns
<1> HIDE DEF x
<1>3. y \in BlockSet(z, n, W) /\ y.stores = x.stores /\ y.want = x.want /\ y.term = x.term
  BY <1>1, BlockRuns
<1> HIDE DEF y
<1>4. /\ B \in Seq(BlockSet(z, n, W)) /\ Len(B) = n
      /\ \A k \in 1 .. n : B[k] = IF k = b THEN y ELSE f.blk[k]
  BY <1>1, <1>3, SeqUpdate
<1> HIDE DEF B
<1>5. \A k \in 1 .. n : B[k].want = f.blk[k].want
  BY <1>3, <1>4 DEF x
<1>6. f.msvc => \A k \in 1 .. n : B[k].stores = <<>> /\ B[k].term.op # "switch"
  BY <1>1, <1>3, <1>4 DEF WellFormed, FuncletBlocks, x
<1>7. WellFormed(h, z, W) /\ Kept(f, h) /\ Rest(f, h) /\ h.blk = B
  <2>1. n >= Len(f.blk) /\ z \in {0, 1} /\ \A k \in 1 .. Len(f.blk) : B[k].want = f.blk[k].want
    BY <1>1, <1>5
  <2> HIDE DEF h, n
  <2> QED
    BY <1>1, <1>2, <1>4, <1>5, <1>6, <2>1, ChangeBlocks
<1> QED
  BY <1>4, <1>7

(* A clause added to a landing pad.                                        *)
LEMMA ClauseOk ==
  ASSUME NEW z \in {0, 1}, NEW W, NEW f, WellFormed(f, z, W), NEW b \in 1 .. Len(f.blk),
         NEW class \in Classes
  PROVE  LET h == WithClause(f, b, class) IN
         /\ WellFormed(h, z, W) /\ Kept(f, h) /\ Rest(f, h) /\ Len(h.blk) = Len(f.blk)
<1> DEFINE n == Len(f.blk)
           h == WithClause(f, b, class)
           x == f.blk[b]
           y == [x EXCEPT !.pad = [x.pad EXCEPT !.clauses = Append(x.pad.clauses, class)]]
           B == [f.blk EXCEPT ![b] = y]
<1>1. n \in Nat /\ f.blk \in Seq(BlockSet(z, n, W)) /\ DOMAIN f.blk = 1 .. n
      /\ x \in BlockSet(z, n, W)
  BY Lengths
<1>2. h = WithBlocks(f, B)
  BY DEF WithBlocks, WithClause
<1> HIDE DEF x
<1>3. y \in BlockSet(z, n, W) /\ y.stores = x.stores /\ y.want = x.want /\ y.term = x.term
  <2> DEFINE p == [x.pad EXCEPT !.clauses = Append(x.pad.clauses, class)]
  <2>1. p \in PadSet
    <3>1. x.pad \in PadSet
      BY <1>1 DEF BlockSet
    <3>2. Append(x.pad.clauses, class) \in Seq(Classes)
      BY <3>1 DEF PadSet
    <3> QED
      BY <3>1, <3>2 DEF PadSet
  <2> HIDE DEF p
  <2>2. [x EXCEPT !.pad = p] \in BlockSet(z, n, W)
        /\ [x EXCEPT !.pad = p].stores = x.stores /\ [x EXCEPT !.pad = p].want = x.want
        /\ [x EXCEPT !.pad = p].term = x.term
    BY <1>1, <2>1, BlockPad
  <2> QED
    BY <2>2 DEF p
<1> HIDE DEF y
<1>4. /\ B \in Seq(BlockSet(z, n, W)) /\ Len(B) = n
      /\ \A k \in 1 .. n : B[k] = IF k = b THEN y ELSE f.blk[k]
  BY <1>1, <1>3, SeqUpdate
<1> HIDE DEF B
<1>5. \A k \in 1 .. n : B[k].want = f.blk[k].want
  BY <1>3, <1>4 DEF x
<1>6. f.msvc => \A k \in 1 .. n : B[k].stores = <<>> /\ B[k].term.op # "switch"
  BY <1>1, <1>3, <1>4 DEF WellFormed, FuncletBlocks, x
<1>7. WellFormed(h, z, W) /\ Kept(f, h) /\ Rest(f, h) /\ h.blk = B
  <2>1. n >= Len(f.blk) /\ z \in {0, 1} /\ \A k \in 1 .. Len(f.blk) : B[k].want = f.blk[k].want
    BY <1>1, <1>5
  <2> HIDE DEF h, n
  <2> QED
    BY <1>1, <1>2, <1>4, <1>5, <1>6, <2>1, ChangeBlocks
<1> QED
  BY <1>4, <1>7

(* A landing pad marked as a cleanup.                                      *)
LEMMA MarkedOk ==
  ASSUME NEW z \in {0, 1}, NEW W, NEW f, WellFormed(f, z, W), NEW b \in 1 .. Len(f.blk)
  PROVE  LET h == MarkedCleanup(f, b) IN
         /\ WellFormed(h, z, W) /\ Kept(f, h) /\ Rest(f, h) /\ Len(h.blk) = Len(f.blk)
<1> DEFINE n == Len(f.blk)
           h == MarkedCleanup(f, b)
           x == f.blk[b]
           y == [x EXCEPT !.pad = [x.pad EXCEPT !.cleanup = TRUE]]
           B == [f.blk EXCEPT ![b] = y]
<1>1. n \in Nat /\ f.blk \in Seq(BlockSet(z, n, W)) /\ DOMAIN f.blk = 1 .. n
      /\ x \in BlockSet(z, n, W)
  BY Lengths
<1>2. h = WithBlocks(f, B)
  BY DEF WithBlocks, MarkedCleanup
<1> HIDE DEF x
<1>3. y \in BlockSet(z, n, W) /\ y.stores = x.stores /\ y.want = x.want /\ y.term = x.term
  <2> DEFINE p == [x.pad EXCEPT !.cleanup = TRUE]
  <2>1. p \in PadSet
    <3>1. x.pad \in PadSet
      BY <1>1 DEF BlockSet
    <3> QED
      BY <3>1 DEF PadSet
  <2> HIDE DEF p
  <2>2. [x EXCEPT !.pad = p] \in BlockSet(z, n, W)
        /\ [x EXCEPT !.pad = p].stores = x.stores /\ [x EXCEPT !.pad = p].want = x.want
        /\ [x EXCEPT !.pad = p].term = x.term
    BY <1>1, <2>1, BlockPad
  <2> QED
    BY <2>2 DEF p
<1> HIDE DEF y
<1>4. /\ B \in Seq(BlockSet(z, n, W)) /\ Len(B) = n
      /\ \A k \in 1 .. n : B[k] = IF k = b THEN y ELSE f.blk[k]
  BY <1>1, <1>3, SeqUpdate
<1> HIDE DEF B
<1>5. \A k \in 1 .. n : B[k].want = f.blk[k].want
  BY <1>3, <1>4 DEF x
<1>6. f.msvc => \A k \in 1 .. n : B[k].stores = <<>> /\ B[k].term.op # "switch"
  BY <1>1, <1>3, <1>4 DEF WellFormed, FuncletBlocks, x
<1>7. WellFormed(h, z, W) /\ Kept(f, h) /\ Rest(f, h) /\ h.blk = B
  <2>1. n >= Len(f.blk) /\ z \in {0, 1} /\ \A k \in 1 .. Len(f.blk) : B[k].want = f.blk[k].want
    BY <1>1, <1>5
  <2> HIDE DEF h, n
  <2> QED
    BY <1>1, <1>2, <1>4, <1>5, <1>6, <2>1, ChangeBlocks
<1> QED
  BY <1>4, <1>7

(* Setting the ghost of one block changes the ghost of no other.           *)
LEMMA WantOk ==
  ASSUME NEW z \in {0, 1}, NEW W, NEW f, WellFormed(f, z, W), NEW b \in 1 .. Len(f.blk),
         NEW w \in W
  PROVE  LET h == Want(f, b, w) IN
         /\ WellFormed(h, z, W) /\ Rest(f, h) /\ Len(h.blk) = Len(f.blk)
         /\ \A c \in 1 .. Len(f.blk) : h.blk[c].want = IF c = b THEN w ELSE f.blk[c].want
<1> DEFINE n == Len(f.blk)
           h == Want(f, b, w)
           x == f.blk[b]
           y == [x EXCEPT !.want = w]
           B == [f.blk EXCEPT ![b] = y]
<1>1. n \in Nat /\ f.blk \in Seq(BlockSet(z, n, W)) /\ DOMAIN f.blk = 1 .. n
      /\ x \in BlockSet(z, n, W)
  BY Lengths
<1>2. h = WithBlocks(f, B)
  BY DEF WithBlocks, Want
<1> HIDE DEF x
<1>3. y \in BlockSet(z, n, W) /\ y.stores = x.stores /\ y.want = w /\ y.term = x.term
  BY <1>1, BlockWant
<1> HIDE DEF y
<1>4. /\ B \in Seq(BlockSet(z, n, W)) /\ Len(B) = n
      /\ \A k \in 1 .. n : B[k] = IF k = b THEN y ELSE f.blk[k]
  BY <1>1, <1>3, SeqUpdate
<1> HIDE DEF B
<1>6. f.msvc => \A k \in 1 .. n : B[k].stores = <<>> /\ B[k].term.op # "switch"
  BY <1>1, <1>3, <1>4 DEF WellFormed, FuncletBlocks, x
<1>7. WellFormed(h, z, W) /\ Rest(f, h) /\ h.blk = B
  <2>1. n >= Len(f.blk) /\ z \in {0, 1}
    BY <1>1
  <2> HIDE DEF h, n
  <2> QED
    BY <1>1, <1>2, <1>4, <1>6, <2>1, ReplaceBlocks
<1> QED
  BY <1>3, <1>4, <1>7

-----------------------------------------------------------------------------
(* Gotos that wait                                                         *)

(* A new block without a terminator and without a ghost.                   *)
LEMMA NewBlockOk ==
  ASSUME NEW z \in {0, 1}, NEW W, NEW f, WellFormed(f, z, W), NoWant \in W
  PROVE  LET h == NewBlock(f) IN
         /\ WellFormed(h, z, W) /\ Kept(f, h) /\ Rest(f, h)
         /\ Len(h.blk) = Len(f.blk) + 1 /\ LastBlock(h) = Len(f.blk) + 1
         /\ \A b \in 1 .. Len(f.blk) : h.blk[b] = f.blk[b]
         /\ h.blk[Len(f.blk) + 1].want = NoWant
<1> DEFINE n == Len(f.blk) + 1
           h == AddBlock(f, Block(NoTerm))
           t == NoTerm
<1>1. n \in Nat
  BY Lengths
<1>2. t \in TermSet(z, n) /\ t.op # "switch" /\ Block(t).want = NoWant
  BY <1>1, Terms, BlockNew
<1>3. h = AddBlock(f, Block(t)) /\ NewBlock(f) = h
  BY DEF NewBlock
<1> HIDE DEF t
<1>4. /\ WellFormed(h, z, W) /\ Kept(f, h) /\ Rest(f, h)
      /\ Len(h.blk) = Len(f.blk) + 1 /\ LastBlock(h) = Len(f.blk) + 1
      /\ \A b \in 1 .. Len(f.blk) : h.blk[b] = f.blk[b]
      /\ h.blk[Len(f.blk) + 1] = Block(t)
  BY <1>2, <1>3, AddBlockOk
<1> QED
  BY <1>2, <1>3, <1>4

(* What waits in the innermost scope replaced.                             *)
WithTop(f, q) == [f EXCEPT !.gotos[Len(f.gotos)] = q]
OnTop(f, h, q) ==
  h.gotos[Len(f.scopes) + 1] = q /\ \A k \in 1 .. Len(f.scopes) : h.gotos[k] = f.gotos[k]

(* The gotos of the innermost cursor replaced, those of the others kept.   *)
LEMMA TopGotos ==
  ASSUME NEW z \in {0, 1}, NEW W, NEW f, WellFormed(f, z, W),
         NEW q \in Seq(GotoSet(Len(f.blk))), NEW h, h = WithTop(f, q)
  PROVE  /\ WellFormed(h, z, W) /\ Carries(f, h) /\ Len(h.scopes) = Len(f.scopes)
         /\ h.blk = f.blk /\ OnTop(f, h, q)
<1> DEFINE n == Len(f.blk)
           c == Len(f.gotos)
           G == Put(f.gotos, c, q)
<1>1. /\ f.gotos \in Seq(Seq(GotoSet(n))) /\ c = Len(f.scopes) + 1 /\ Len(f.scopes) \in Nat
      /\ n \in Nat
  BY GotoFacts, Lengths
<1>2. c \in 1 .. Len(f.gotos)
  BY <1>1
<1>3. /\ G \in Seq(Seq(GotoSet(n))) /\ Len(G) = Len(f.gotos)
      /\ \A k \in 1 .. Len(f.gotos) : G[k] = IF k = c THEN q ELSE f.gotos[k]
  <2> DEFINE T == Seq(GotoSet(n))
             s == f.gotos
  <2>1. s \in Seq(T) /\ q \in T /\ c \in 1 .. Len(s) /\ G = Put(s, c, q)
    BY <1>1, <1>2
  <2> HIDE DEF T, G, s
  <2>2. /\ G \in Seq(T) /\ Len(G) = Len(s)
        /\ \A k \in 1 .. Len(s) : G[k] = IF k = c THEN q ELSE s[k]
    BY ONLY <2>1 DEF Put
  <2> QED
    BY <2>2 DEF T, s
<1>4. h = WithGotos(f, G)
  BY DEF WithTop, WithGotos, Put
<1> HIDE DEF G
<1>5. /\ WellFormed(h, z, W) /\ h.gotos = G /\ h.blk = f.blk /\ h.scopes = f.scopes
      /\ h.msvc = f.msvc /\ h.cur = f.cur /\ h.catches = f.catches /\ h.labels = f.labels
      /\ h.loops = f.loops /\ h.plain = f.plain
  BY <1>3, <1>4, PutGotos
<1>6. Carries(f, h)
  BY <1>1, <1>5 DEF Carries
<1>7. G[c] = q
  BY <1>2, <1>3
<1>8. \A k \in 1 .. Len(f.scopes) : G[k] = f.gotos[k]
  <2>1. \A k \in 1 .. Len(f.scopes) : k \in 1 .. Len(f.gotos) /\ k # c
    BY <1>1
  <2> QED
    BY <1>3, <2>1
<1> QED
  BY <1>1, <1>5, <1>6, <1>7, <1>8 DEF OnTop

(* Kept, with the insertion point kept, implies Carries.                   *)
LEMMA KeptCarries ==
  ASSUME NEW f, NEW h, Kept(f, h), h.cur = f.cur
  PROVE  Carries(f, h)
BY DEF Kept, Carries

Waiting(f, label) == [src |-> f.cur, tentative |-> Len(f.blk) + 1, label |-> label]

(* registerUnresolvedGoto: the goto waits in the innermost cursor, nothing *)
(* else changes.                                                           *)
LEMMA RegisterUnresolvedGotoOk ==
  ASSUME NEW W, NEW f, WellFormed(f, 1, W), NoWant \in W, NEW label \in Labels
  PROVE  LET h == RegisterUnresolvedGoto(f, label) IN
         /\ WellFormed(h, 1, W) /\ Carries(f, h) /\ Len(h.scopes) = Len(f.scopes)
         /\ \A k \in 1 .. Len(f.scopes) : h.gotos[k] = f.gotos[k]
         /\ Range(h.gotos[Len(f.scopes) + 1]) \subseteq
              Range(f.gotos[Len(f.scopes) + 1]) \cup {Waiting(f, label)}
<1> DEFINE f1 == NewBlock(f)
           t == Len(f.blk) + 1
           f2 == SetTerm(f1, f.cur, Br(t))
           c == Len(f.gotos)
           j == Waiting(f, label)
           w == f.gotos[c]
           q == Append(w, j)
           h == WithTop(f2, q)
<1>0. 1 \in {0, 1}
  OBVIOUS
<1>1. /\ WellFormed(f1, 1, W) /\ Kept(f, f1) /\ Rest(f, f1) /\ Len(f1.blk) = t
      /\ LastBlock(f1) = t
  BY <1>0, NewBlockOk
<1>2. /\ Len(f.blk) \in Nat /\ f.cur \in 1 .. Len(f.blk) /\ c = Len(f.scopes) + 1 /\ c \in Nat
      /\ Len(f.scopes) \in Nat /\ w \in Seq(GotoSet(Len(f.blk)))
  <2>1. /\ Len(f.blk) \in Nat /\ f.cur \in 1 .. Len(f.blk) /\ c = Len(f.scopes) + 1 /\ c \in Nat
        /\ Len(f.scopes) \in Nat
        /\ \A k \in 1 .. Len(f.scopes) + 1 : f.gotos[k] \in Seq(GotoSet(Len(f.blk)))
    BY <1>0, Lengths, GotoFacts
  <2>2. c \in 1 .. Len(f.scopes) + 1
    BY <2>1
  <2> QED
    BY <2>1, <2>2
<1>3. f2.gotos = f.gotos
  <2>1. f1.gotos = f.gotos
    BY <1>1 DEF Rest
  <2>2. f1 \in FunctionSet(1, Len(f1.blk), W)
    BY <1>1 DEF WellFormed
  <2> HIDE DEF f1
  <2> QED
    BY <2>1, <2>2 DEF SetTerm, FunctionSet
<1>p. RegisterUnresolvedGoto(f, label) = h
  <2>1. RegisterUnresolvedGoto(f, label) =
          [SetTerm(f1, f.cur, Br(LastBlock(f1))) EXCEPT !.gotos[Len(f.gotos)] =
             Append(@, [src |-> f.cur, tentative |-> LastBlock(f1), label |-> label])]
    BY DEF RegisterUnresolvedGoto
  <2>2. RegisterUnresolvedGoto(f, label) =
          [f2 EXCEPT !.gotos[c] = Append(f2.gotos[c], j)]
    BY <1>1, <2>1 DEF Waiting
  <2> HIDE DEF f2, c, j
  <2> QED
    BY <1>3, <2>2 DEF WithTop, c
<1>4. t \in 1 .. Len(f1.blk) /\ f.cur \in 1 .. Len(f1.blk)
  BY <1>1, <1>2
<1> HIDE DEF t, f1, c
<1>5. WellFormed(f2, 1, W) /\ Kept(f1, f2) /\ Rest(f1, f2) /\ Len(f2.blk) = t
  BY <1>0, <1>1, <1>4, BrOk
<1> HIDE DEF f2
<1>6. Kept(f, f2) /\ f2.cur = f.cur
  <2>1. Len(f.blk) \in Nat /\ Len(f1.blk) \in Nat /\ Len(f2.blk) \in Nat
    BY <1>1, <1>2, <1>5 DEF t
  <2> QED
    BY <1>1, <1>5, <2>1, KeptTrans DEF Rest
<1>7. Carries(f, f2)
  BY <1>6, KeptCarries
<1>8. q \in Seq(GotoSet(t)) /\ Range(q) \subseteq Range(w) \cup {j}
  <2>1. j \in GotoSet(t)
    BY <1>2 DEF Waiting, GotoSet, t
  <2>2. w \in Seq(GotoSet(t))
    <3>1. GotoSet(Len(f.blk)) \subseteq GotoSet(t)
      BY <1>2 DEF GotoSet, t
    <3> QED
      BY <1>2, <3>1, SeqMono
  <2> HIDE DEF w, j
  <2>3. q \in Seq(GotoSet(t)) /\ Len(q) = Len(w) + 1 /\ Len(w) \in Nat
        /\ (\A k \in 1 .. Len(w) : q[k] = w[k]) /\ q[Len(w) + 1] = j
    BY <2>1, <2>2, SeqAppend
  <2>4. DOMAIN q = 1 .. Len(w) + 1 /\ DOMAIN w = 1 .. Len(w)
    BY <2>2, <2>3
  <2> HIDE DEF q
  <2>5. ASSUME NEW k \in DOMAIN q PROVE q[k] \in Range(w) \cup {j}
    <3>1. k \in 1 .. Len(w) \/ k = Len(w) + 1
      BY <2>3, <2>4
    <3> QED
      BY <2>3, <2>4, <3>1 DEF Range
  <2> QED
    BY <2>3, <2>5 DEF Range
<1> HIDE DEF q, h, w, j
<1>9. /\ WellFormed(h, 1, W) /\ Carries(f2, h) /\ Len(h.scopes) = Len(f2.scopes)
      /\ h.blk = f2.blk /\ OnTop(f2, h, q)
  <2>1. q \in Seq(GotoSet(Len(f2.blk))) /\ h = WithTop(f2, q)
    BY <1>3, <1>5, <1>8 DEF c, h
  <2> QED
    BY <1>0, <1>5, <2>1, TopGotos
<1>10. Carries(f, h)
  <2>1. Len(f.blk) \in Nat /\ Len(f2.blk) \in Nat /\ Len(h.blk) \in Nat
    BY <1>2, <1>5, <1>9 DEF t
  <2> QED
    BY <1>7, <1>9, <2>1, CarriesTrans
<1>11. Len(f2.scopes) = Len(f.scopes)
  BY <1>6 DEF Kept
<1> QED
  BY <1>p, <1>2, <1>3, <1>8, <1>9, <1>10, <1>11 DEF w, j, OnTop, c

FilterOp(c, a, j) == IF j.label # c.label THEN Append(a, j) ELSE a
FilterInv(c, k, a) == a \in Seq(c.T) /\ Range(a) \subseteq {j \in Range(c.w) : j.label # c.label}
FilterFold == INSTANCE FoldFacts WITH Op <- FilterOp, Inv <- FilterInv
Others(w, label) == Filter(w, LAMBDA j : j.label # label)

(* The elements of a sequence with one more.                               *)
LEMMA RangeAppend ==
  ASSUME NEW T, NEW s \in Seq(T), NEW x \in T
  PROVE  Range(Append(s, x)) = Range(s) \cup {x}
<1> DEFINE q == Append(s, x)
<1>1. /\ q \in Seq(T) /\ Len(q) = Len(s) + 1 /\ Len(s) \in Nat
      /\ (\A k \in 1 .. Len(s) : q[k] = s[k]) /\ q[Len(s) + 1] = x
  BY SeqAppend
<1>2. DOMAIN q = 1 .. Len(s) + 1 /\ DOMAIN s = 1 .. Len(s)
  BY <1>1
<1> HIDE DEF q
<1>3. ASSUME NEW k \in DOMAIN q PROVE q[k] \in Range(s) \cup {x}
  <2>1. k \in 1 .. Len(s) \/ k = Len(s) + 1
    BY <1>1, <1>2
  <2> QED
    BY <1>1, <1>2, <2>1 DEF Range
<1>4. ASSUME NEW y \in Range(s) \cup {x} PROVE y \in Range(q)
  <2>1. CASE y = x
    <3>1. Len(s) + 1 \in DOMAIN q
      BY <1>1, <1>2
    <3> QED
      BY <1>1, <2>1, <3>1 DEF Range
  <2>2. CASE y \in Range(s)
    <3>1. PICK k \in DOMAIN s : y = s[k]
      BY <2>2 DEF Range
    <3>2. k \in DOMAIN q /\ q[k] = y
      BY <1>1, <1>2, <3>1
    <3> QED
      BY <3>2 DEF Range
  <2> QED
    BY <2>1, <2>2
<1>5. Range(q) \subseteq Range(s) \cup {x}
  BY <1>3 DEF Range
<1> QED
  BY <1>4, <1>5 DEF q

(* What is left of the waiting gotos has another label.                    *)
LEMMA OthersOk ==
  ASSUME NEW T, NEW w \in Seq(T), NEW label
  PROVE  /\ Others(w, label) \in Seq(T)
         /\ Range(Others(w, label)) \subseteq {j \in Range(w) : j.label # label}
<1> DEFINE c == [T |-> T, w |-> w, label |-> label]
           nil == <<>>
           h == Others(w, label)
<1>0. c.T = T /\ c.w = w /\ c.label = label
  OBVIOUS
<1>1. h = FilterFold!Folding(c, nil, w)
  BY DEF Others, Filter, FilterFold!Folding, FilterOp, FoldLeft, MapThenFoldSet, FilterFold!MapThenFoldSet, Max, FilterFold!Largest
<1>2. nil \in Seq(T) /\ Range(nil) = {}
  BY DEF Range
<1> HIDE DEF c, nil, h
<1>3. FilterInv(c, 0, nil)
  BY <1>0, <1>2 DEF FilterInv
<1>4. ASSUME NEW k \in 1 .. Len(w), NEW a, FilterInv(c, k - 1, a)
      PROVE  FilterInv(c, k, FilterOp(c, a, w[k]))
  <2> DEFINE j == w[k]
  <2>1. j \in T /\ j \in Range(w)
    BY DEF Range
  <2>2. a \in Seq(T) /\ Range(a) \subseteq {x \in Range(w) : x.label # label}
    BY <1>0, <1>4 DEF FilterInv
  <2> HIDE DEF j
  <2>3. CASE j.label # label
    <3>1. Append(a, j) \in Seq(T) /\ Range(Append(a, j)) = Range(a) \cup {j}
      BY <2>1, <2>2, RangeAppend, SeqAppend
    <3>2. FilterOp(c, a, j) = Append(a, j)
      BY <1>0, <2>3 DEF FilterOp
    <3> QED
      BY <1>0, <2>1, <2>2, <2>3, <3>1, <3>2 DEF FilterInv, j
  <2>4. CASE j.label = label
    <3>1. FilterOp(c, a, j) = a
      BY <1>0, <2>4 DEF FilterOp
    <3> QED
      BY <1>0, <2>2, <3>1 DEF FilterInv, j
  <2> QED
    BY <2>3, <2>4
<1>5. FilterInv(c, Len(w), FilterFold!Folding(c, nil, w))
  BY <1>3, <1>4, WellOrdered, FilterFold!Folded DEF FilterFold!LeastNumbers
<1> QED
  BY <1>0, <1>1, <1>5 DEF FilterInv, h

(* tryResolveGotos: only the innermost cursor's gotos for the label are    *)
(* taken out.                                                              *)
LEMMA TryResolveGotosOk ==
  ASSUME NEW W, NEW f, WellFormed(f, 1, W), NEW label, NEW target \in 1 .. Len(f.blk)
  PROVE  LET h == TryResolveGotos(f, label, target) IN
         /\ WellFormed(h, 1, W) /\ Carries(f, h) /\ Len(h.scopes) = Len(f.scopes)
         /\ Len(h.blk) = Len(f.blk)
         /\ OnTop(f, h, Others(f.gotos[Len(f.scopes) + 1], label))
<1> DEFINE c == Len(f.gotos)
           old == {j.tentative : j \in {x \in Range(f.gotos[c]) : x.label = label}}
           f1 == ReplaceAllUsesWith(f, old, target)
           q == Others(f1.gotos[c], label)
           h == WithTop(f1, q)
<1>0. 1 \in {0, 1} /\ 1 <= 1
  OBVIOUS
<1>1. WellFormed(f1, 1, W) /\ Kept(f, f1) /\ Rest(f, f1) /\ Len(f1.blk) = Len(f.blk)
  <2> HIDE DEF old
  <2> QED
    BY <1>0, ReplaceAllUsesWithOk
<1>2. TryResolveGotos(f, label, target) = h
  <2>1. TryResolveGotos(f, label, target) = [f1 EXCEPT !.gotos[c] = Others(@, label)]
    BY DEF TryResolveGotos, Others
  <2>2. c = Len(f1.gotos)
    BY <1>1 DEF Rest
  <2> HIDE DEF f1, c
  <2> QED
    BY <2>1, <2>2 DEF WithTop
<1> HIDE DEF f1
<1>3. c = Len(f.scopes) + 1 /\ f1.gotos[c] = f.gotos[Len(f.scopes) + 1]
      /\ f1.gotos[c] \in Seq(GotoSet(Len(f.blk))) /\ Len(f.blk) \in Nat
  <2>1. /\ c = Len(f.scopes) + 1 /\ Len(f.scopes) \in Nat /\ f1.gotos = f.gotos
        /\ \A k \in 1 .. Len(f.scopes) + 1 : f.gotos[k] \in Seq(GotoSet(Len(f.blk)))
    BY <1>0, <1>1, GotoFacts, Lengths DEF Rest
  <2>2. c \in 1 .. Len(f.scopes) + 1
    BY <2>1
  <2>3. Len(f.blk) \in Nat
    BY <1>0, Lengths
  <2> QED
    BY <2>1, <2>2, <2>3
<1> HIDE DEF c
<1>4. q \in Seq(GotoSet(Len(f1.blk)))
  BY <1>1, <1>3, OthersOk
<1>5. h = WithTop(f1, q)
  OBVIOUS
<1> HIDE DEF q, h
<1>6. /\ WellFormed(h, 1, W) /\ Carries(f1, h) /\ Len(h.scopes) = Len(f1.scopes)
      /\ h.blk = f1.blk /\ OnTop(f1, h, q)
  BY <1>0, <1>1, <1>4, <1>5, TopGotos
<1>7. Carries(f, f1)
  BY <1>1, KeptCarries DEF Rest
<1>8. Carries(f, h)
  BY <1>1, <1>3, <1>6, <1>7, CarriesTrans
<1>9. OnTop(f, h, q) /\ Len(f1.scopes) = Len(f.scopes)
  BY <1>1, <1>6 DEF OnTop, Rest
<1> QED
  BY <1>1, <1>2, <1>3, <1>6, <1>8, <1>9 DEF q

-----------------------------------------------------------------------------
(* Landing pads                                                            *)

(* Emitting code that ends in another block.                               *)
Grows(f, h, W) == WellFormed(h, 1, W) /\ Kept(f, h)

(* Growing twice is growing.                                               *)
LEMMA GrowsTrans ==
  ASSUME NEW W, NEW f, WellFormed(f, 1, W), NEW h, Grows(f, h, W), NEW e, Grows(h, e, W)
  PROVE  Grows(f, e, W)
<1>0. 1 \in {0, 1}
  OBVIOUS
<1>1. Len(f.blk) \in Nat /\ Len(h.blk) \in Nat /\ Len(e.blk) \in Nat
  BY <1>0, Lengths DEF Grows
<1> QED
  BY <1>1, KeptTrans DEF Grows

(* What growing leaves of a state, in the form the folds ask for.          *)
LEMMA GrowsFacts ==
  ASSUME NEW W, NEW f, WellFormed(f, 1, W), NEW h, Grows(f, h, W)
  PROVE  /\ WellFormed(h, 1, W) /\ h.msvc = f.msvc /\ Len(h.scopes) = Len(f.scopes)
         /\ h.catches = f.catches
         /\ Len(f.blk) \in Nat /\ Len(h.blk) \in Nat /\ Len(h.blk) >= Len(f.blk)
         /\ h.cur \in 1 .. Len(h.blk) /\ 1 .. Len(f.blk) \subseteq 1 .. Len(h.blk)
         /\ 0 .. Len(f.blk) \subseteq 0 .. Len(h.blk)
<1>0. 1 \in {0, 1}
  OBVIOUS
<1>1. Len(f.blk) \in Nat /\ Len(h.blk) \in Nat /\ h.cur \in 1 .. Len(h.blk)
  BY <1>0, Lengths DEF Grows
<1> QED
  BY <1>1 DEF Grows, Kept

(* The current block is terminated, and a new one becomes current.         *)
LEMMA AddCatchOk ==
  ASSUME NEW W, NEW f, WellFormed(f, 1, W), NoWant \in W, NEW pad \in 1 .. Len(f.blk),
         NEW cb \in ClauseSet(Len(f.blk))
  PROVE  Grows(f, AddCatch(f, pad, cb), W)
<1> DEFINE n == Len(f.blk)
           m == n + 1
           f1 == NewBlock(f)
           t == Term("match", <<cb.class>>, <<cb.body, m>>)
           f2 == SetTerm(f1, f.cur, t)
           cls == cb.class
           f3 == WithClause(f2, pad, cls)
           h == WithCur(f3, m)
<1>0. 1 \in {0, 1}
  OBVIOUS
<1>1. /\ WellFormed(f1, 1, W) /\ Kept(f, f1) /\ Rest(f, f1) /\ Len(f1.blk) = m
      /\ LastBlock(f1) = m
  BY <1>0, NewBlockOk
<1>2. n \in Nat /\ f.cur \in 1 .. n /\ m \in 1 .. m /\ pad \in 1 .. m /\ f.cur \in 1 .. m
  BY <1>0, Lengths
<1>3. cls \in Classes /\ cb.body \in 1 .. n
  BY DEF ClauseSet
<1>4. t \in TermSet(1, m) /\ t.op = "match"
  <2>1. <<cb.class>> \in Seq(Nat \cup Classes) /\ <<cb.body, m>> \in Seq(1 .. m) /\ "match" \in Ops
    BY <1>2, <1>3 DEF Ops
  <2>2. m \in Nat
    BY <1>2
  <2> QED
    BY <1>0, <2>1, <2>2, Terms
<1>5. AddCatch(f, pad, cb) = h
  <2>1. AddCatch(f, pad, cb) = [f2 EXCEPT !.blk[pad].pad.clauses = Append(@, cls), !.cur = m]
    BY <1>1 DEF AddCatch
  <2> HIDE DEF f2, cls, m
  <2> QED
    BY <2>1 DEF WithClause, WithCur
<1> HIDE DEF n, m, f1, t
<1>6. WellFormed(f2, 1, W) /\ Kept(f1, f2) /\ Len(f2.blk) = m
  <2>1. t \in TermSet(1, Len(f1.blk)) /\ f.cur \in 1 .. Len(f1.blk) /\ (f1.msvc => t.op # "switch")
    BY <1>1, <1>2, <1>4
  <2> QED
    BY <1>0, <1>1, <2>1, SetTermOk
<1> HIDE DEF f2, cls
<1>7. WellFormed(f3, 1, W) /\ Kept(f2, f3) /\ Len(f3.blk) = m
  <2>1. pad \in 1 .. Len(f2.blk)
    BY <1>2, <1>6
  <2> QED
    BY <1>0, <1>3, <1>6, <2>1, ClauseOk
<1> HIDE DEF f3
<1>8. h = WithCur(f3, m) /\ m \in 1 .. Len(f3.blk)
  BY <1>2, <1>7
<1> HIDE DEF h
<1>9. WellFormed(h, 1, W) /\ Kept(f3, h)
  BY <1>0, <1>7, <1>8, SetCurOk
<1>10. Grows(f, f1, W) /\ Grows(f1, f2, W) /\ Grows(f2, f3, W) /\ Grows(f3, h, W)
  BY <1>1, <1>6, <1>7, <1>9 DEF Grows
<1>11. Grows(f, f2, W)
  BY <1>1, <1>10, GrowsTrans
<1>12. Grows(f, f3, W)
  BY <1>10, <1>11, GrowsTrans
<1>13. Grows(f, h, W)
  BY <1>10, <1>12, GrowsTrans
<1> QED
  BY <1>5, <1>13

(* emitLandingPad: the cleanups in front of a try statement's clauses.     *)
LEMMA CleanupsBeforeOk ==
  ASSUME NEW W, NEW f, WellFormed(f, 1, W), NoWant \in W, NEW pad \in 1 .. Len(f.blk),
         NEW last \in 0 .. Len(f.scopes), NEW new \in 0 .. last
  PROVE  Grows(f, CleanupsBefore(f, pad, last, new), W)
<1> DEFINE f0 == MarkedCleanup(f, pad)
           f1 == NewBlock(f0)
           m == LastBlock(f1)
           f2 == RunCleanups(f1, last, new, m)
           h == WithCur(f2, m)
<1>0. 1 \in {0, 1}
  OBVIOUS
<1>1. CleanupsBefore(f, pad, last, new) = h
  BY DEF CleanupsBefore, MarkedCleanup, WithCur
<1>2. WellFormed(f0, 1, W) /\ Kept(f, f0) /\ Len(f0.blk) = Len(f.blk)
  BY <1>0, MarkedOk
<1> HIDE DEF f0
<1>3. /\ WellFormed(f1, 1, W) /\ Kept(f0, f1) /\ Len(f1.blk) = Len(f0.blk) + 1
      /\ m = Len(f0.blk) + 1
  BY <1>0, <1>2, NewBlockOk
<1>4. m \in 1 .. Len(f1.blk)
  BY <1>0, <1>2, <1>3, Lengths
<1>5. Len(f1.scopes) = Len(f.scopes)
  BY <1>2, <1>3 DEF Kept
<1> HIDE DEF f1, m
<1>6. Emits(f1, f2, 1, W)
  BY <1>0, <1>3, <1>4, <1>5, RunCleanupsOk
<1> HIDE DEF f2
<1>7. WellFormed(f2, 1, W) /\ m \in 1 .. Len(f2.blk)
  BY <1>0, <1>3, <1>4, <1>6, EmitsFacts
<1>8. h = WithCur(f2, m)
  OBVIOUS
<1> HIDE DEF h
<1>9. WellFormed(h, 1, W) /\ Kept(f2, h)
  BY <1>0, <1>7, <1>8, SetCurOk
<1>10. Grows(f, f0, W) /\ Grows(f0, f1, W) /\ Grows(f1, f2, W) /\ Grows(f2, h, W)
  BY <1>2, <1>3, <1>6, <1>9 DEF Grows, Emits
<1>11. Grows(f, f1, W)
  BY <1>2, <1>10, GrowsTrans
<1>12. Grows(f, f2, W)
  BY <1>10, <1>11, GrowsTrans
<1>13. Grows(f, h, W)
  BY <1>10, <1>12, GrowsTrans
<1> QED
  BY <1>1, <1>13

ClauseOp(c, a, cb) == AddCatch(a, c.pad, cb)
ClauseInv(c, k, a) == Grows(c.f, a, c.W)
ClauseFold == INSTANCE FoldFacts WITH Op <- ClauseOp, Inv <- ClauseInv
WithClauses(f, pad, blocks) == FoldLeft(LAMBDA x, cb : AddCatch(x, pad, cb), f, blocks)

(* A state grows to itself.                                                *)
LEMMA GrowsRefl ==
  ASSUME NEW W, NEW f, WellFormed(f, 1, W)
  PROVE  Grows(f, f, W)
<1>1. Len(f.blk) \in Nat /\ 1 \in {0, 1}
  BY Lengths
<1> QED
  BY <1>1 DEF Grows, Kept

(* emitLandingPad: the clauses of one try statement, by induction over the *)
(* fold.                                                                   *)
LEMMA WithClausesOk ==
  ASSUME NEW W, NEW f, WellFormed(f, 1, W), NoWant \in W, NEW pad \in 1 .. Len(f.blk),
         NEW blocks \in Seq(ClauseSet(Len(f.blk)))
  PROVE  Grows(f, WithClauses(f, pad, blocks), W)
<1> DEFINE c == [f |-> f, pad |-> pad, W |-> W]
           h == WithClauses(f, pad, blocks)
<1>0. c.f = f /\ c.pad = pad /\ c.W = W
  OBVIOUS
<1>1. h = ClauseFold!Folding(c, f, blocks)
  BY DEF WithClauses, ClauseFold!Folding, ClauseOp, FoldLeft, MapThenFoldSet,
         ClauseFold!MapThenFoldSet, Max, ClauseFold!Largest
<1> HIDE DEF c, h
<1>2. ClauseInv(c, 0, f)
  BY <1>0, GrowsRefl DEF ClauseInv
<1>3. ASSUME NEW k \in 1 .. Len(blocks), NEW a, ClauseInv(c, k - 1, a)
      PROVE  ClauseInv(c, k, ClauseOp(c, a, blocks[k]))
  <2> DEFINE cb == blocks[k]
             e == AddCatch(a, pad, cb)
  <2>1. cb \in ClauseSet(Len(f.blk))
    OBVIOUS
  <2>2. Grows(f, a, W)
    BY <1>0, <1>3 DEF ClauseInv
  <2>3. WellFormed(a, 1, W) /\ 1 .. Len(f.blk) \subseteq 1 .. Len(a.blk)
    BY <2>2, GrowsFacts
  <2> HIDE DEF cb
  <2>4. cb \in ClauseSet(Len(a.blk)) /\ pad \in 1 .. Len(a.blk)
    BY <2>1, <2>3 DEF ClauseSet
  <2>5. Grows(a, e, W)
    BY <2>3, <2>4, AddCatchOk
  <2> HIDE DEF e
  <2>6. Grows(f, e, W)
    BY <2>2, <2>5, GrowsTrans
  <2> QED
    BY <1>0, <2>6 DEF ClauseInv, ClauseOp, e, cb
<1>4. ClauseInv(c, Len(blocks), ClauseFold!Folding(c, f, blocks))
  BY <1>2, <1>3, WellOrdered, ClauseFold!Folded DEF ClauseFold!LeastNumbers
<1> QED
  BY <1>0, <1>1, <1>4 DEF ClauseInv, h

(* The try statements around a landing pad are below the scopes in use.    *)
(* (With funclets the catchswitch block is a scope of its own.)            *)
CatchesWithin(f) ==
  \A i \in 1 .. Len(f.catches) :
    f.catches[i].scope + (IF f.msvc THEN 1 ELSE 0) <= Len(f.scopes)

TryOp(c, a, tc) == AddTryCatch(a, c.pad, tc)
TryInv(c, k, a) == Grows(c.f, a.f, c.W) /\ a.last \in 0 .. Len(c.f.scopes)
TryFold == INSTANCE FoldFacts WITH Op <- TryOp, Inv <- TryInv
WithTries(f, pad, last, catches) ==
  FoldLeft(LAMBDA x, tc : AddTryCatch(x, pad, tc), [f |-> f, last |-> last], catches)

(* emitLandingPad: one try statement of the chain.                         *)
LEMMA AddTryCatchOk ==
  ASSUME NEW W, NEW f, WellFormed(f, 1, W), NoWant \in W, NEW pad \in 1 .. Len(f.blk),
         NEW a, a.f = f, a.last \in 0 .. Len(f.scopes),
         NEW tc \in CatchSet(Len(f.blk)), tc.scope \in 0 .. Len(f.scopes)
  PROVE  LET h == AddTryCatch(a, pad, tc) IN
         Grows(f, h.f, W) /\ h.last \in 0 .. Len(f.scopes)
<1> DEFINE last == a.last
           new == tc.scope
           f1 == IF last > new THEN CleanupsBefore(f, pad, last, new) ELSE f
           blocks == tc.blocks
           e == WithClauses(f1, pad, blocks)
<1>1. AddTryCatch(a, pad, tc) = [f |-> e, last |-> new]
  BY DEF AddTryCatch, WithClauses
<1>2. blocks \in Seq(ClauseSet(Len(f.blk))) /\ new \in 0 .. Len(f.scopes)
      /\ last \in 0 .. Len(f.scopes) /\ Len(f.scopes) \in Nat
  <2>1. 1 \in {0, 1}
    OBVIOUS
  <2> QED
    BY <2>1, Lengths DEF CatchSet
<1> HIDE DEF last, new, blocks
<1>3. Grows(f, f1, W)
  <2>1. CASE last > new
    <3>1. new \in 0 .. last
      BY <1>2, <2>1
    <3> QED
      BY <1>2, <2>1, <3>1, CleanupsBeforeOk
  <2>2. CASE ~(last > new)
    BY <2>2, GrowsRefl
  <2> QED
    BY <2>1, <2>2
<1> HIDE DEF f1
<1>4. WellFormed(f1, 1, W) /\ 1 .. Len(f.blk) \subseteq 1 .. Len(f1.blk)
  BY <1>3, GrowsFacts
<1>5. blocks \in Seq(ClauseSet(Len(f1.blk)))
  <2>1. ClauseSet(Len(f.blk)) \subseteq ClauseSet(Len(f1.blk))
    BY <1>4 DEF ClauseSet
  <2> QED
    BY <1>2, <2>1, SeqMono
<1>6. Grows(f1, e, W)
  <2>1. pad \in 1 .. Len(f1.blk)
    BY <1>4
  <2> QED
    BY <1>4, <1>5, <2>1, WithClausesOk
<1> HIDE DEF e
<1>7. Grows(f, e, W)
  BY <1>3, <1>6, GrowsTrans
<1> QED
  BY <1>1, <1>2, <1>7

(* emitLandingPad: all try statements, innermost first, by induction over  *)
(* the fold.                                                               *)
LEMMA WithTriesOk ==
  ASSUME NEW W, NEW f, WellFormed(f, 1, W), NoWant \in W, NEW pad \in 1 .. Len(f.blk),
         NEW last \in 0 .. Len(f.scopes), NEW seq \in Seq(CatchSet(Len(f.blk))),
         \A k \in 1 .. Len(seq) : seq[k].scope \in 0 .. Len(f.scopes)
  PROVE  LET h == WithTries(f, pad, last, seq) IN
         Grows(f, h.f, W) /\ h.last \in 0 .. Len(f.scopes)
<1> DEFINE c == [f |-> f, pad |-> pad, W |-> W]
           base == [f |-> f, last |-> last]
           h == WithTries(f, pad, last, seq)
<1>0. c.f = f /\ c.pad = pad /\ c.W = W
  OBVIOUS
<1>1. h = TryFold!Folding(c, base, seq)
  <2>1. h = FoldLeft(LAMBDA x, tc : AddTryCatch(x, pad, tc), base, seq)
    BY DEF WithTries
  <2> HIDE DEF base, h
  <2> QED
    BY <2>1 DEF TryFold!Folding, TryOp, FoldLeft, MapThenFoldSet,
         TryFold!MapThenFoldSet, Max, TryFold!Largest
<1>2. base.f = f /\ base.last = last
  OBVIOUS
<1> HIDE DEF c, h, base
<1>3. TryInv(c, 0, base)
  BY <1>0, <1>2, GrowsRefl DEF TryInv
<1>4. ASSUME NEW k \in 1 .. Len(seq), NEW a, TryInv(c, k - 1, a)
      PROVE  TryInv(c, k, TryOp(c, a, seq[k]))
  <2> DEFINE tc == seq[k]
             e == AddTryCatch(a, pad, tc)
             x == a.f
  <2>1. tc \in CatchSet(Len(f.blk)) /\ tc.scope \in 0 .. Len(f.scopes)
    OBVIOUS
  <2>2. Grows(f, x, W) /\ a.last \in 0 .. Len(f.scopes)
    BY <1>0, <1>4 DEF TryInv
  <2> HIDE DEF x, tc
  <2>3. WellFormed(x, 1, W) /\ 1 .. Len(f.blk) \subseteq 1 .. Len(x.blk)
        /\ Len(x.scopes) = Len(f.scopes)
    BY <2>2, GrowsFacts
  <2>4. tc \in CatchSet(Len(x.blk)) /\ pad \in 1 .. Len(x.blk)
    <3>1. ClauseSet(Len(f.blk)) \subseteq ClauseSet(Len(x.blk))
      BY <2>3 DEF ClauseSet
    <3>2. Seq(ClauseSet(Len(f.blk))) \subseteq Seq(ClauseSet(Len(x.blk)))
      BY <3>1, SeqMono
    <3> QED
      BY <2>1, <2>3, <3>2 DEF CatchSet
  <2>5. a.f = x /\ a.last \in 0 .. Len(x.scopes) /\ tc.scope \in 0 .. Len(x.scopes)
    BY <2>1, <2>2, <2>3 DEF x
  <2>6. Grows(x, e.f, W) /\ e.last \in 0 .. Len(x.scopes)
    BY <2>3, <2>4, <2>5, AddTryCatchOk
  <2> HIDE DEF e
  <2>7. Grows(f, e.f, W)
    BY <2>2, <2>6, GrowsTrans
  <2>8. TryOp(c, a, seq[k]) = e
    BY <1>0 DEF TryOp, e, tc
  <2> QED
    BY <1>0, <2>3, <2>6, <2>7, <2>8 DEF TryInv
<1>5. TryInv(c, Len(seq), TryFold!Folding(c, base, seq))
  BY <1>3, <1>4, WellOrdered, TryFold!Folded DEF TryFold!LeastNumbers
<1> QED
  BY <1>0, <1>1, <1>5 DEF TryInv, h

(* getOrCreateResumeUnwindBlock: afterwards there is a resume block.       *)
LEMMA GetOrCreateResumeUnwindBlockOk ==
  ASSUME NEW W, NEW f, WellFormed(f, 1, W), NoWant \in W
  PROVE  LET h == GetOrCreateResumeUnwindBlock(f) IN
         Grows(f, h, W) /\ h.resume \in 1 .. Len(h.blk) /\ h.cur = f.cur
<1> DEFINE t == Term("resume", <<>>, <<>>)
           f1 == AddBlock(f, Block(t))
           m == LastBlock(f1)
           h == WithResume(f1, m)
<1>0. 1 \in {0, 1} /\ Len(f.blk) \in Nat /\ f.resume \in 0 .. Len(f.blk)
  <2>1. 1 \in {0, 1}
    OBVIOUS
  <2> QED
    BY <2>1, Lengths
<1>1. CASE f.resume # 0
  BY <1>0, <1>1, GrowsRefl DEF GetOrCreateResumeUnwindBlock
<1>2. CASE f.resume = 0
  <2>1. GetOrCreateResumeUnwindBlock(f) = h
    BY <1>2 DEF GetOrCreateResumeUnwindBlock, WithResume
  <2>2. t \in TermSet(1, Len(f.blk) + 1) /\ t.op # "switch"
    <3>1. <<>> \in Seq(Nat \cup Classes) /\ <<>> \in Seq(1 .. Len(f.blk) + 1) /\ "resume" \in Ops
      BY DEF Ops
    <3>2. Len(f.blk) + 1 \in Nat
      BY <1>0
    <3> QED
      BY <1>0, <3>1, <3>2, Terms
  <2> HIDE DEF t
  <2>3. /\ WellFormed(f1, 1, W) /\ Kept(f, f1) /\ Rest(f, f1) /\ Len(f1.blk) = Len(f.blk) + 1
        /\ m = Len(f.blk) + 1
    BY <1>0, <2>2, AddBlockOk
  <2>4. m \in 0 .. Len(f1.blk) /\ m \in 1 .. Len(f1.blk) /\ h = WithResume(f1, m)
    BY <1>0, <2>3
  <2> HIDE DEF f1, m, h
  <2>5. /\ WellFormed(h, 1, W) /\ h.resume = m /\ h.blk = f1.blk /\ h.scopes = f1.scopes
        /\ h.msvc = f1.msvc /\ h.cur = f1.cur /\ h.catches = f1.catches /\ h.labels = f1.labels
        /\ h.loops = f1.loops /\ h.plain = f1.plain /\ h.gotos = f1.gotos
    BY <1>0, <2>3, <2>4, PutResume
  <2>6. Kept(f, h) /\ h.cur = f.cur
    BY <2>3, <2>5 DEF Kept, Rest
  <2> QED
    BY <2>1, <2>4, <2>5, <2>6 DEF Grows
<1> QED
  BY <1>1, <1>2

(* emitLandingPad: what follows the last clause.                           *)
LEMMA ResumeUnwindOk ==
  ASSUME NEW W, NEW f, WellFormed(f, 1, W), NEW pad \in 1 .. Len(f.blk),
         NEW last \in 0 .. Len(f.scopes), f.resume \in 1 .. Len(f.blk)
  PROVE  Grows(f, ResumeUnwind(f, pad, last), W)
<1> DEFINE to == f.resume
           f0 == MarkedCleanup(f, pad)
           X1 == RunCleanups(f0, last, 0, to)
           X2 == ReplaceAllUsesWith(f, {f.cur}, to)
           X3 == SetTerm(f, f.cur, Br(to))
<1>0. 1 \in {0, 1} /\ Len(f.scopes) \in Nat /\ f.cur \in 1 .. Len(f.blk)
  <2>1. 1 \in {0, 1}
    OBVIOUS
  <2> QED
    BY <2>1, Lengths
<1>1. CASE last > 0
  <2>1. ResumeUnwind(f, pad, last) = X1
    BY <1>0, <1>1 DEF ResumeUnwind, MarkedCleanup
  <2>2. WellFormed(f0, 1, W) /\ Kept(f, f0) /\ Rest(f, f0) /\ Len(f0.blk) = Len(f.blk)
    BY <1>0, MarkedOk
  <2>3. last \in 0 .. Len(f0.scopes) /\ 0 \in 0 .. last /\ to \in 1 .. Len(f0.blk)
    BY <1>0, <2>2 DEF Rest
  <2> HIDE DEF f0, to
  <2>4. Emits(f0, X1, 1, W)
    <3> DEFINE nil == 0
    <3>1. nil \in 0 .. last /\ X1 = RunCleanups(f0, last, nil, to)
      BY <2>3
    <3> HIDE DEF nil, X1
    <3> QED
      BY <1>0, <2>2, <2>3, <3>1, RunCleanupsOk
  <2> HIDE DEF X1
  <2>5. Grows(f, f0, W) /\ Grows(f0, X1, W)
    BY <2>2, <2>4 DEF Grows, Emits
  <2>6. Grows(f, X1, W)
    BY <2>5, GrowsTrans
  <2> QED
    BY <2>1, <2>6
<1>2. CASE last = 0 /\ f.catches # <<>>
  <2>1. ResumeUnwind(f, pad, last) = X2
    BY <1>2 DEF ResumeUnwind
  <2>2. WellFormed(X2, 1, W) /\ Kept(f, X2)
    <3> DEFINE old == {f.cur}
    <3>1. 1 <= 1 /\ to \in 1 .. Len(f.blk)
      OBVIOUS
    <3> HIDE DEF old, to
    <3>2. LET d == ReplaceAllUsesWith(f, old, to) IN WellFormed(d, 1, W) /\ Kept(f, d)
      BY <1>0, <3>1, ReplaceAllUsesWithOk
    <3> QED
      BY <3>2 DEF old
  <2> QED
    BY <2>1, <2>2 DEF Grows
<1>3. CASE last = 0 /\ f.catches = <<>>
  <2>1. ResumeUnwind(f, pad, last) = X3
    BY <1>3 DEF ResumeUnwind
  <2>2. WellFormed(X3, 1, W) /\ Kept(f, X3)
    BY <1>0, BrOk
  <2> QED
    BY <2>1, <2>2 DEF Grows
<1> QED
  BY <1>1, <1>2, <1>3

(* The reverse of a sequence.                                              *)
LEMMA ReverseOk ==
  ASSUME NEW T, NEW s \in Seq(T)
  PROVE  /\ Reverse(s) \in Seq(T) /\ Len(Reverse(s)) = Len(s)
         /\ \A k \in 1 .. Len(s) : Len(s) - k + 1 \in 1 .. Len(s) /\ Reverse(s)[k] = s[Len(s) - k + 1]
<1> DEFINE n == Len(s)
           r == [k \in 1 .. n |-> s[(n - k) + 1]]
<1>1. n \in Nat /\ \A k \in 1 .. n : (n - k) + 1 \in 1 .. n /\ r[k] = s[(n - k) + 1] /\ r[k] \in T
  OBVIOUS
<1>2. r = [k \in 1 .. n |-> r[k]] /\ Reverse(s) = r
  BY DEF Reverse
<1> HIDE DEF r, n
<1>3. r \in Seq(T) /\ Len(r) = n
  BY <1>1, <1>2, SeqBuilt
<1> QED
  BY <1>1, <1>2, <1>3 DEF n

(* emitLandingPad emits code and hands back a pad that exists.             *)
LEMMA EmitLandingPadOk ==
  ASSUME NEW W, NEW f, WellFormed(f, 1, W), NoWant \in W, CatchesWithin(f)
  PROVE  LET h == EmitLandingPad(f) IN Emits(f, h, 1, W) /\ h.start \in 1 .. Len(h.blk)
<1> DEFINE f1 == NewBlock(f)
           pad == LastBlock(f1)
           f2 == WithCur(f1, pad)
           top == Len(f.scopes)
           seq == Reverse(f.catches)
           a == WithTries(f2, pad, top, seq)
           last == a.last
           f3 == a.f
           f4 == GetOrCreateResumeUnwindBlock(f3)
           f5 == ResumeUnwind(f4, pad, last)
           f6 == WithCur(f5, f.cur)
           h == WithStart(f6, pad)
<1>0. 1 \in {0, 1} /\ Len(f.blk) \in Nat /\ top \in Nat /\ f.cur \in 1 .. Len(f.blk)
  <2>1. 1 \in {0, 1}
    OBVIOUS
  <2> QED
    BY <2>1, Lengths
<1>1. EmitLandingPad(f) = h
  <2>1. EmitLandingPad(f) = [f5 EXCEPT !.cur = f.cur, !.start = pad]
    BY DEF EmitLandingPad, WithTries, WithCur, CurrentCleanupScope
  <2> HIDE DEF f5, pad
  <2> QED
    BY <2>1 DEF WithCur, WithStart
<1>2. WellFormed(f1, 1, W) /\ Kept(f, f1) /\ pad = Len(f.blk) + 1 /\ Len(f1.blk) = pad
  BY <1>0, NewBlockOk
<1>3. pad \in 1 .. Len(f1.blk) /\ f2 = WithCur(f1, pad)
  BY <1>0, <1>2
<1> HIDE DEF f1, pad, f2, top
<1>4. WellFormed(f2, 1, W) /\ Kept(f1, f2) /\ f2.blk = f1.blk /\ f2.scopes = f1.scopes
  BY <1>0, <1>2, <1>3, SetCurOk
<1>5. Grows(f, f2, W)
  <2>1. Grows(f, f1, W) /\ Grows(f1, f2, W)
    BY <1>2, <1>4 DEF Grows
  <2> QED
    BY <2>1, GrowsTrans
<1>6. WellFormed(f2, 1, W) /\ Len(f2.scopes) = Len(f.scopes) /\ f2.catches = f.catches
      /\ pad \in 1 .. Len(f2.blk)
  BY <1>3, <1>4, <1>5, GrowsFacts
<1>7. top \in 0 .. Len(f2.scopes)
  BY <1>0, <1>6 DEF top
<1>8. /\ seq \in Seq(CatchSet(Len(f2.blk)))
      /\ \A k \in 1 .. Len(seq) : seq[k].scope \in 0 .. Len(f2.scopes)
  <2> DEFINE T == CatchSet(Len(f2.blk))
             s == f.catches
  <2>1. s \in Seq(T)
    <3>1. f2.catches \in Seq(T)
      BY <1>6 DEF WellFormed, FunctionSet
    <3> QED
      BY <1>6, <3>1
  <2>2. \A k \in 1 .. Len(s) : s[k].scope \in 0 .. Len(f2.scopes)
    <3>1. \A k \in 1 .. Len(s) : s[k].scope \in Nat
      <4>1. \A x \in T : x.scope \in Nat
        BY DEF CatchSet
      <4> HIDE DEF T, s
      <4>2. \A k \in 1 .. Len(s) : s[k] \in T
        BY <2>1
      <4> QED
        BY <4>1, <4>2
    <3> QED
      BY <1>0, <1>6, <3>1 DEF CatchesWithin, top
  <2> HIDE DEF T, s
  <2>3. seq = Reverse(s)
    BY DEF s
  <2>4. /\ Reverse(s) \in Seq(T) /\ Len(Reverse(s)) = Len(s)
        /\ \A k \in 1 .. Len(s) : Len(s) - k + 1 \in 1 .. Len(s) /\ Reverse(s)[k] = s[Len(s) - k + 1]
    BY <2>1, ReverseOk
  <2> HIDE DEF seq
  <2> QED
    BY <2>2, <2>3, <2>4 DEF T
<1> HIDE DEF seq
<1>9. Grows(f2, f3, W) /\ last \in 0 .. Len(f2.scopes)
  BY <1>6, <1>7, <1>8, WithTriesOk
<1> HIDE DEF f3, last
<1>10. WellFormed(f3, 1, W) /\ Len(f3.scopes) = Len(f2.scopes) /\ pad \in 1 .. Len(f3.blk)
  BY <1>6, <1>9, GrowsFacts
<1>11. Grows(f3, f4, W) /\ f4.resume \in 1 .. Len(f4.blk)
  BY <1>10, GetOrCreateResumeUnwindBlockOk
<1> HIDE DEF f4
<1>12. WellFormed(f4, 1, W) /\ Len(f4.scopes) = Len(f3.scopes) /\ pad \in 1 .. Len(f4.blk)
  BY <1>10, <1>11, GrowsFacts
<1>13. Grows(f4, f5, W)
  <2>1. last \in 0 .. Len(f4.scopes)
    BY <1>9, <1>10, <1>12
  <2> QED
    BY <1>11, <1>12, <2>1, ResumeUnwindOk
<1> HIDE DEF f5
<1>14. Grows(f, f3, W)
  BY <1>5, <1>9, GrowsTrans
<1>15. Grows(f, f4, W)
  BY <1>11, <1>14, GrowsTrans
<1>16. Grows(f, f5, W)
  BY <1>13, <1>15, GrowsTrans
<1>17. WellFormed(f5, 1, W) /\ f.cur \in 1 .. Len(f5.blk)
  BY <1>0, <1>16, GrowsFacts
<1>18. pad \in 1 .. Len(f5.blk)
  BY <1>12, <1>13, GrowsFacts
<1> DEFINE cur == f.cur
<1>19. f6 = WithCur(f5, cur) /\ cur \in 1 .. Len(f5.blk)
  BY <1>17
<1> HIDE DEF cur, f6
<1>20. WellFormed(f6, 1, W) /\ Kept(f5, f6) /\ f6.cur = cur /\ f6.blk = f5.blk
  BY <1>0, <1>17, <1>19, SetCurOk
<1>21. h = WithStart(f6, pad) /\ pad \in 0 .. Len(f6.blk)
  BY <1>18, <1>20
<1> HIDE DEF h
<1>22. WellFormed(h, 1, W) /\ Kept(f6, h) /\ h.cur = f6.cur /\ h.start = pad /\ h.blk = f6.blk
  BY <1>0, <1>20, <1>21, SetStartOk
<1>23. Grows(f5, f6, W) /\ Grows(f6, h, W)
  BY <1>20, <1>22 DEF Grows
<1>24. Grows(f, f6, W)
  BY <1>16, <1>23, GrowsTrans
<1>25. Grows(f, h, W)
  BY <1>23, <1>24, GrowsTrans
<1>26. Emits(f, h, 1, W) /\ h.start \in 1 .. Len(h.blk)
  BY <1>18, <1>20, <1>22, <1>25 DEF Emits, Grows, cur
<1> QED
  BY <1>1, <1>26

(* runCleanupPad emits code and hands back a pad that exists.              *)
LEMMA RunCleanupPadOk ==
  ASSUME NEW W, NEW f, WellFormed(f, 1, W), NoWant \in W, f.msvc,
         NEW i \in 1 .. Len(f.scopes), NEW unwindTo \in 0 .. Len(f.blk)
  PROVE  LET h == RunCleanupPad(f, i, unwindTo) IN Emits(f, h, 1, W) /\ h.start \in 1 .. Len(h.blk)
<1> DEFINE begin == f.scopes[i].begin
           n == Len(f.blk)
           to == IF unwindTo = 0 THEN <<>> ELSE <<unwindTo>>
           t == Term("cleanupret", <<>>, to)
           f0 == NewBlock(f)
           f1 == AddBlock(f0, Block(t))
           last == LastBlock(f1)
           bb == last - 1
           f2 == RunCopying(f1, i, bb, last, unwindTo, TRUE)
           x == f2.start
           f3 == SetTerm(f2, bb, Br(x))
           h == WithStart(f3, bb)
<1>0. 1 \in {0, 1} /\ n \in Nat
  <2>1. 1 \in {0, 1}
    OBVIOUS
  <2> QED
    BY <2>1, Lengths
<1>1. CASE IsCatchSwitchBlock(f, begin)
  <2>1. RunCleanupPad(f, i, unwindTo) = WithStart(f, begin)
    BY <1>1 DEF RunCleanupPad, WithStart
  <2>2. begin \in 1 .. n
    BY <1>0, ScopeFacts
  <2> HIDE DEF begin
  <2>3. begin \in 0 .. n /\ Emits(f, f, 1, W)
    <3>1. Grows(f, f, W)
      BY GrowsRefl
    <3> QED
      BY <1>0, <2>2, <3>1 DEF Grows, Emits
  <2>4. LET e == WithStart(f, begin) IN Emits(f, e, 1, W) /\ e.blk = f.blk /\ e.start = begin
    BY <1>0, <2>3, StartEmits
  <2> QED
    BY <2>1, <2>2, <2>4
<1>2. CASE ~IsCatchSwitchBlock(f, begin)
  <2>1. RunCleanupPad(f, i, unwindTo) = h
    BY <1>2 DEF RunCleanupPad, BranchToStart, WithStart
  <2>2. WellFormed(f0, 1, W) /\ Kept(f, f0) /\ Rest(f, f0) /\ Len(f0.blk) = n + 1
    BY <1>0, NewBlockOk
  <2> HIDE DEF f0
  <2>3. t \in TermSet(1, Len(f0.blk) + 1) /\ t.op # "switch"
    <3> DEFINE m == Len(f0.blk) + 1
    <3>1. m \in Nat /\ m = n + 2
      BY <1>0, <2>2
    <3> HIDE DEF m
    <3>2. to \in Seq(1 .. m)
      <4>1. CASE unwindTo = 0
        BY <4>1
      <4>2. CASE unwindTo # 0
        <5>1. unwindTo \in 1 .. m
          BY <1>0, <3>1, <4>2
        <5> QED
          BY <4>2, <5>1
      <4> QED
        BY <4>1, <4>2
    <3> HIDE DEF to
    <3>3. <<>> \in Seq(Nat \cup Classes) /\ "cleanupret" \in Ops
      BY DEF Ops
    <3> QED
      BY <1>0, <3>1, <3>2, <3>3, Terms DEF m
  <2> HIDE DEF t
  <2>4. /\ WellFormed(f1, 1, W) /\ Kept(f0, f1) /\ Rest(f0, f1) /\ Len(f1.blk) = Len(f0.blk) + 1
        /\ last = Len(f0.blk) + 1
    BY <1>0, <2>2, <2>3, AddBlockOk
  <2> HIDE DEF f1
  <2>5. /\ last \in 1 .. Len(f1.blk) /\ bb \in 1 .. Len(f1.blk) /\ unwindTo \in 0 .. Len(f1.blk)
        /\ f1.msvc /\ i \in 1 .. Len(f1.scopes) /\ f1.cur = f.cur
    <3>1. f1.msvc = f.msvc /\ f1.scopes = f.scopes /\ f1.cur = f.cur
      BY <2>2, <2>4 DEF Rest
    <3> QED
      BY <1>0, <2>2, <2>4, <3>1
  <2>6. Emits(f, f1, 1, W)
    <3>1. Grows(f, f0, W) /\ Grows(f0, f1, W)
      BY <2>2, <2>4 DEF Grows
    <3>2. Grows(f, f1, W)
      BY <3>1, GrowsTrans
    <3> QED
      BY <2>5, <3>2 DEF Grows, Emits
  <2> HIDE DEF last, bb
  <2>7. Emits(f1, f2, 1, W) /\ x \in 1 .. Len(f2.blk)
    <3> DEFINE b == TRUE
    <3>1. b \in BOOLEAN /\ f2 = RunCopying(f1, i, bb, last, unwindTo, b)
      OBVIOUS
    <3> HIDE DEF b, f2
    <3> QED
      BY <1>0, <2>4, <2>5, <3>1, RunCopyingOk
  <2> HIDE DEF f2, x
  <2>8. WellFormed(f2, 1, W) /\ bb \in 1 .. Len(f2.blk)
    BY <1>0, <2>4, <2>5, <2>7, EmitsFacts
  <2>9. WellFormed(f3, 1, W) /\ Kept(f2, f3) /\ Rest(f2, f3) /\ Len(f3.blk) = Len(f2.blk)
    BY <1>0, <2>7, <2>8, BrOk
  <2> HIDE DEF f3
  <2>10. Emits(f2, f3, 1, W)
    BY <2>9 DEF Emits, Rest
  <2>11. Emits(f, f2, 1, W)
    BY <1>0, <2>6, <2>7, EmitsTrans
  <2>12. Emits(f, f3, 1, W) /\ bb \in 0 .. Len(f3.blk)
    BY <1>0, <2>8, <2>9, <2>10, <2>11, EmitsTrans
  <2>13. Emits(f, h, 1, W) /\ h.blk = f3.blk /\ h.start = bb
    BY <1>0, <2>12, StartEmits
  <2> HIDE DEF h
  <2> QED
    BY <2>1, <2>8, <2>9, <2>13
<1> QED
  BY <1>1, <1>2

(* The last element of a sequence is in its set.                           *)
LEMMA SeqLast ==
  ASSUME NEW T, NEW p \in Seq(T), p # <<>>
  PROVE  p[Len(p)] \in T
<1>1. Len(p) \in 1 .. Len(p)
  OBVIOUS
<1> QED
  BY <1>1

(* getLandingPadRef: 0 or a block of the function.                         *)
LEMMA PadRefOk ==
  ASSUME NEW W, NEW f, WellFormed(f, 1, W), NEW c \in 0 .. Len(f.scopes)
  PROVE  PadRef(f, c) \in 0 .. Len(f.blk)
<1> DEFINE p == f.pads[c + 1]
           n == Len(f.blk)
<1>1. n \in Nat /\ Len(f.scopes) \in Nat
      /\ \A k \in 1 .. Len(f.scopes) + 1 : f.pads[k] \in Seq(0 .. n)
  <2>1. 1 \in {0, 1}
    OBVIOUS
  <2> QED
    BY <2>1, Lengths, GotoFacts
<1>2. p \in Seq(0 .. n)
  <2>1. c + 1 \in 1 .. Len(f.scopes) + 1
    BY <1>1
  <2> QED
    BY <1>1, <2>1
<1>3. PadRef(f, c) = IF p = <<>> THEN 0 ELSE p[Len(p)]
  BY DEF PadRef, Last
<1> HIDE DEF p, n
<1>5. p # <<>> => p[Len(p)] \in 0 .. n
  BY <1>2, SeqLast
<1> QED
  BY <1>1, <1>3, <1>5 DEF n

(* The last element of a list of pads replaced.                            *)
Latest(p, x) == IF p = <<>> THEN <<x>> ELSE Append(Front(p), x)

(* A list of pads whose last one was replaced ends in it.                  *)
LEMMA LatestOk ==
  ASSUME NEW T, NEW p \in Seq(T), NEW x \in T
  PROVE  LET q == Latest(p, x) IN q \in Seq(T) /\ q # <<>> /\ Last(q) = x
<1>1. CASE p = <<>>
  BY <1>1 DEF Latest, Last
<1>2. CASE p # <<>>
  <2> DEFINE r == Front(p)
  <2>1. r \in Seq(T)
    BY SeqFront
  <2> HIDE DEF r
  <2>2. Append(r, x) \in Seq(T) /\ Len(Append(r, x)) = Len(r) + 1 /\ Append(r, x)[Len(r) + 1] = x
        /\ Append(r, x) # <<>>
    BY <2>1
  <2> QED
    BY <1>2, <2>2 DEF Latest, Last, r
<1> QED
  BY <1>1, <1>2

(* Caching a pad changes no block and is read back by PadRef.              *)
LEMMA SetPadRefOk ==
  ASSUME NEW W, NEW f, WellFormed(f, 1, W), NEW c \in 0 .. Len(f.scopes)
  PROVE  LET h == SetPadRef(f, c) IN
         Emits(f, h, 1, W) /\ h.blk = f.blk /\ PadRef(h, c) = f.start
<1> DEFINE k == c + 1
           s == f.pads
           p == s[k]
           n == Len(f.blk)
           x == f.start
           q == Latest(p, x)
           P == [s EXCEPT ![k] = q]
           h == WithPads(f, P)
<1>0. 1 \in {0, 1}
  OBVIOUS
<1>1. n \in Nat /\ Len(f.scopes) \in Nat /\ s \in Seq(Seq(0 .. n)) /\ Len(s) = Len(f.scopes) + 1
      /\ x \in 0 .. n
  BY <1>0, Lengths, GotoFacts
<1>2. k \in 1 .. Len(s)
  BY <1>1
<1>3. SetPadRef(f, c) = h
  BY DEF SetPadRef, WithPads, Latest
<1> DEFINE R == 0 .. n
           T == Seq(R)
<1>4. s \in Seq(T) /\ x \in R
  BY <1>1
<1> HIDE DEF s, k, x, R
<1>5. p \in T
  <2> HIDE DEF T
  <2> QED
    BY <1>2, <1>4
<1> HIDE DEF p
<1>6. q \in T /\ q # <<>> /\ Last(q) = x
  BY <1>4, <1>5, LatestOk
<1> HIDE DEF q, T
<1>7. P \in Seq(T) /\ Len(P) = Len(s) /\ P[k] = q
  BY <1>2, <1>4, <1>6
<1> HIDE DEF P
<1>8. P \in Seq(Seq(0 .. Len(f.blk))) /\ Len(P) = Len(f.pads) /\ h = WithPads(f, P)
  BY <1>7 DEF T, R, n, s
<1> HIDE DEF h
<1>9. /\ WellFormed(h, 1, W) /\ h.blk = f.blk /\ h.scopes = f.scopes
      /\ h.msvc = f.msvc /\ h.cur = f.cur /\ h.catches = f.catches /\ h.labels = f.labels
      /\ h.loops = f.loops /\ h.plain = f.plain /\ h.gotos = f.gotos /\ h.pads = P
  BY <1>0, <1>8, PutPads
<1>10. Emits(f, h, 1, W)
  <2>1. Len(f.blk) \in Nat
    BY <1>1 DEF n
  <2> QED
    BY <1>9, <2>1 DEF Emits, Kept
<1>11. PadRef(h, c) = x
  <2>1. h.pads[c + 1] = q
    BY <1>7, <1>9 DEF k
  <2> QED
    BY <1>6, <2>1 DEF PadRef
<1> QED
  BY <1>3, <1>9, <1>10, <1>11 DEF x

(* Emitting nothing is emitting code.                                      *)
LEMMA EmitsRefl ==
  ASSUME NEW W, NEW f, WellFormed(f, 1, W)
  PROVE  Emits(f, f, 1, W)
<1>1. Len(f.blk) \in Nat /\ 1 \in {0, 1}
  BY Lengths
<1> QED
  BY <1>1 DEF Emits, Kept

(* emitLandingPadMSVC: afterwards the pad of the cursor is cached.         *)
LEMMA EmitPadOfOk ==
  ASSUME NEW W, NEW f, WellFormed(f, 1, W), NoWant \in W, f.msvc, NEW i \in 1 .. Len(f.scopes)
  PROVE  LET h == EmitPadOf(f, i) IN Emits(f, h, 1, W) /\ PadRef(h, i) \in 1 .. Len(h.blk)
<1> DEFINE to == IF i = 1 THEN 0 ELSE PadRef(f, i - 1)
           e == RunCleanupPad(f, i, to)
           h == SetPadRef(e, i)
<1>0. 1 \in {0, 1}
  OBVIOUS
<1>1. Len(f.blk) \in Nat /\ Len(f.scopes) \in Nat
  BY <1>0, Lengths
<1>2. i \in 0 .. Len(f.scopes) /\ i - 1 \in 0 .. Len(f.scopes)
  BY <1>1
<1>3. PadRef(f, i) \in 0 .. Len(f.blk) /\ PadRef(f, i - 1) \in 0 .. Len(f.blk)
  BY <1>2, PadRefOk
<1>4. to \in 0 .. Len(f.blk)
  BY <1>1, <1>3
<1>5. EmitPadOf(f, i) = IF PadRef(f, i) # 0 THEN f ELSE h
  BY DEF EmitPadOf
<1>6. CASE PadRef(f, i) # 0
  <2>1. PadRef(f, i) \in 1 .. Len(f.blk)
    BY <1>1, <1>3, <1>6
  <2>2. Emits(f, f, 1, W)
    BY EmitsRefl
  <2> QED
    BY <1>5, <1>6, <2>1, <2>2
<1>7. CASE PadRef(f, i) = 0
  <2> HIDE DEF to
  <2>1. Emits(f, e, 1, W) /\ e.start \in 1 .. Len(e.blk)
    BY <1>4, RunCleanupPadOk
  <2> HIDE DEF e
  <2>2. WellFormed(e, 1, W) /\ Len(e.scopes) = Len(f.scopes)
    BY <1>0, <2>1, EmitsFacts
  <2>3. i \in 0 .. Len(e.scopes)
    BY <1>2, <2>2
  <2>4. Emits(e, h, 1, W) /\ h.blk = e.blk /\ PadRef(h, i) = e.start
    BY <2>2, <2>3, SetPadRefOk
  <2> HIDE DEF h
  <2>5. Emits(f, h, 1, W)
    BY <1>0, <2>1, <2>4, EmitsTrans
  <2> QED
    BY <1>5, <1>7, <2>1, <2>4, <2>5
<1> QED
  BY <1>6, <1>7

PadOp(c, a, k) == EmitPadOf(a, k)
PadInv(c, k, a) == Emits(c.f, a, 1, c.W) /\ (k > 0 => PadRef(a, k) \in 1 .. Len(a.blk))
PadFold == INSTANCE FoldFacts WITH Op <- PadOp, Inv <- PadInv
WithEachPad(f, m) == FoldLeft(LAMBDA a, k : EmitPadOf(a, k), f, Ascending(0, m))

(* emitLandingPadMSVC: the pads of all cursors, by induction over the      *)
(* fold.                                                                   *)
LEMMA WithEachPadOk ==
  ASSUME NEW W, NEW f, WellFormed(f, 1, W), NoWant \in W, f.msvc, NEW m, m = Len(f.scopes), m > 0
  PROVE  LET h == WithEachPad(f, m) IN Emits(f, h, 1, W) /\ PadRef(h, m) \in 1 .. Len(h.blk)
<1> DEFINE c == [f |-> f, W |-> W]
           seq == Ascending(0, m)
           h == WithEachPad(f, m)
<1>0. c.f = f /\ c.W = W /\ 1 \in {0, 1}
  OBVIOUS
<1>1. h = PadFold!Folding(c, f, seq)
  <2> HIDE DEF seq, c
  <2> QED
    BY DEF seq, WithEachPad, PadFold!Folding, PadOp, FoldLeft, MapThenFoldSet,
         PadFold!MapThenFoldSet, Max, PadFold!Largest
<1>2. m \in Nat
  BY <1>0, Lengths
<1>3. seq \in Seq(1 .. m) /\ Len(seq) = m /\ \A k \in 1 .. m : seq[k] = k
  <2>1. m - 0 = m /\ \A k \in 1 .. m : 0 + k = k
    BY <1>2
  <2>2. seq = [k \in 1 .. m |-> k]
    BY <2>1 DEF Ascending
  <2> HIDE DEF seq
  <2> QED
    BY <1>2, <2>2
<1> HIDE DEF c, h, seq
<1>4. PadInv(c, 0, f)
  BY <1>0, EmitsRefl DEF PadInv
<1>5. ASSUME NEW k \in 1 .. Len(seq), NEW a, PadInv(c, k - 1, a)
      PROVE  PadInv(c, k, PadOp(c, a, seq[k]))
  <2> DEFINE e == EmitPadOf(a, k)
  <2>1. Emits(f, a, 1, W)
    BY <1>0, <1>5 DEF PadInv
  <2>2. WellFormed(a, 1, W) /\ a.msvc /\ Len(a.scopes) = m
    BY <1>0, <2>1, EmitsFacts
  <2>3. k \in 1 .. Len(a.scopes) /\ seq[k] = k
    BY <1>3, <2>2
  <2>4. Emits(a, e, 1, W) /\ PadRef(e, k) \in 1 .. Len(e.blk)
    BY <2>2, <2>3, EmitPadOfOk
  <2> HIDE DEF e
  <2>5. Emits(f, e, 1, W)
    BY <1>0, <2>1, <2>4, EmitsTrans
  <2> QED
    BY <1>0, <2>3, <2>4, <2>5 DEF PadInv, PadOp, e
<1>6. PadInv(c, Len(seq), PadFold!Folding(c, f, seq))
  BY <1>3, <1>4, <1>5, WellOrdered, PadFold!Folded DEF PadFold!LeastNumbers
<1> QED
  BY <1>0, <1>1, <1>3, <1>6 DEF PadInv, h

(* The landing pad around the current point, from the cache or new.        *)
LEMMA GetLandingPadOk ==
  ASSUME NEW W, NEW f, WellFormed(f, 1, W), NoWant \in W, CatchesWithin(f),
         f.msvc => f.scopes # <<>>
  PROVE  LET h == GetLandingPad(f) IN Emits(f, h, 1, W) /\ h.start \in 1 .. Len(h.blk)
<1> DEFINE m == Len(f.scopes)
           e1 == WithEachPad(f, m)
           e2 == EmitLandingPad(f)
           e3 == SetPadRef(e2, m)
           e == IF f.msvc THEN e1 ELSE IF PadRef(f, m) # 0 THEN f ELSE e3
           x == PadRef(e, m)
           h == WithStart(e, x)
<1>0. 1 \in {0, 1}
  OBVIOUS
<1>1. m \in Nat /\ Len(f.blk) \in Nat /\ m \in 0 .. m /\ (f.scopes # <<>> => m > 0)
  BY <1>0, Lengths
<1>2. GetLandingPad(f) = h
  BY DEF GetLandingPad, CurrentCleanupScope, WithEachPad, WithStart
<1>3. Emits(f, e, 1, W) /\ x \in 1 .. Len(e.blk)
  <2>1. CASE f.msvc
    <3> HIDE DEF m, e1
    <3>1. m = Len(f.scopes) /\ m > 0
      BY <1>1, <2>1 DEF m
    <3>2. Emits(f, e1, 1, W) /\ PadRef(e1, m) \in 1 .. Len(e1.blk)
      BY <2>1, <3>1, WithEachPadOk DEF e1
    <3> QED
      BY <2>1, <3>2
  <2>2. CASE ~f.msvc /\ PadRef(f, m) # 0
    <3>1. PadRef(f, m) \in 0 .. Len(f.blk)
      BY <1>1, PadRefOk
    <3>2. PadRef(f, m) \in 1 .. Len(f.blk)
      BY <1>1, <2>2, <3>1
    <3>3. Emits(f, f, 1, W)
      BY EmitsRefl
    <3> QED
      BY <2>2, <3>2, <3>3
  <2>3. CASE ~f.msvc /\ PadRef(f, m) = 0
    <3> HIDE DEF m
    <3>1. Emits(f, e2, 1, W) /\ e2.start \in 1 .. Len(e2.blk)
      BY EmitLandingPadOk
    <3> HIDE DEF e2
    <3>2. WellFormed(e2, 1, W) /\ Len(e2.scopes) = m
      BY <1>0, <3>1, EmitsFacts DEF m
    <3>3. m \in 0 .. Len(e2.scopes)
      BY <1>1, <3>2
    <3>4. Emits(e2, e3, 1, W) /\ e3.blk = e2.blk /\ PadRef(e3, m) = e2.start
      BY <3>2, <3>3, SetPadRefOk
    <3> HIDE DEF e3
    <3>5. Emits(f, e3, 1, W)
      BY <1>0, <3>1, <3>4, EmitsTrans
    <3> QED
      BY <2>3, <3>1, <3>4, <3>5
  <2> QED
    BY <2>1, <2>2, <2>3
<1> HIDE DEF e, x
<1>4. x \in 0 .. Len(e.blk)
  <2>1. Len(e.blk) \in Nat
    BY <1>0, <1>3, EmitsFacts
  <2> QED
    BY <1>3, <2>1
<1>5. Emits(f, h, 1, W) /\ h.blk = e.blk /\ h.start = x
  BY <1>0, <1>3, <1>4, StartEmits
<1> QED
  BY <1>2, <1>3, <1>5

-----------------------------------------------------------------------------
(* Calls                                                                   *)

(* The stacks are as they were, there may be more blocks.                  *)
Same(f, h) ==
  /\ h.msvc = f.msvc /\ h.catches = f.catches /\ h.gotos = f.gotos /\ h.labels = f.labels
  /\ h.loops = f.loops /\ Len(h.scopes) = Len(f.scopes) /\ Len(h.blk) >= Len(f.blk)
WantsOf(f, h, B) == \A b \in B : h.blk[b].want = f.blk[b].want

(* A call with the ghost w that ends its block: the visitor goes on in a   *)
(* new one.                                                                *)
Invoked(f, h, w) ==
  /\ h.plain = f.plain /\ h.blk[f.cur].want = w
  /\ h.cur > Len(f.blk) /\ h.blk[h.cur].want = NoWant

(* Kept implies Same.                                                      *)
LEMMA KeptSame ==
  ASSUME NEW f, NEW h, Kept(f, h)
  PROVE  Same(f, h) /\ WantsOf(f, h, 1 .. Len(f.blk)) /\ h.plain = f.plain
BY DEF Kept, Same, WantsOf

(* An invoke ends the current block with the call's ghost; a new block     *)
(* follows.                                                                *)
LEMMA InvokeOk ==
  ASSUME NEW W, NEW f, WellFormed(f, 1, W), NoWant \in W, NEW w \in W, f.start \in 1 .. Len(f.blk)
  PROVE  LET h == Invoke(f, w) IN
         /\ WellFormed(h, 1, W) /\ Same(f, h) /\ WantsOf(f, h, (1 .. Len(f.blk)) \ {f.cur})
         /\ Invoked(f, h, w)
<1> DEFINE n == Len(f.blk)
           m == n + 1
           x == f.start
           cur == f.cur
           t == Term("invoke", <<>>, <<m, x>>)
           f1 == NewBlock(f)
           f2 == SetTerm(f1, cur, t)
           f3 == Want(f2, cur, w)
           h == WithCur(f3, m)
<1>0. 1 \in {0, 1}
  OBVIOUS
<1>1. n \in Nat /\ cur \in 1 .. n /\ x \in 1 .. n
  BY <1>0, Lengths
<1>2. m \in Nat /\ cur \in 1 .. m /\ x \in 1 .. m /\ m \in 1 .. m /\ cur # m
  BY <1>1
<1>3. /\ WellFormed(f1, 1, W) /\ Kept(f, f1) /\ Len(f1.blk) = m
      /\ (\A b \in 1 .. n : f1.blk[b] = f.blk[b]) /\ f1.blk[m].want = NoWant
  BY <1>0, NewBlockOk
<1>4. t \in TermSet(1, m) /\ t.op = "invoke"
  <2>1. <<>> \in Seq(Nat \cup Classes) /\ <<m, x>> \in Seq(1 .. m) /\ "invoke" \in Ops
    BY <1>2 DEF Ops
  <2> HIDE DEF m, x
  <2> QED
    BY <1>0, <1>2, <2>1, Terms
<1>5. Invoke(f, w) = h
  <2>1. Invoke(f, w) = [f2 EXCEPT !.blk[cur].want = w, !.cur = m]
    BY DEF Invoke, LastBlock
  <2> HIDE DEF f2, cur, m
  <2> QED
    BY <2>1 DEF Want, WithCur
<1> HIDE DEF n, m, x, cur, t, f1
<1>6. /\ WellFormed(f2, 1, W) /\ Kept(f1, f2) /\ Len(f2.blk) = m
      /\ \A b \in 1 .. m : f2.blk[b].want = f1.blk[b].want
  <2>1. t \in TermSet(1, Len(f1.blk)) /\ cur \in 1 .. Len(f1.blk) /\ (f1.msvc => t.op # "switch")
    BY <1>2, <1>3, <1>4
  <2> QED
    BY <1>0, <1>3, <2>1, SetTermOk
<1> HIDE DEF f2
<1>7. /\ WellFormed(f3, 1, W) /\ Rest(f2, f3) /\ Len(f3.blk) = m
      /\ \A b \in 1 .. m : f3.blk[b].want = IF b = cur THEN w ELSE f2.blk[b].want
  <2>1. cur \in 1 .. Len(f2.blk)
    BY <1>2, <1>6
  <2> QED
    BY <1>0, <1>6, <2>1, WantOk
<1> HIDE DEF f3
<1>8. WellFormed(h, 1, W) /\ Kept(f3, h) /\ h.cur = m /\ h.blk = f3.blk
  <2>1. m \in 1 .. Len(f3.blk) /\ h = WithCur(f3, m)
    BY <1>2, <1>7
  <2> HIDE DEF h
  <2> QED
    BY <1>0, <1>7, <2>1, SetCurOk
<1> HIDE DEF h
<1>9. Same(f, h) /\ h.plain = f.plain
  <2>1. Len(h.blk) >= Len(f.blk)
    BY <1>1, <1>2, <1>7, <1>8 DEF n, m
  <2> QED
    BY <1>3, <1>6, <1>7, <1>8, <2>1 DEF Kept, Rest, Same
<1>10. \A b \in (1 .. n) \ {cur} : h.blk[b].want = f.blk[b].want
  <2>1. ASSUME NEW b \in (1 .. n) \ {cur} PROVE h.blk[b].want = f.blk[b].want
    <3>1. b \in 1 .. m /\ b \in 1 .. n /\ b # cur
      BY <1>1 DEF m
    <3> QED
      BY <1>3, <1>6, <1>7, <1>8, <3>1
  <2> QED
    BY <2>1
<1>11. h.blk[cur].want = w /\ h.blk[h.cur].want = NoWant /\ h.cur > n
  <2>1. m > n
    BY <1>1 DEF m
  <2> QED
    BY <1>2, <1>3, <1>6, <1>7, <1>8, <2>1
<1> QED
  BY <1>5, <1>8, <1>9, <1>10, <1>11 DEF WantsOf, Invoked, n, cur

(* When callOrInvoke emits a call without an unwind edge.                  *)
Unhandled(f, isNothrow) ==
  (isNothrow /\ ~IsCatchingNonExceptions(f)) \/ (f.scopes = <<>> /\ f.catches = <<>>)
Calls(f, h, w) ==
  /\ h.blk = f.blk /\ h.cur = f.cur /\ h.plain = f.plain \cup {w}

(* callOrInvoke, with and without an unwind edge.                          *)
LEMMA CallOrInvokeOk ==
  ASSUME NEW W, NEW f, WellFormed(f, 1, W), NoWant \in W, NEW w \in W, NEW x, CatchesWithin(f)
  PROVE  LET h == CallOrInvoke(f, x, w) IN
         /\ WellFormed(h, 1, W) /\ Same(f, h) /\ WantsOf(f, h, (1 .. Len(f.blk)) \ {f.cur})
         /\ IF Unhandled(f, x) THEN Calls(f, h, w) ELSE Invoked(f, h, w)
<1> DEFINE p == f.plain \cup {w}
           h1 == WithPlain(f, p)
           e == GetLandingPad(f)
           h2 == Invoke(e, w)
<1>0. 1 \in {0, 1}
  OBVIOUS
<1>1. CallOrInvoke(f, x, w) = IF Unhandled(f, x) THEN h1 ELSE h2
  BY DEF CallOrInvoke, Unhandled, WithPlain
<1>2. CASE Unhandled(f, x)
  <2>1. p \in SUBSET W
    BY DEF WellFormed, FunctionSet
  <2>2. h1 = WithPlain(f, p)
    OBVIOUS
  <2>3. Len(f.blk) \in Nat
    BY <1>0, Lengths
  <2> HIDE DEF p, h1
  <2>4. /\ WellFormed(h1, 1, W)
        /\ h1.msvc = f.msvc /\ h1.blk = f.blk /\ h1.cur = f.cur
        /\ h1.scopes = f.scopes /\ h1.catches = f.catches /\ h1.gotos = f.gotos
        /\ h1.labels = f.labels /\ h1.loops = f.loops /\ h1.plain = p
    BY <1>0, <2>1, <2>2, PutPlain
  <2> QED
    BY <1>1, <1>2, <2>3, <2>4 DEF Same, WantsOf, Calls, p
<1>3. CASE ~Unhandled(f, x)
  <2>1. f.msvc => f.scopes # <<>>
    <3>1. SUFFICES ASSUME f.msvc, f.scopes = <<>> PROVE FALSE
      OBVIOUS
    <3>2. f.catches # <<>> /\ f.catches \in Seq(CatchSet(Len(f.blk)))
      BY <1>3, <3>1 DEF Unhandled, WellFormed, FunctionSet
    <3>3. 1 \in 1 .. Len(f.catches) /\ f.catches[1] \in CatchSet(Len(f.blk))
      BY <3>2
    <3>4. f.catches[1].scope \in Nat
      BY <3>3 DEF CatchSet
    <3>5. f.catches[1].scope + 1 <= Len(f.scopes)
      BY <3>1, <3>3 DEF CatchesWithin
    <3>6. Len(f.scopes) = 0
      BY <3>1
    <3> QED
      BY <3>4, <3>5, <3>6
  <2>2. Emits(f, e, 1, W) /\ e.start \in 1 .. Len(e.blk)
    BY <2>1, GetLandingPadOk
  <2> HIDE DEF e
  <2>3. WellFormed(e, 1, W) /\ e.cur = f.cur /\ Len(f.blk) \in Nat /\ Len(e.blk) \in Nat
        /\ Len(e.blk) >= Len(f.blk)
    BY <1>0, <2>2, EmitsFacts
  <2>4. /\ WellFormed(h2, 1, W) /\ Same(e, h2) /\ WantsOf(e, h2, (1 .. Len(e.blk)) \ {e.cur})
        /\ Invoked(e, h2, w)
    BY <2>2, <2>3, InvokeOk
  <2> HIDE DEF h2
  <2>5. Len(h2.blk) \in Nat /\ h2.cur \in 1 .. Len(h2.blk)
    BY <1>0, <2>4, Lengths
  <2>6. Same(f, h2) /\ h2.plain = f.plain
    BY <2>2, <2>3, <2>4, <2>5 DEF Emits, Kept, Same, Invoked
  <2>7. WantsOf(f, h2, (1 .. Len(f.blk)) \ {f.cur})
    BY <2>2, <2>3, <2>4 DEF Emits, Kept, WantsOf
  <2>8. Invoked(f, h2, w)
    BY <2>3, <2>4, <2>5, <2>6 DEF Invoked
  <2> QED
    BY <1>1, <1>3, <2>4, <2>6, <2>7, <2>8
<1> QED
  BY <1>2, <1>3

(* A call without an unwind edge that was emitted since f.                 *)
NewPlain(f, h) == \A w \in h.plain : w \in f.plain \/ Uncaught(w)

(* Code is emitted in new blocks: the first n are as they were.            *)
Beyond(n, f, h, W) ==
  WellFormed(h, 1, W) /\ Same(f, h) /\ WantsOf(f, h, 1 .. n) /\ NewPlain(f, h)

(* Code in new blocks, twice.                                              *)
LEMMA BeyondTrans ==
  ASSUME NEW W, NEW n \in Nat, NEW f, WellFormed(f, 1, W), NEW h, Beyond(n, f, h, W),
         NEW e, Beyond(n, h, e, W)
  PROVE  Beyond(n, f, e, W)
<1>0. 1 \in {0, 1}
  OBVIOUS
<1>1. Len(f.blk) \in Nat /\ Len(h.blk) \in Nat /\ Len(e.blk) \in Nat
  BY <1>0, Lengths DEF Beyond
<1>2. Same(f, e)
  BY <1>1 DEF Beyond, Same
<1>3. WantsOf(f, e, 1 .. n)
  BY DEF Beyond, WantsOf
<1>4. NewPlain(f, e)
  BY DEF Beyond, NewPlain
<1> QED
  BY <1>2, <1>3, <1>4 DEF Beyond

(* Growing is emitting code in new blocks.                                 *)
LEMMA GrowsBeyond ==
  ASSUME NEW W, NEW f, WellFormed(f, 1, W), NEW n \in 0 .. Len(f.blk), NEW h, Grows(f, h, W)
  PROVE  Beyond(n, f, h, W)
<1>0. 1 \in {0, 1}
  OBVIOUS
<1>1. Len(f.blk) \in Nat
  BY <1>0, Lengths
<1>2. WellFormed(h, 1, W) /\ Same(f, h) /\ WantsOf(f, h, 1 .. Len(f.blk)) /\ h.plain = f.plain
  BY KeptSame DEF Grows
<1>3. \A b \in 1 .. n : b \in 1 .. Len(f.blk)
  BY <1>1
<1> QED
  BY <1>2, <1>3 DEF Beyond, WantsOf, NewPlain

(* What code in new blocks leaves of a state, in the form the folds ask    *)
(* for.                                                                    *)
LEMMA BeyondFacts ==
  ASSUME NEW W, NEW n, NEW f, WellFormed(f, 1, W), NEW h, Beyond(n, f, h, W)
  PROVE  /\ WellFormed(h, 1, W) /\ h.msvc = f.msvc /\ Len(h.scopes) = Len(f.scopes)
         /\ h.catches = f.catches /\ h.gotos = f.gotos
         /\ Len(f.blk) \in Nat /\ Len(h.blk) \in Nat /\ Len(h.blk) >= Len(f.blk)
         /\ h.cur \in 1 .. Len(h.blk) /\ 1 .. Len(f.blk) \subseteq 1 .. Len(h.blk)
<1>0. 1 \in {0, 1}
  OBVIOUS
<1>1. Len(f.blk) \in Nat /\ Len(h.blk) \in Nat /\ h.cur \in 1 .. Len(h.blk)
  BY <1>0, Lengths DEF Beyond
<1> QED
  BY <1>1 DEF Beyond, Same

(* No scope is around the visitor.                                         *)
Bare(f) == Len(f.scopes) = 0 /\ Len(f.catches) = 0

(* A throwing call gets no unwind edge only where no scope and no try      *)
(* statement is open.                                                      *)
LEMMA UnhandledBare ==
  ASSUME NEW W, NEW f, WellFormed(f, 1, W), Unhandled(f, FALSE)
  PROVE  Bare(f)
BY DEF Unhandled, Bare

(* A call emitted in a new block, with a ghost that nothing catches if no  *)
(* scope is open.                                                          *)
LEMMA CallBeyond ==
  ASSUME NEW W, NEW f, WellFormed(f, 1, W), NoWant \in W, NEW w \in W, CatchesWithin(f),
         Bare(f) => Uncaught(w), NEW n \in Nat, n < f.cur
  PROVE  LET h == CallOrInvoke(f, FALSE, w) IN
         Beyond(n, f, h, W) /\ h.cur > n
<1> DEFINE x == FALSE
           h == CallOrInvoke(f, x, w)
<1>0. 1 \in {0, 1}
  OBVIOUS
<1>1. Len(f.blk) \in Nat /\ f.cur \in 1 .. Len(f.blk)
  BY <1>0, Lengths
<1>2. Unhandled(f, x) => Uncaught(w)
  BY UnhandledBare
<1> HIDE DEF x
<1>3. /\ WellFormed(h, 1, W) /\ Same(f, h) /\ WantsOf(f, h, (1 .. Len(f.blk)) \ {f.cur})
      /\ IF Unhandled(f, x) THEN Calls(f, h, w) ELSE Invoked(f, h, w)
  BY CallOrInvokeOk
<1> HIDE DEF h
<1>4. WantsOf(f, h, 1 .. n)
  <2>1. \A b \in 1 .. n : b \in (1 .. Len(f.blk)) \ {f.cur}
    BY <1>1
  <2> QED
    BY <1>3, <2>1 DEF WantsOf
<1>5. NewPlain(f, h)
  BY <1>2, <1>3 DEF Calls, Invoked, NewPlain
<1>6. h.cur > n
  <2>1. h.cur \in Nat
    BY <1>0, <1>3, Lengths
  <2> QED
    BY <1>1, <1>3, <2>1 DEF Calls, Invoked
<1> QED
  BY <1>3, <1>4, <1>5, <1>6 DEF Beyond, h, x

(* The ghost of a call in a cleanup or in a catch body.                    *)
BodyWant == Throwing(nest, Thrown, FALSE)

(* The code of a cleanup or of a catch body is in new blocks.              *)
LEMMA EmitBodyOk ==
  ASSUME NEW W, NEW f, WellFormed(f, 1, W), NoWant \in W, BodyWant \in W, CatchesWithin(f),
         Bare(f) => Uncaught(BodyWant), NEW throws, NEW n \in 0 .. Len(f.blk)
  PROVE  LET h == EmitBody(f, throws) IN
         Beyond(n, f, h, W) /\ h.cur > n /\ Len(h.blk) > Len(f.blk)
<1> DEFINE m == LastBlock(NewBlock(f))
           w == BodyWant
           f1 == NewBlock(f)
           f2 == WithCur(f1, m)
           h == CallOrInvoke(f2, FALSE, w)
<1>0. 1 \in {0, 1}
  OBVIOUS
<1>1. Len(f.blk) \in Nat
  BY <1>0, Lengths
<1>2. WellFormed(f1, 1, W) /\ Kept(f, f1) /\ Len(f1.blk) = Len(f.blk) + 1 /\ m = Len(f.blk) + 1
  BY <1>0, NewBlockOk
<1>3. EmitBody(f, throws) = IF throws THEN h ELSE f2
  BY DEF EmitBody, BodyWant, WithCur
<1>4. m \in 1 .. Len(f1.blk) /\ n < m /\ n \in Nat
  BY <1>1, <1>2
<1> HIDE DEF m, w, f1
<1>5. WellFormed(f2, 1, W) /\ Kept(f1, f2) /\ f2.cur = m /\ f2.blk = f1.blk
  <2>1. f2 = WithCur(f1, m)
    OBVIOUS
  <2> HIDE DEF f2
  <2> QED
    BY <1>0, <1>2, <1>4, <2>1, SetCurOk
<1> HIDE DEF f2
<1>6. Grows(f, f2, W)
  <2>1. Grows(f, f1, W) /\ Grows(f1, f2, W)
    BY <1>2, <1>5 DEF Grows
  <2> QED
    BY <2>1, GrowsTrans
<1>7. Beyond(n, f, f2, W)
  BY <1>6, GrowsBeyond
<1>8. CatchesWithin(f2) /\ (Bare(f2) => Uncaught(w))
  BY <1>7 DEF Beyond, Same, CatchesWithin, Bare, w
<1>9. Beyond(n, f2, h, W) /\ h.cur > n
  <2>1. n < f2.cur /\ w \in W
    BY <1>4, <1>5 DEF w
  <2> QED
    BY <1>4, <1>5, <1>8, <2>1, CallBeyond
<1> HIDE DEF h
<1>10. Beyond(n, f, h, W)
  BY <1>4, <1>7, <1>9, BeyondTrans
<1>11. Len(h.blk) \in Nat /\ Len(h.blk) >= Len(f2.blk) /\ Len(f2.blk) = Len(f.blk) + 1
  BY <1>2, <1>5, <1>9, BeyondFacts
<1> QED
  BY <1>1, <1>3, <1>4, <1>5, <1>7, <1>9, <1>10, <1>11

-----------------------------------------------------------------------------
(* Try statements                                                          *)

Closed(f, endbb) == SetTerm(f, f.cur, Br(endbb))
BodyOp(c, a, x) ==
  [f |-> Closed(EmitBody(a.f, c.throws), c.endbb), bodies |-> Append(a.bodies, LastBlock(a.f) + 1)]
BodyInv(c, k, a) ==
  /\ Beyond(c.n, c.f, a.f, c.W)
  /\ a.bodies \in Seq(c.n + 1 .. Len(a.f.blk)) /\ Len(a.bodies) = k
  /\ a = [f |-> a.f, bodies |-> a.bodies]
BodyFold == INSTANCE FoldFacts WITH Op <- BodyOp, Inv <- BodyInv

(* A catch body ends with a branch to the block after the statement.       *)
LEMMA ClosedOk ==
  ASSUME NEW W, NEW f, WellFormed(f, 1, W), NEW endbb \in 1 .. Len(f.blk)
  PROVE  Grows(f, Closed(f, endbb), W) /\ Len(Closed(f, endbb).blk) = Len(f.blk)
<1> DEFINE b == f.cur
<1>0. 1 \in {0, 1}
  OBVIOUS
<1>1. b \in 1 .. Len(f.blk)
  BY <1>0, Lengths
<1> HIDE DEF b
<1>2. WellFormed(SetTerm(f, b, Br(endbb)), 1, W) /\ Kept(f, SetTerm(f, b, Br(endbb)))
      /\ Len(SetTerm(f, b, Br(endbb)).blk) = Len(f.blk)
  BY <1>0, <1>1, BrOk
<1> QED
  BY <1>2 DEF Grows, Closed, b

(* emitCatchBodies: one body for each clause, in new blocks, by induction  *)
(* over the fold.                                                          *)
LEMMA EmitCatchBodiesOk ==
  ASSUME NEW W, NEW f, WellFormed(f, 1, W), NoWant \in W, BodyWant \in W, CatchesWithin(f),
         Bare(f) => Uncaught(BodyWant), NEW throws, NEW n \in 0 .. Len(f.blk),
         NEW endbb \in 1 .. Len(f.blk), NEW T, NEW list \in Seq(T)
  PROVE  LET r == EmitCatchBodies(f, list, endbb, throws) IN
         /\ Beyond(n, f, r.f, W)
         /\ r.bodies \in Seq(n + 1 .. Len(r.f.blk)) /\ Len(r.bodies) = Len(list)
         /\ r = [f |-> r.f, bodies |-> r.bodies]
<1> DEFINE c == [f |-> f, W |-> W, n |-> n, endbb |-> endbb, throws |-> throws]
           base == [f |-> f, bodies |-> <<>>]
           r == EmitCatchBodies(f, list, endbb, throws)
<1>0. c.f = f /\ c.W = W /\ c.n = n /\ c.endbb = endbb /\ c.throws = throws /\ 1 \in {0, 1}
      /\ base.f = f /\ base.bodies = <<>> /\ base = [f |-> base.f, bodies |-> base.bodies]
  OBVIOUS
<1>1. r = BodyFold!Folding(c, base, list)
  <2> HIDE DEF base
  <2> QED
    BY DEF base, EmitCatchBodies, BodyFold!Folding, BodyOp, Closed, FoldLeft, MapThenFoldSet, BodyFold!MapThenFoldSet, Max, BodyFold!Largest
<1> HIDE DEF c, base, r
<1>2. Len(f.blk) \in Nat /\ n \in Nat
  BY <1>0, Lengths
<1>3. BodyInv(c, 0, base)
  <2>1. Grows(f, f, W)
    BY GrowsRefl
  <2>2. Beyond(n, f, f, W)
    BY <2>1, GrowsBeyond
  <2> QED
    BY <1>0, <2>2 DEF BodyInv
<1>4. ASSUME NEW k \in 1 .. Len(list), NEW a, BodyInv(c, k - 1, a)
      PROVE  BodyInv(c, k, BodyOp(c, a, list[k]))
  <2> DEFINE x == a.f
             e == EmitBody(x, throws)
             h == Closed(e, endbb)
             m == Len(x.blk) + 1
             q == Append(a.bodies, m)
  <2>1. /\ Beyond(n, f, x, W)
        /\ a.bodies \in Seq(n + 1 .. Len(x.blk)) /\ Len(a.bodies) = k - 1
    BY <1>0, <1>4 DEF BodyInv
  <2>2. BodyOp(c, a, list[k]) = [f |-> h, bodies |-> q]
    BY <1>0 DEF BodyOp, LastBlock
  <2> HIDE DEF x
  <2>3. WellFormed(x, 1, W) /\ Len(x.blk) \in Nat /\ Len(x.blk) >= Len(f.blk) /\ endbb \in 1 .. Len(x.blk)
    BY <2>1, BeyondFacts
  <2>4. n \in 0 .. Len(x.blk) /\ CatchesWithin(x) /\ (Bare(x) => Uncaught(BodyWant))
    <3>1. n \in 0 .. Len(x.blk)
      BY <1>2, <2>3
    <3> QED
      BY <2>1, <3>1 DEF Beyond, Same, CatchesWithin, Bare
  <2>5. Beyond(n, x, e, W) /\ Len(e.blk) > Len(x.blk)
    BY <2>3, <2>4, EmitBodyOk
  <2> HIDE DEF e
  <2>6. Beyond(n, f, e, W)
    BY <1>2, <2>1, <2>5, BeyondTrans
  <2>7. WellFormed(e, 1, W) /\ Len(e.blk) \in Nat /\ endbb \in 1 .. Len(e.blk)
    BY <2>6, BeyondFacts
  <2>8. Grows(e, h, W) /\ Len(h.blk) = Len(e.blk)
    BY <2>7, ClosedOk
  <2> HIDE DEF h
  <2>9. Beyond(n, e, h, W)
    <3>1. n \in 0 .. Len(e.blk)
      BY <1>2, <2>3, <2>4, <2>5, <2>7
    <3> QED
      BY <2>7, <2>8, <3>1, GrowsBeyond
  <2>10. Beyond(n, f, h, W)
    BY <1>2, <2>6, <2>9, BeyondTrans
  <2>11. q \in Seq(n + 1 .. Len(h.blk)) /\ Len(q) = k
    <3> DEFINE R == n + 1 .. Len(h.blk)
               s == a.bodies
    <3>1. n + 1 .. Len(x.blk) \subseteq R /\ m \in R
      BY <1>2, <2>3, <2>4, <2>5, <2>7, <2>8
    <3>2. s \in Seq(R)
      BY <2>1, <3>1, SeqMono
    <3> HIDE DEF R, m, s
    <3>3. Append(s, m) \in Seq(R) /\ Len(Append(s, m)) = Len(s) + 1
      BY <3>1, <3>2, SeqAppend
    <3>4. Len(s) = k - 1
      BY <2>1 DEF s
    <3> QED
      BY <3>3, <3>4 DEF R, s
  <2> HIDE DEF q
  <2> DEFINE u == BodyOp(c, a, list[k])
  <2>12. u.f = h /\ u.bodies = q /\ u = [f |-> u.f, bodies |-> u.bodies]
    BY <2>2
  <2> HIDE DEF u
  <2> QED
    BY <1>0, <2>10, <2>11, <2>12 DEF BodyInv, u
<1>5. BodyInv(c, Len(list), BodyFold!Folding(c, base, list))
  BY <1>3, <1>4, WellOrdered, BodyFold!Folded DEF BodyFold!LeastNumbers
<1> QED
  BY <1>0, <1>1, <1>5 DEF BodyInv, r

(* The handlers of a catchswitch, in front of what it unwinds to.          *)
WithHandlers(f, b, q) == [f EXCEPT !.blk[b].term.to = q \o @]

(* The handlers of a catchswitch filled in.                                *)
LEMMA WithHandlersOk ==
  ASSUME NEW z \in {0, 1}, NEW W, NEW f, WellFormed(f, z, W), NEW b \in 1 .. Len(f.blk),
         NEW q \in Seq(1 .. Len(f.blk))
  PROVE  LET h == WithHandlers(f, b, q) IN
         WellFormed(h, z, W) /\ Kept(f, h) /\ Len(h.blk) = Len(f.blk)
<1> DEFINE n == Len(f.blk)
           t == f.blk[b].term
           x == q \o t.to
           t2 == [t EXCEPT !.to = x]
           h == SetTerm(f, b, t2)
<1>1. n \in Nat /\ f.blk[b] \in BlockSet(z, n, W) /\ DOMAIN f.blk = 1 .. n
  BY Lengths
<1>2. t \in TermSet(z, n)
  BY <1>1 DEF BlockSet
<1>3. f.msvc => t.op # "switch"
  BY <1>1 DEF WellFormed, FuncletBlocks
<1>4. WithHandlers(f, b, q) = h
  BY DEF WithHandlers, SetTerm
<1> HIDE DEF t
<1>5. x \in Seq(z .. n)
  <2>1. t.to \in Seq(z .. n)
    BY <1>2 DEF TermSet
  <2>2. 1 .. n \subseteq z .. n
    BY <1>1
  <2>3. q \in Seq(z .. n)
    BY <2>2, SeqMono
  <2> DEFINE y == t.to
             R == z .. n
  <2>4. y \in Seq(R) /\ q \in Seq(R)
    BY <2>1, <2>3
  <2> HIDE DEF y, R
  <2>5. q \o y \in Seq(R)
    BY <2>4, SeqConcat
  <2> QED
    BY <2>5 DEF y, R
<1> HIDE DEF x
<1>6. t2 \in TermSet(z, n) /\ t2.op = t.op
  BY <1>2, <1>5 DEF TermSet
<1> HIDE DEF t2
<1>7. WellFormed(h, z, W) /\ Kept(f, h) /\ Len(h.blk) = Len(f.blk)
  BY <1>3, <1>6, SetTermOk
<1> QED
  BY <1>4, <1>7

(* A scope is pushed around the visitor, the rest is as it was.            *)
Pushes(n, f, h, W) ==
  /\ WellFormed(h, 1, W) /\ h.msvc = f.msvc /\ h.catches = f.catches /\ h.labels = f.labels
  /\ h.loops = f.loops /\ Len(h.blk) >= Len(f.blk)
  /\ Len(h.scopes) = Len(f.scopes) + 1 /\ h.gotos = Append(f.gotos, <<>>)
  /\ WantsOf(f, h, 1 .. n) /\ NewPlain(f, h)

(* A scope pushed after code in new blocks.                                *)
LEMMA PushBeyond ==
  ASSUME NEW W, NEW f, WellFormed(f, 1, W), NEW n \in 0 .. Len(f.blk), NEW e, Beyond(n, f, e, W),
         NEW begin \in 1 .. Len(e.blk), NEW end \in 1 .. Len(e.blk)
  PROVE  LET h == PushCleanup(e, begin, end) IN
         Pushes(n, f, h, W) /\ h.blk = e.blk
<1> DEFINE h == PushCleanup(e, begin, end)
<1>0. 1 \in {0, 1}
  OBVIOUS
<1>1. WellFormed(e, 1, W) /\ Len(e.blk) \in Nat /\ Len(e.blk) >= Len(f.blk) /\ n \in Nat
  <2>1. WellFormed(e, 1, W) /\ Len(e.blk) \in Nat /\ Len(e.blk) >= Len(f.blk) /\ Len(f.blk) \in Nat
    BY BeyondFacts
  <2> QED
    BY <2>1
<1>2. /\ WellFormed(h, 1, W) /\ Carries(e, h) /\ Len(h.scopes) = Len(e.scopes) + 1
      /\ h.gotos = Append(e.gotos, <<>>) /\ h.blk = e.blk
  BY <1>0, <1>1, PushCleanupOk
<1> HIDE DEF h
<1>3. WantsOf(f, h, 1 .. n) /\ NewPlain(f, h)
  BY <1>2 DEF Beyond, WantsOf, NewPlain, Carries
<1> QED
  BY <1>1, <1>2, <1>3 DEF Beyond, Same, Carries, Pushes, h

(* emitCatchBodiesMSVC: the bodies, and the catchswitch block as a scope   *)
(* of its own.                                                             *)
LEMMA EmitCatchBodiesMSVCOk ==
  ASSUME NEW W, NEW f, WellFormed(f, 1, W), NoWant \in W, BodyWant \in W, CatchesWithin(f),
         f.msvc, Bare(f) => Uncaught(BodyWant), NEW throws, NEW n \in 0 .. Len(f.blk),
         NEW endbb \in 1 .. Len(f.blk), NEW list \in Seq(Classes)
  PROVE  LET r == EmitCatchBodiesMSVC(f, list, endbb, throws) IN
         /\ Pushes(n, f, r.f, W)
         /\ r.bodies \in Seq(n + 1 .. Len(r.f.blk)) /\ Len(r.bodies) = Len(list)
         /\ r = [f |-> r.f, bodies |-> r.bodies]
<1> DEFINE nil == 0
           h0 == IF f.scopes # <<>> THEN GetLandingPad(f) ELSE WithStart(f, nil)
           to == IF h0.start = 0 THEN <<>> ELSE <<h0.start>>
           t == Term("catchswitch", list, to)
           h1 == AddBlock(h0, Block(t))
           b == LastBlock(h1)
           done == EmitCatchBodies(h1, list, endbb, throws)
           x == done.f
           q == done.bodies
           y == WithHandlers(x, b, q)
           h == PushCleanup(y, b, b)
<1>0. 1 \in {0, 1} /\ nil \in 0 .. Len(f.blk)
  <2>1. 1 \in {0, 1}
    OBVIOUS
  <2>2. Len(f.blk) \in Nat
    BY <2>1, Lengths
  <2> QED
    BY <2>2
<1>1. EmitCatchBodiesMSVC(f, list, endbb, throws) = [done EXCEPT !.f = h]
  BY DEF EmitCatchBodiesMSVC, WithStart, WithHandlers
<1>2. Emits(f, h0, 1, W) /\ h0.start \in 0 .. Len(h0.blk)
  <2>1. CASE f.scopes # <<>>
    <3> DEFINE e == GetLandingPad(f)
    <3>1. Emits(f, e, 1, W) /\ e.start \in 1 .. Len(e.blk)
      BY <2>1, GetLandingPadOk
    <3>2. h0 = e
      BY <2>1
    <3> HIDE DEF e, h0
    <3>3. Len(e.blk) \in Nat
      BY <1>0, <3>1, EmitsFacts
    <3> QED
      BY <3>1, <3>2, <3>3
  <2>2. CASE f.scopes = <<>>
    <3> DEFINE e == WithStart(f, nil)
    <3>0. Emits(f, f, 1, W)
      BY EmitsRefl
    <3>1. h0 = e
      BY <2>2
    <3> HIDE DEF nil, h0
    <3>2. Emits(f, e, 1, W) /\ e.blk = f.blk /\ e.start = nil
      BY <1>0, <3>0, StartEmits
    <3> QED
      BY <1>0, <3>1, <3>2
  <2> QED
    BY <2>1, <2>2
<1> HIDE DEF nil, h0
<1>3. WellFormed(h0, 1, W) /\ Len(h0.blk) \in Nat /\ Len(h0.blk) >= Len(f.blk) /\ Len(f.blk) \in Nat
  BY <1>0, <1>2, EmitsFacts
<1> DEFINE m == Len(h0.blk) + 1
<1>4. t \in TermSet(1, m) /\ t.op = "catchswitch"
  <2>0. h0.start \in 0 .. Len(h0.blk) /\ Len(h0.blk) \in Nat
    BY <1>2, <1>3
  <2>1. to \in Seq(1 .. m) /\ "catchswitch" \in Ops
    <3> DEFINE z == h0.start
               k == Len(h0.blk)
    <3>0. z \in 0 .. k /\ k \in Nat
      BY <2>0
    <3> HIDE DEF z, k
    <3>1. z # 0 => z \in 1 .. k + 1
      BY <3>0
    <3>2. (IF z = 0 THEN <<>> ELSE <<z>>) \in Seq(1 .. k + 1)
      <4> DEFINE R == 1 .. k + 1
      <4>1. z # 0 => z \in R
        BY <3>1
      <4> HIDE DEF R
      <4>2. <<>> \in Seq(R)
        OBVIOUS
      <4>3. z # 0 => <<z>> \in Seq(R)
        BY <4>1
      <4> QED
        BY <4>2, <4>3 DEF R
    <3> QED
      BY <3>2 DEF Ops, z, k
  <2>2. list \in Seq(Nat \cup Classes)
    <3>1. Classes \subseteq Nat \cup Classes
      OBVIOUS
    <3> QED
      BY <3>1, SeqMono
  <2>3. m \in Nat
    BY <1>3
  <2> HIDE DEF m, to
  <2> QED
    BY <1>0, <2>1, <2>2, <2>3, Terms
<1> HIDE DEF t
<1>5. WellFormed(h1, 1, W) /\ Kept(h0, h1) /\ Len(h1.blk) = m /\ b = m
  BY <1>0, <1>3, <1>4, AddBlockOk
<1> HIDE DEF h1, b
<1>6. Grows(f, h1, W)
  <2>1. Grows(f, h0, W) /\ Grows(h0, h1, W)
    BY <1>2, <1>5 DEF Grows, Emits
  <2> QED
    BY <2>1, GrowsTrans
<1>7. Beyond(n, f, h1, W)
  BY <1>6, GrowsBeyond
<1>8. CatchesWithin(h1) /\ (Bare(h1) => Uncaught(BodyWant))
  BY <1>7 DEF Beyond, Same, CatchesWithin, Bare
<1>9. n \in 0 .. Len(h1.blk) /\ endbb \in 1 .. Len(h1.blk) /\ b \in 1 .. Len(h1.blk) /\ n \in Nat
  BY <1>3, <1>5
<1>10. /\ Beyond(n, h1, x, W)
       /\ q \in Seq(n + 1 .. Len(x.blk)) /\ Len(q) = Len(list)
       /\ done = [f |-> x, bodies |-> q]
  BY <1>5, <1>8, <1>9, EmitCatchBodiesOk
<1>11. done.f = x /\ done.bodies = q /\ [done EXCEPT !.f = h].bodies = q /\ [done EXCEPT !.f = h].f = h
       /\ [done EXCEPT !.f = h] = [f |-> h, bodies |-> q]
  <2>2. done = [f |-> done.f, bodies |-> done.bodies]
    BY <1>10
  <2> HIDE DEF done, h
  <2> QED
    BY <2>2
<1> HIDE DEF done, x, q
<1>12. WellFormed(x, 1, W) /\ Len(x.blk) \in Nat /\ Len(x.blk) >= Len(h1.blk)
  BY <1>5, <1>10, BeyondFacts
<1>13. Beyond(n, f, x, W)
  BY <1>7, <1>9, <1>10, BeyondTrans
<1>14. b \in 1 .. Len(x.blk) /\ q \in Seq(1 .. Len(x.blk)) /\ n \in 0 .. Len(x.blk)
  <2>1. n + 1 .. Len(x.blk) \subseteq 1 .. Len(x.blk) /\ b \in 1 .. Len(x.blk)
    BY <1>5, <1>9, <1>12
  <2>2. n \in 0 .. Len(x.blk)
    BY <1>5, <1>9, <1>12
  <2> QED
    BY <1>10, <2>1, <2>2, SeqMono
<1>15. WellFormed(y, 1, W) /\ Kept(x, y) /\ Len(y.blk) = Len(x.blk)
  BY <1>0, <1>12, <1>14, WithHandlersOk
<1> HIDE DEF y
<1>16. Beyond(n, f, y, W)
  <2>1. Grows(x, y, W)
    BY <1>15 DEF Grows
  <2>2. Beyond(n, x, y, W)
    BY <1>12, <1>14, <2>1, GrowsBeyond
  <2> QED
    BY <1>9, <1>13, <2>2, BeyondTrans
<1>17. Pushes(n, f, h, W) /\ h.blk = y.blk
  <2>1. b \in 1 .. Len(y.blk)
    BY <1>14, <1>15
  <2> QED
    BY <1>16, <2>1, PushBeyond
<1> HIDE DEF h
<1> QED
  BY <1>1, <1>10, <1>11, <1>15, <1>17

(* A try statement is around the visitor: with funclets its catchswitch    *)
(* block is a scope of its own.                                            *)
Tries(n, f, h, tc, W) ==
  /\ WellFormed(h, 1, W) /\ h.msvc = f.msvc /\ h.labels = f.labels /\ h.loops = f.loops
  /\ Len(h.blk) >= Len(f.blk) /\ WantsOf(f, h, 1 .. n) /\ NewPlain(f, h)
  /\ Len(h.scopes) = Len(f.scopes) + Up(f.msvc)
  /\ h.gotos = IF f.msvc THEN Append(f.gotos, <<>>) ELSE f.gotos
  /\ h.catches = Append(f.catches, tc)

(* TryCatchScope has its type.                                             *)
LEMMA TryCatchScopeOk ==
  ASSUME NEW n \in Nat, NEW m \in Nat, NEW list \in Seq(Classes), NEW bodies \in Seq(1 .. n),
         Len(bodies) = Len(list)
  PROVE  TryCatchScope(m, list, bodies) \in CatchSet(n)
<1> DEFINE blocks == [k \in 1 .. Len(list) |-> [class |-> list[k], body |-> bodies[k]]]
           x == \E k \in 1 .. Len(list) : list[k] # "Exception"
<1>1. DOMAIN list = 1 .. Len(list) /\ Len(list) \in Nat
  OBVIOUS
<1>2. TryCatchScope(m, list, bodies) = [scope |-> m, nonExceptions |-> x, blocks |-> blocks]
  BY <1>1 DEF TryCatchScope
<1>3. \A k \in 1 .. Len(list) : [class |-> list[k], body |-> bodies[k]] \in ClauseSet(n)
  BY DEF ClauseSet
<1>4. blocks \in Seq(ClauseSet(n))
  <2> DEFINE T == ClauseSet(n)
             l == Len(list)
  <2>1. \A k \in 1 .. l : blocks[k] \in T
    BY <1>3
  <2>2. blocks = [k \in 1 .. l |-> blocks[k]] /\ l \in Nat
    BY <1>1
  <2> HIDE DEF blocks, T, l
  <2>3. blocks \in Seq(T)
    BY <2>1, <2>2, SeqBuilt
  <2> QED
    BY <2>3 DEF T
<1>5. x \in BOOLEAN
  OBVIOUS
<1> HIDE DEF x, blocks
<1> QED
  BY <1>2, <1>4, <1>5 DEF CatchSet

(* The stack of try statements and the pads of the innermost scope.        *)
Registered(f, P, tc) == WithCatches(WithPads(f, P), Append(f.catches, tc))

(* pushTryCatch: the statement registered and a pad slot added.            *)
LEMMA RegisterOk ==
  ASSUME NEW W, NEW f, WellFormed(f, 1, W), NEW tc \in CatchSet(Len(f.blk)),
         NEW P \in Seq(Seq(0 .. Len(f.blk))), Len(P) = Len(f.pads)
  PROVE  LET h == Registered(f, P, tc) IN
         /\ WellFormed(h, 1, W) /\ h.msvc = f.msvc /\ h.labels = f.labels /\ h.loops = f.loops
         /\ h.blk = f.blk /\ h.scopes = f.scopes /\ h.gotos = f.gotos /\ h.plain = f.plain
         /\ h.catches = Append(f.catches, tc) /\ h.cur = f.cur
<1> DEFINE C == Append(f.catches, tc)
           e == WithPads(f, P)
           h == WithCatches(e, C)
<1>0. 1 \in {0, 1} /\ e = WithPads(f, P) /\ h = WithCatches(e, C)
  OBVIOUS
<1>1. C \in Seq(CatchSet(Len(f.blk)))
  <2> DEFINE T == CatchSet(Len(f.blk))
             s == f.catches
  <2>1. s \in Seq(T)
    BY DEF WellFormed, FunctionSet
  <2> HIDE DEF T, s
  <2> QED
    BY <2>1 DEF T, s
<1> HIDE DEF e, h, C
<1>2. /\ WellFormed(e, 1, W)
      /\ e.msvc = f.msvc /\ e.blk = f.blk /\ e.cur = f.cur /\ e.start = f.start
      /\ e.scopes = f.scopes /\ e.catches = f.catches /\ e.gotos = f.gotos /\ e.labels = f.labels
      /\ e.loops = f.loops /\ e.ret = f.ret /\ e.resume = f.resume /\ e.plain = f.plain
  BY <1>0, PutPads
<1>3. C \in Seq(CatchSet(Len(e.blk)))
  BY <1>1, <1>2
<1>4. /\ WellFormed(h, 1, W)
      /\ h.msvc = e.msvc /\ h.blk = e.blk /\ h.cur = e.cur
      /\ h.scopes = e.scopes /\ h.gotos = e.gotos /\ h.labels = e.labels
      /\ h.loops = e.loops /\ h.plain = e.plain /\ h.catches = C
  BY <1>0, <1>2, <1>3, PutCatches
<1> QED
  BY <1>2, <1>4 DEF C, h, e, Registered

(* pushTryCatch as a whole: one try statement more, for funclets one scope *)
(* more.                                                                   *)
LEMMA PushTryCatchOk ==
  ASSUME NEW W, NEW f, WellFormed(f, 1, W), NoWant \in W, BodyWant \in W, CatchesWithin(f),
         Bare(f) => Uncaught(BodyWant), NEW throws, NEW n \in 0 .. Len(f.blk),
         NEW endbb \in 1 .. Len(f.blk), NEW list \in Seq(Classes)
  PROVE  LET r == PushTryCatch(f, list, endbb, throws) IN
         /\ Tries(n, f, r.f, TryCatchScope(Len(f.scopes), list, r.bodies), W)
         /\ r.bodies \in Seq(n + 1 .. Len(r.f.blk)) /\ Len(r.bodies) = Len(list)
<1> DEFINE m == Len(f.scopes)
           done == IF f.msvc THEN EmitCatchBodiesMSVC(f, list, endbb, throws)
                   ELSE EmitCatchBodies(f, list, endbb, throws)
           e == done.f
           q == done.bodies
           P == IF f.msvc THEN e.pads ELSE [e.pads EXCEPT ![m + 1] = Append(@, 0)]
           tc == TryCatchScope(m, list, q)
           C == Append(e.catches, tc)
           h == Registered(e, P, tc)
<1>0. 1 \in {0, 1}
  OBVIOUS
<1>1. PushTryCatch(f, list, endbb, throws) = [done EXCEPT !.f.pads = P, !.f.catches = C]
  BY DEF PushTryCatch, CurrentCleanupScope
<1>2. /\ WellFormed(e, 1, W) /\ e.msvc = f.msvc /\ e.catches = f.catches /\ e.labels = f.labels
      /\ e.loops = f.loops /\ Len(e.blk) >= Len(f.blk)
      /\ WantsOf(f, e, 1 .. n) /\ NewPlain(f, e)
      /\ Len(e.scopes) = Len(f.scopes) + Up(f.msvc)
      /\ e.gotos = IF f.msvc THEN Append(f.gotos, <<>>) ELSE f.gotos
      /\ q \in Seq(n + 1 .. Len(e.blk)) /\ Len(q) = Len(list)
      /\ done = [f |-> e, bodies |-> q]
  <2>0. Len(f.scopes) \in Nat
    BY <1>0, Lengths
  <2>1. CASE f.msvc
    <3> DEFINE r == EmitCatchBodiesMSVC(f, list, endbb, throws)
    <3>1. /\ Pushes(n, f, r.f, W)
          /\ r.bodies \in Seq(n + 1 .. Len(r.f.blk)) /\ Len(r.bodies) = Len(list)
          /\ r = [f |-> r.f, bodies |-> r.bodies]
      BY <2>1, EmitCatchBodiesMSVCOk
    <3>2. done = r
      BY <2>1
    <3> HIDE DEF r, done
    <3> QED
      BY <2>1, <3>1, <3>2 DEF Pushes, Up
  <2>2. CASE ~f.msvc
    <3> DEFINE r == EmitCatchBodies(f, list, endbb, throws)
    <3>1. /\ Beyond(n, f, r.f, W)
          /\ r.bodies \in Seq(n + 1 .. Len(r.f.blk)) /\ Len(r.bodies) = Len(list)
          /\ r = [f |-> r.f, bodies |-> r.bodies]
      BY EmitCatchBodiesOk
    <3>2. done = r
      BY <2>2
    <3> HIDE DEF r, done
    <3> QED
      BY <2>0, <2>2, <3>1, <3>2 DEF Beyond, Same, Up
  <2> QED
    BY <2>1, <2>2
<1> HIDE DEF done, e, q
<1>3. m \in Nat /\ Len(e.blk) \in Nat /\ Len(f.blk) \in Nat /\ n \in Nat
  <2>1. Len(e.blk) \in Nat /\ Len(f.blk) \in Nat /\ m \in Nat
    BY <1>0, <1>2, Lengths
  <2> QED
    BY <2>1
<1>4. P \in Seq(Seq(0 .. Len(e.blk))) /\ Len(P) = Len(e.pads)
  <2> DEFINE s == e.pads
             T == 0 .. Len(e.blk)
             U == Seq(T)
             k == m + 1
             nil == 0
  <2>1. s \in Seq(U) /\ Len(s) = Len(e.scopes) + 1 /\ Len(e.scopes) \in Nat
    BY <1>0, <1>2, GotoFacts, Lengths
  <2>2. k \in 1 .. Len(s)
    <3>1. Len(e.scopes) = m + Up(f.msvc)
      BY <1>2
    <3>2. Up(f.msvc) \in Nat
      BY DEF Up
    <3> HIDE DEF m
    <3> QED
      BY <1>3, <2>1, <3>1, <3>2
  <2>3. nil \in T
    BY <1>3
  <2> DEFINE Z == [s EXCEPT ![k] = Append(s[k], nil)]
  <2>4. P = IF f.msvc THEN s ELSE Z
    OBVIOUS
  <2> HIDE DEF s, T, k, nil, P
  <2>5. s[k] \in U
    <3> HIDE DEF U
    <3> QED
      BY <2>1, <2>2
  <2> DEFINE u == s[k]
  <2>6. Append(u, nil) \in U
    <3> HIDE DEF u
    <3> QED
      BY <2>3, <2>5 DEF u
  <2> HIDE DEF U
  <2>7. Z \in Seq(U) /\ Len(Z) = Len(s)
    BY <2>1, <2>2, <2>6
  <2> HIDE DEF Z
  <2> QED
    BY <2>1, <2>4, <2>7 DEF U, T, s
<1> HIDE DEF P
<1>5. q \in Seq(1 .. Len(e.blk))
  <2>1. n + 1 .. Len(e.blk) \subseteq 1 .. Len(e.blk)
    BY <1>3
  <2> QED
    BY <1>2, <2>1, SeqMono
<1>6. tc \in CatchSet(Len(e.blk))
  BY <1>2, <1>3, <1>5, TryCatchScopeOk
<1> HIDE DEF tc
<1>7. /\ WellFormed(h, 1, W) /\ h.msvc = e.msvc /\ h.labels = e.labels /\ h.loops = e.loops
      /\ h.blk = e.blk /\ h.scopes = e.scopes /\ h.gotos = e.gotos /\ h.plain = e.plain
      /\ h.catches = C
  BY <1>2, <1>4, <1>6, RegisterOk, ZenonT(60)
<1>8. [done EXCEPT !.f.pads = P, !.f.catches = C] = [f |-> h, bodies |-> q]
  <2>1. h = WithCatches(WithPads(e, P), C)
    BY DEF Registered
  <2>2. done = [f |-> e, bodies |-> q]
    BY <1>2
  <2> HIDE DEF C, h
  <2> DEFINE d1 == [done EXCEPT !.f.pads = P]
             e1 == [e EXCEPT !.pads = P]
  <2>3. d1 = [f |-> e1, bodies |-> q]
    BY <2>2
  <2>4. [done EXCEPT !.f.pads = P, !.f.catches = C] = [d1 EXCEPT !.f.catches = C]
    OBVIOUS
  <2>5. h = [e1 EXCEPT !.catches = C]
    BY <2>1 DEF WithCatches, WithPads
  <2> HIDE DEF d1, e1
  <2>6. [d1 EXCEPT !.f.catches = C] = [f |-> [e1 EXCEPT !.catches = C], bodies |-> q]
    BY <2>3
  <2> QED
    BY <2>4, <2>5, <2>6
<1> HIDE DEF h
<1>9. WantsOf(f, h, 1 .. n) /\ NewPlain(f, h)
  BY <1>2, <1>7 DEF WantsOf, NewPlain
<1>10. Tries(n, f, h, tc, W)
  BY <1>2, <1>7, <1>9 DEF Tries
<1> DEFINE r == PushTryCatch(f, list, endbb, throws)
<1>11. r.f = h /\ r.bodies = q
  BY <1>1, <1>8
<1> HIDE DEF r
<1> QED
  BY <1>2, <1>7, <1>10, <1>11 DEF tc, m, r

(* The end of a try statement.  Without funclets only its pad and its      *)
(* clauses go.                                                             *)
LEMMA PopTryCatchPads ==
  ASSUME NEW W, NEW f, WellFormed(f, 1, W), ~f.msvc
  PROVE  LET h == PopTryCatch(f) IN
         /\ WellFormed(h, 1, W) /\ h.msvc = f.msvc /\ h.labels = f.labels /\ h.loops = f.loops
         /\ h.blk = f.blk /\ h.scopes = f.scopes /\ h.gotos = f.gotos /\ h.plain = f.plain
         /\ h.catches = Front(f.catches) /\ h.cur = f.cur
<1> DEFINE C == Front(f.catches)
           e == WithCatches(f, C)
           k == Len(f.scopes) + 1
           s == e.pads
           P == [s EXCEPT ![k] = Front(s[k])]
           h == WithPads(e, P)
<1>0. 1 \in {0, 1} /\ e = WithCatches(f, C)
  OBVIOUS
<1>1. PopTryCatch(f) = h
  BY DEF PopTryCatch, WithCatches, WithPads, CurrentCleanupScope
<1>2. C \in Seq(CatchSet(Len(f.blk)))
  <2> DEFINE T == CatchSet(Len(f.blk))
             c == f.catches
  <2>1. c \in Seq(T)
    BY DEF WellFormed, FunctionSet
  <2> HIDE DEF T, c
  <2>2. Front(c) \in Seq(T)
    BY <2>1, SeqFront
  <2> QED
    BY <2>2 DEF T, c
<1> HIDE DEF C, e
<1>3. /\ WellFormed(e, 1, W)
      /\ e.msvc = f.msvc /\ e.blk = f.blk /\ e.cur = f.cur
      /\ e.scopes = f.scopes /\ e.gotos = f.gotos /\ e.pads = f.pads /\ e.labels = f.labels
      /\ e.loops = f.loops /\ e.plain = f.plain /\ e.catches = C
  BY <1>0, <1>2, PutCatches
<1>4. P \in Seq(Seq(0 .. Len(e.blk))) /\ Len(P) = Len(e.pads) /\ h = WithPads(e, P)
  <2> DEFINE T == 0 .. Len(e.blk)
             U == Seq(T)
  <2>1. s \in Seq(U) /\ Len(s) = Len(e.scopes) + 1 /\ Len(e.scopes) \in Nat
    BY <1>0, <1>3, GotoFacts, Lengths
  <2>2. k \in 1 .. Len(s)
    BY <1>3, <2>1
  <2> HIDE DEF s, T, k
  <2>3. s[k] \in U
    <3> HIDE DEF U
    <3> QED
      BY <2>1, <2>2
  <2> DEFINE u == s[k]
  <2>4. Front(u) \in U
    <3> HIDE DEF u
    <3> QED
      BY <2>3, SeqFront DEF u
  <2> HIDE DEF U
  <2>5. P \in Seq(U) /\ Len(P) = Len(s)
    BY <2>1, <2>2, <2>4
  <2> HIDE DEF P
  <2> QED
    BY <2>5 DEF U, T, s
<1> HIDE DEF P, h
<1>5. /\ WellFormed(h, 1, W)
      /\ h.msvc = e.msvc /\ h.blk = e.blk /\ h.cur = e.cur
      /\ h.scopes = e.scopes /\ h.catches = e.catches /\ h.gotos = e.gotos /\ h.labels = e.labels
      /\ h.loops = e.loops /\ h.plain = e.plain
  BY <1>0, <1>3, <1>4, PutPads
<1> QED
  BY <1>1, <1>3, <1>5 DEF C

(* popTryCatch: the statement gone, for funclets its scope popped with its *)
(* gotos.                                                                  *)
LEMMA PopTryCatchOk ==
  ASSUME NEW W, NEW f, WellFormed(f, 1, W), f.msvc => f.scopes # <<>>
  PROVE  LET e == WithCatches(f, Front(f.catches)) IN
         PopsTo(e, PopTryCatch(f), Len(f.scopes) - Up(f.msvc), W)
<1> DEFINE C == Front(f.catches)
           e == WithCatches(f, C)
           h == PopTryCatch(f)
<1>0. 1 \in {0, 1} /\ e = WithCatches(f, C)
  OBVIOUS
<1>1. Len(f.scopes) \in Nat /\ Len(f.blk) \in Nat
  BY <1>0, Lengths
<1>2. C \in Seq(CatchSet(Len(f.blk)))
  <2> DEFINE T == CatchSet(Len(f.blk))
             c == f.catches
  <2>1. c \in Seq(T)
    BY DEF WellFormed, FunctionSet
  <2> HIDE DEF T, c
  <2>2. Front(c) \in Seq(T)
    BY <2>1, SeqFront
  <2> QED
    BY <2>2 DEF T, c
<1>3. f.msvc => h = PopCleanups(e, Len(f.scopes) - 1)
  BY DEF PopTryCatch, WithCatches, CurrentCleanupScope
<1> HIDE DEF C, e
<1>4. /\ WellFormed(e, 1, W)
      /\ e.msvc = f.msvc /\ e.blk = f.blk /\ e.cur = f.cur
      /\ e.scopes = f.scopes /\ e.gotos = f.gotos /\ e.labels = f.labels
      /\ e.loops = f.loops /\ e.plain = f.plain /\ e.catches = C
  BY <1>0, <1>2, PutCatches
<1>5. CASE f.msvc
  <2> DEFINE t == Len(f.scopes) - 1
  <2>1. t \in 0 .. Len(e.scopes)
    <3>1. Len(f.scopes) # 0
      BY <1>0, <1>5, Lengths
    <3> QED
      BY <1>1, <1>4, <3>1
  <2>2. t = Len(f.scopes) - Up(f.msvc)
    BY <1>5 DEF Up
  <2> HIDE DEF t, h
  <2>3. PopsTo(e, PopCleanups(e, t), t, W)
    BY <1>4, <2>1, PopCleanupsOk
  <2> QED
    BY <1>3, <1>5, <2>2, <2>3 DEF h, e, C, t
<1>6. CASE ~f.msvc
  <2> DEFINE t == Len(f.scopes)
  <2>1. /\ WellFormed(h, 1, W) /\ h.msvc = f.msvc /\ h.labels = f.labels /\ h.loops = f.loops
        /\ h.blk = f.blk /\ h.scopes = f.scopes /\ h.gotos = f.gotos /\ h.plain = f.plain
        /\ h.catches = C /\ h.cur = f.cur
    BY <1>6, PopTryCatchPads DEF C
  <2> HIDE DEF h
  <2>2. Carries(e, h)
    BY <1>1, <1>4, <2>1 DEF Carries
  <2>3. Len(e.gotos) = t + 1 /\ t \in Nat
    BY <1>0, <1>1, <1>4, GotoFacts
  <2>4. t + 1 \in 1 .. Len(e.gotos) /\ t + 1 > t
    BY <2>3
  <2>5. PopsTo(e, h, t, W)
    BY <1>4, <2>1, <2>2, <2>4 DEF PopsTo
  <2>6. t = t - Up(f.msvc)
    BY <1>1, <1>6 DEF Up
  <2> QED
    BY <2>5, <2>6 DEF h, e, C
<1> QED
  BY <1>5, <1>6
(* Front and Last undo Append.                                             *)
LEMMA FrontAppend ==
  ASSUME NEW T, NEW s \in Seq(T), NEW x
  PROVE  Front(Append(s, x)) = s /\ Last(Append(s, x)) = x
<1> DEFINE q == Append(s, x)
<1>1. q \in Seq(T \cup {x}) /\ Len(q) = Len(s) + 1 /\ (\A k \in 1 .. Len(s) : q[k] = s[k])
      /\ q[Len(s) + 1] = x /\ s \in Seq(T \cup {x}) /\ Len(s) \in Nat
  OBVIOUS
<1> HIDE DEF q
<1>2. q # <<>> /\ Len(q) - 1 = Len(s)
  BY <1>1
<1>3. Front(q) \in Seq(T \cup {x}) /\ Len(Front(q)) = Len(s) /\ \A k \in 1 .. Len(s) : Front(q)[k] = q[k]
  BY <1>1, <1>2, SeqFront
<1> DEFINE r == Front(q)
<1> HIDE DEF r
<1>4. r = s
  BY <1>1, <1>3 DEF r
<1> QED
  BY <1>1, <1>4 DEF q, r, Last

(* Code in new blocks and then a try statement.                            *)
LEMMA BeyondTries ==
  ASSUME NEW W, NEW n \in Nat, NEW f, WellFormed(f, 1, W), NEW x, Beyond(n, f, x, W),
         NEW tc, NEW y, Tries(n, x, y, tc, W)
  PROVE  Tries(n, f, y, tc, W)
<1>0. 1 \in {0, 1}
  OBVIOUS
<1>1. Len(f.blk) \in Nat /\ Len(x.blk) \in Nat /\ Len(y.blk) \in Nat
  BY <1>0, Lengths DEF Beyond, Tries
<1>2. WantsOf(f, y, 1 .. n) /\ NewPlain(f, y)
  BY DEF Beyond, Tries, WantsOf, NewPlain
<1> QED
  BY <1>1, <1>2 DEF Beyond, Same, Tries

(* A try statement and then code in new blocks.                            *)
LEMMA TriesBeyond ==
  ASSUME NEW W, NEW n \in Nat, NEW f, WellFormed(f, 1, W), NEW tc, NEW x, Tries(n, f, x, tc, W),
         NEW y, Beyond(n, x, y, W)
  PROVE  Tries(n, f, y, tc, W)
<1>0. 1 \in {0, 1}
  OBVIOUS
<1>1. Len(f.blk) \in Nat /\ Len(x.blk) \in Nat /\ Len(y.blk) \in Nat
  BY <1>0, Lengths DEF Beyond, Tries
<1>2. WantsOf(f, y, 1 .. n) /\ NewPlain(f, y)
  BY DEF Beyond, Tries, WantsOf, NewPlain
<1> QED
  BY <1>1, <1>2 DEF Beyond, Same, Tries

(* Moving the insertion point changes no block.                            *)
LEMMA CurBeyond ==
  ASSUME NEW W, NEW f, WellFormed(f, 1, W), NEW n \in 0 .. Len(f.blk), NEW b \in 1 .. Len(f.blk)
  PROVE  LET h == WithCur(f, b) IN Beyond(n, f, h, W) /\ h.cur = b /\ h.blk = f.blk
<1> DEFINE h == WithCur(f, b)
<1>0. 1 \in {0, 1} /\ h = WithCur(f, b)
  OBVIOUS
<1> HIDE DEF h
<1>1. WellFormed(h, 1, W) /\ Kept(f, h) /\ h.cur = b /\ h.blk = f.blk
  BY <1>0, SetCurOk
<1>2. Grows(f, h, W)
  BY <1>1 DEF Grows
<1> QED
  BY <1>1, <1>2, GrowsBeyond DEF h

(* With the new try statement the scopes of all try statements are still   *)
(* in use.                                                                 *)
LEMMA TriesWithin ==
  ASSUME NEW W, NEW n \in Nat, NEW f, WellFormed(f, 1, W), CatchesWithin(f), NEW tc,
         tc.scope = Len(f.scopes), NEW x, Tries(n, f, x, tc, W)
  PROVE  CatchesWithin(x) /\ ~Bare(x)
<1> DEFINE s == f.catches
           m == Len(f.scopes)
           u == Up(f.msvc)
<1>0. 1 \in {0, 1}
  OBVIOUS
<1>1. m \in Nat /\ u \in {0, 1} /\ s \in Seq(CatchSet(Len(f.blk)))
  BY <1>0, Lengths DEF Up, WellFormed, FunctionSet
<1>2. x.catches = Append(s, tc) /\ x.msvc = f.msvc /\ Len(x.scopes) = m + u
  BY DEF Tries
<1>3. \A i \in 1 .. Len(s) : s[i].scope + u <= m
  BY DEF CatchesWithin, Up
<1>4. \A i \in 1 .. Len(s) : s[i].scope \in Nat
  <2>1. \A i \in 1 .. Len(s) : s[i] \in CatchSet(Len(f.blk))
    BY <1>1
  <2> QED
    BY <2>1 DEF CatchSet
<1>5. Len(x.catches) = Len(s) + 1 /\ Len(s) \in Nat
      /\ (\A i \in 1 .. Len(s) : x.catches[i] = s[i]) /\ x.catches[Len(s) + 1] = tc
  BY <1>1, <1>2
<1> HIDE DEF s, m, u
<1>6. ASSUME NEW i \in 1 .. Len(x.catches)
      PROVE  x.catches[i].scope + Up(x.msvc) <= Len(x.scopes)
  <2>0. Up(x.msvc) = u /\ tc.scope = m
    BY <1>2 DEF u, m
  <2>1. CASE i = Len(s) + 1
    BY <1>1, <1>2, <1>5, <2>0, <2>1
  <2>2. CASE i \in 1 .. Len(s)
    BY <1>1, <1>2, <1>3, <1>4, <1>5, <2>0, <2>2
  <2> QED
    BY <1>5, <2>1, <2>2
<1>7. CatchesWithin(x)
  BY <1>6 DEF CatchesWithin, Up
<1>8. Len(x.catches) # 0
  BY <1>5
<1> QED
  BY <1>7, <1>8 DEF Bare

(* The ghost of the call in a cleanup that catches what it throws.         *)
NestedWant(q) ==
  Throwing(Append(nest, [kind |-> "catch", cleanups |-> <<>>, list |-> <<"Throwable">>,
                         bodies |-> q, keep |-> InScope(nest)]), Thrown, TRUE)

(* The code of a finally block, its own try statement included, is in new  *)
(* blocks.                                                                 *)
LEMMA EmitCleanupOk ==
  ASSUME NEW W, NEW f, WellFormed(f, 1, W), NoWant \in W, BodyWant \in W,
         \A q \in Seq(Nat) : NestedWant(q) \in W, CatchesWithin(f),
         Bare(f) => Uncaught(BodyWant), NEW n, n = Len(f.blk),
         NEW kind, f.msvc => kind # "catches"
  PROVE  LET h == EmitCleanup(f, kind) IN
         Beyond(n, f, h, W) /\ h.cur > n /\ Len(h.blk) > n
<1>0. 1 \in {0, 1}
  OBVIOUS
<1>1. n \in Nat /\ n \in 0 .. n /\ n \in 0 .. Len(f.blk)
  BY <1>0, Lengths
<1>2. CASE kind # "catches"
  <2> DEFINE throws == kind = "throws"
             h == EmitBody(f, throws)
  <2>1. EmitCleanup(f, kind) = h
    BY <1>2 DEF EmitCleanup
  <2> HIDE DEF throws
  <2>2. Beyond(n, f, h, W) /\ h.cur > n /\ Len(h.blk) > Len(f.blk)
    BY <1>1, EmitBodyOk
  <2> QED
    BY <2>1, <2>2
<1>3. CASE kind = "catches"
  <2> DEFINE f0 == NewBlock(f)
             f1 == NewBlock(f0)
             body == n + 1
             endbb == n + 2
             f2 == WithCur(f1, body)
             list == <<"Throwable">>
             throws == FALSE
             try == PushTryCatch(f2, list, endbb, throws)
             x == try.f
             q == try.bodies
             tc == TryCatchScope(Len(f2.scopes), list, q)
             f3 == WithCur(x, body)
             w == NestedWant(q)
             f4 == CallOrInvoke(f3, FALSE, w)
             f5 == Closed(f4, endbb)
             f6 == PopTryCatch(f5)
             h == WithCur(f6, endbb)
  <2>1. EmitCleanup(f, kind) = h
    BY <1>3 DEF EmitCleanup, LastBlock, NestedWant, WithCur, Closed
  <2>2. WellFormed(f0, 1, W) /\ Kept(f, f0) /\ Len(f0.blk) = n + 1
    BY <1>0, NewBlockOk
  <2> HIDE DEF f0
  <2>3. WellFormed(f1, 1, W) /\ Kept(f0, f1) /\ Len(f1.blk) = Len(f0.blk) + 1
    BY <1>0, <2>2, NewBlockOk
  <2> HIDE DEF f1
  <2>4. Len(f1.blk) = n + 2
    BY <1>1, <2>2, <2>3
  <2>5. Beyond(n, f, f1, W)
    <3>1. Grows(f, f0, W) /\ Grows(f0, f1, W)
      BY <2>2, <2>3 DEF Grows
    <3>2. Grows(f, f1, W)
      BY <3>1, GrowsTrans
    <3> QED
      BY <1>1, <3>2, GrowsBeyond
  <2>6. body \in 1 .. n + 2 /\ endbb \in 1 .. n + 2 /\ n \in 0 .. n + 2 /\ n < body /\ endbb > n
        /\ n + 2 > n
    BY <1>1
  <2> HIDE DEF body, endbb
  <2>7. Beyond(n, f1, f2, W) /\ f2.cur = body /\ f2.blk = f1.blk
    BY <2>3, <2>4, <2>6, CurBeyond
  <2> HIDE DEF f2
  <2>8. Beyond(n, f, f2, W)
    BY <1>1, <2>5, <2>7, BeyondTrans
  <2>9. WellFormed(f2, 1, W) /\ CatchesWithin(f2) /\ (Bare(f2) => Uncaught(BodyWant))
    BY <2>8 DEF Beyond, Same, CatchesWithin, Bare
  <2>10. list \in Seq(Classes)
    BY DEF Classes
  <2> HIDE DEF list, throws
  <2>11. /\ Tries(n, f2, x, tc, W)
         /\ q \in Seq(n + 1 .. Len(x.blk)) /\ Len(q) = Len(list)
    <3>1. n \in 0 .. Len(f2.blk) /\ endbb \in 1 .. Len(f2.blk)
      BY <2>4, <2>6, <2>7
    <3> QED
      BY <2>9, <2>10, <3>1, PushTryCatchOk
  <2>12. tc.scope = Len(f2.scopes)
    BY DEF TryCatchScope
  <2> HIDE DEF try, x, q, tc
  <2>13. CatchesWithin(x) /\ ~Bare(x)
    BY <1>1, <2>9, <2>11, <2>12, TriesWithin
  <2>14. Tries(n, f, x, tc, W)
    BY <1>1, <2>8, <2>11, BeyondTries
  <2>15. WellFormed(x, 1, W) /\ Len(x.blk) \in Nat /\ Len(x.blk) >= n + 2
    <3>1. WellFormed(x, 1, W) /\ Len(x.blk) >= Len(f2.blk)
      BY <2>11 DEF Tries
    <3>2. Len(x.blk) \in Nat
      BY <1>0, <3>1, Lengths
    <3> QED
      BY <2>4, <2>7, <3>1, <3>2
  <2>16. body \in 1 .. Len(x.blk) /\ n \in 0 .. Len(x.blk)
    BY <1>1, <2>6, <2>15
  <2>17. Beyond(n, x, f3, W) /\ f3.cur = body
    BY <2>15, <2>16, CurBeyond
  <2> HIDE DEF f3
  <2>18. WellFormed(f3, 1, W) /\ CatchesWithin(f3) /\ (Bare(f3) => Uncaught(w))
    BY <2>13, <2>17 DEF Beyond, Same, CatchesWithin, Bare
  <2>19. w \in W
    <3>1. n + 1 .. Len(x.blk) \subseteq Nat
      BY <1>1, <2>15
    <3>2. q \in Seq(Nat)
      BY <2>11, <3>1, SeqMono
    <3> QED
      BY <3>2
  <2> HIDE DEF w
  <2>20. Beyond(n, f3, f4, W)
    <3>1. n < f3.cur
      BY <2>6, <2>17
    <3> QED
      BY <1>1, <2>18, <2>19, <3>1, CallBeyond
  <2> HIDE DEF f4
  <2>21. Tries(n, f, f3, tc, W)
    BY <1>1, <2>14, <2>17, TriesBeyond
  <2>22. Tries(n, f, f4, tc, W)
    BY <1>1, <2>20, <2>21, TriesBeyond
  <2>23. WellFormed(f4, 1, W) /\ Len(f4.blk) \in Nat /\ Len(f4.blk) >= n + 2
    <3>1. Len(f3.blk) >= Len(x.blk) /\ Len(f3.blk) \in Nat
      BY <2>15, <2>17, BeyondFacts
    <3>2. Len(f4.blk) >= Len(f3.blk) /\ Len(f4.blk) \in Nat /\ WellFormed(f4, 1, W)
      BY <2>18, <2>20, BeyondFacts
    <3> QED
      BY <1>1, <2>15, <3>1, <3>2
  <2>24. endbb \in 1 .. Len(f4.blk) /\ n \in 0 .. Len(f4.blk)
    BY <1>1, <2>6, <2>23
  <2>25. Grows(f4, f5, W) /\ Len(f5.blk) = Len(f4.blk)
    BY <2>23, <2>24, ClosedOk
  <2> HIDE DEF f5
  <2>26. Beyond(n, f4, f5, W)
    BY <2>23, <2>24, <2>25, GrowsBeyond
  <2>27. Tries(n, f, f5, tc, W)
    BY <1>1, <2>22, <2>26, TriesBeyond
  <2>28. ~f5.msvc /\ WellFormed(f5, 1, W)
    BY <1>3, <2>27 DEF Tries
  <2>29. /\ WellFormed(f6, 1, W) /\ f6.msvc = f5.msvc /\ f6.labels = f5.labels /\ f6.loops = f5.loops
         /\ f6.blk = f5.blk /\ f6.scopes = f5.scopes /\ f6.gotos = f5.gotos /\ f6.plain = f5.plain
         /\ f6.catches = Front(f5.catches) /\ f6.cur = f5.cur
    BY <2>28, PopTryCatchPads
  <2> HIDE DEF f6
  <2>30. f6.catches = f.catches
    <3> DEFINE s == f.catches
    <3>1. s \in Seq(CatchSet(Len(f.blk))) /\ f5.catches = Append(s, tc)
      BY <2>27 DEF Tries, WellFormed, FunctionSet
    <3> HIDE DEF s
    <3>2. Front(Append(s, tc)) = s
      BY <3>1, FrontAppend
    <3> QED
      BY <2>29, <3>1, <3>2 DEF s
  <2>31. Beyond(n, f, f6, W)
    <3>1. WantsOf(f, f6, 1 .. n) /\ NewPlain(f, f6)
      BY <2>27, <2>29 DEF Tries, WantsOf, NewPlain
    <3>2. Same(f, f6)
      <4>1. Len(f6.scopes) = Len(f.scopes) /\ f6.gotos = f.gotos
        <5>1. Up(f.msvc) = 0 /\ ~f.msvc /\ Len(f.scopes) \in Nat
          BY <1>0, <1>3, Lengths DEF Up
        <5> QED
          BY <2>27, <2>29, <5>1 DEF Tries
      <4> QED
        BY <2>27, <2>29, <2>30, <4>1 DEF Tries, Same
    <3> QED
      BY <2>29, <3>1, <3>2 DEF Beyond
  <2>32. endbb \in 1 .. Len(f6.blk) /\ n \in 0 .. Len(f6.blk) /\ Len(f6.blk) >= n + 2
         /\ Len(f6.blk) \in Nat
    BY <2>23, <2>24, <2>25, <2>29
  <2>33. Beyond(n, f6, h, W) /\ h.cur = endbb /\ h.blk = f6.blk
    BY <2>29, <2>32, CurBeyond
  <2> HIDE DEF h
  <2>34. Beyond(n, f, h, W)
    BY <1>1, <2>31, <2>33, BeyondTrans
  <2>35. h.cur > n /\ Len(h.blk) > n
    BY <1>1, <2>6, <2>32, <2>33
  <2> QED
    BY <2>1, <2>34, <2>35
<1> QED
  BY <1>2, <1>3

(* The code of a cleanup pushed as a scope; the visitor goes on where it   *)
(* was.                                                                    *)
LEMMA PushBodyOk ==
  ASSUME NEW W, NEW f, WellFormed(f, 1, W), NEW n \in 0 .. Len(f.blk), NEW e, Beyond(n, f, e, W),
         NEW body \in 1 .. Len(e.blk), NEW back \in 1 .. Len(e.blk)
  PROVE  LET h == PushBody(e, body, back) IN
         Pushes(n, f, h, W) /\ h.cur = back /\ Len(h.blk) = Len(e.blk)
<1> DEFINE x == WithRuns(e, body, body)
           b == e.cur
           y == PushCleanup(x, body, b)
           h == WithCur(y, back)
<1>0. 1 \in {0, 1} /\ h = WithCur(y, back)
  OBVIOUS
<1>1. WellFormed(e, 1, W) /\ Len(e.blk) \in Nat /\ b \in 1 .. Len(e.blk) /\ n \in Nat
      /\ n \in 0 .. Len(e.blk) /\ body \in Nat
  <2>1. WellFormed(e, 1, W) /\ Len(e.blk) \in Nat /\ Len(e.blk) >= Len(f.blk) /\ Len(f.blk) \in Nat
        /\ b \in 1 .. Len(e.blk)
    BY BeyondFacts
  <2> QED
    BY <2>1
<1>2. PushBody(e, body, back) = h
  BY DEF PushBody, WithRuns, WithCur
<1>3. WellFormed(x, 1, W) /\ Kept(e, x) /\ Rest(e, x) /\ Len(x.blk) = Len(e.blk)
  BY <1>0, <1>1, RunsOk
<1> HIDE DEF x, b
<1>4. Beyond(n, f, x, W)
  <2>1. Grows(e, x, W)
    BY <1>3 DEF Grows
  <2>2. Beyond(n, e, x, W)
    BY <1>1, <2>1, GrowsBeyond
  <2> QED
    BY <1>1, <2>2, BeyondTrans
<1>5. Pushes(n, f, y, W) /\ y.blk = x.blk
  <2>1. body \in 1 .. Len(x.blk) /\ b \in 1 .. Len(x.blk)
    BY <1>1, <1>3
  <2> QED
    BY <1>4, <2>1, PushBeyond
<1> HIDE DEF y, h
<1>6. WellFormed(h, 1, W) /\ Kept(y, h) /\ h.cur = back /\ h.blk = y.blk /\ h.scopes = y.scopes
  <2>1. back \in 1 .. Len(y.blk) /\ WellFormed(y, 1, W)
    BY <1>3, <1>5 DEF Pushes
  <2> QED
    BY <1>0, <2>1, SetCurOk
<1>7. WantsOf(f, h, 1 .. n) /\ NewPlain(f, h)
  BY <1>5, <1>6 DEF Pushes, WantsOf, NewPlain, Kept
<1>8. Pushes(n, f, h, W)
  BY <1>5, <1>6, <1>7 DEF Pushes, Kept
<1> QED
  BY <1>2, <1>3, <1>5, <1>6, <1>8

-----------------------------------------------------------------------------
(* The folds over the open statements.                                     *)

TriesOp(c, a, s) == a \o (IF s.kind = "catch" THEN s.bodies ELSE s.cleanups)
TriesInv(c, k, a) ==
  a \in Seq(c.T) /\ \A x : x \in Range(a) <=> \E i \in 1 .. k : x \in Ids(c.n[i])
TriesFold == INSTANCE FoldFacts WITH Op <- TriesOp, Inv <- TriesInv

ScopesOp(c, a, s) == a \o s.cleanups
ScopesInv(c, k, a) ==
  a \in Seq(c.T) /\ ((\A i \in 1 .. k : c.n[i].cleanups = <<>>) => a = <<>>)
ScopesFold == INSTANCE FoldFacts WITH Op <- ScopesOp, Inv <- ScopesInv

HandlersOp(c, a, s) == IF s.kind = "catch" THEN Append(a, s) ELSE a
HandlersInv(c, k, a) == a \in Seq({s \in Range(c.n) : s.kind = "catch"})
HandlersFold == INSTANCE FoldFacts WITH Op <- HandlersOp, Inv <- HandlersInv

(* The elements of a concatenation.                                        *)
LEMMA RangeConcat ==
  ASSUME NEW T, NEW s \in Seq(T), NEW t \in Seq(T)
  PROVE  \A x : x \in Range(s \o t) <=> x \in Range(s) \/ x \in Range(t)
<1> DEFINE q == s \o t
<1>1. /\ q \in Seq(T) /\ Len(q) = Len(s) + Len(t)
      /\ \A k \in 1 .. Len(s) : q[k] = s[k]
      /\ \A k \in 1 .. Len(s) + Len(t) : k > Len(s) => q[k] = t[k - Len(s)]
  BY SeqConcat
<1>2. Len(s) \in Nat /\ Len(t) \in Nat /\ DOMAIN s = 1 .. Len(s) /\ DOMAIN t = 1 .. Len(t)
      /\ DOMAIN q = 1 .. Len(q)
  BY <1>1
<1> HIDE DEF q
<1>3. ASSUME NEW k \in 1 .. Len(q) PROVE q[k] \in Range(s) \/ q[k] \in Range(t)
  <2>1. CASE k \in 1 .. Len(s)
    BY <1>1, <1>2, <2>1 DEF Range
  <2>2. CASE k > Len(s)
    <3>1. k - Len(s) \in 1 .. Len(t) /\ k \in 1 .. Len(s) + Len(t)
      BY <1>1, <1>2, <2>2
    <3> QED
      BY <1>1, <1>2, <2>2, <3>1 DEF Range
  <2> QED
    BY <1>1, <1>2, <2>1, <2>2
<1>4. ASSUME NEW k \in 1 .. Len(s) PROVE s[k] \in Range(q)
  <2>1. k \in 1 .. Len(q) /\ q[k] = s[k]
    BY <1>1, <1>2
  <2> QED
    BY <1>2, <2>1 DEF Range
<1>5. ASSUME NEW k \in 1 .. Len(t) PROVE t[k] \in Range(q)
  <2>1. k + Len(s) \in 1 .. Len(q) /\ k + Len(s) > Len(s) /\ (k + Len(s)) - Len(s) = k
        /\ k + Len(s) \in 1 .. Len(s) + Len(t)
    BY <1>1, <1>2
  <2>2. q[k + Len(s)] = t[k]
    BY <1>1, <2>1
  <2> QED
    BY <1>2, <2>1, <2>2 DEF Range
<1>6. \A x : x \in Range(q) => x \in Range(s) \/ x \in Range(t)
  BY <1>2, <1>3 DEF Range
<1>7. \A x : x \in Range(s) \/ x \in Range(t) => x \in Range(q)
  <2>1. \A x : x \in Range(s) => x \in Range(q)
    BY <1>2, <1>4 DEF Range
  <2>2. \A x : x \in Range(t) => x \in Range(q)
    BY <1>2, <1>5 DEF Range
  <2> QED
    BY <2>1, <2>2
<1> QED
  BY <1>6, <1>7 DEF q

Blocks(s) == IF s.kind = "catch" THEN s.bodies ELSE s.cleanups

(* The blocks of an open statement, and the set that identifies it.        *)
LEMMA BlocksOk ==
  ASSUME NEW N, NEW s, StatementOK(s, N)
  PROVE  Blocks(s) \in Seq(1 .. N) /\ Ids(s) = Range(Blocks(s))
BY DEF StatementOK, Blocks, Ids

(* TryBlocks lists the blocks of the open statements and no others.        *)
LEMMA TryBlocksOk ==
  ASSUME NEW N, NEW n, NestOK(N, n)
  PROVE  /\ TryBlocks(n) \in Seq(1 .. N)
         /\ \A x : x \in Range(TryBlocks(n)) <=> \E i \in 1 .. Len(n) : x \in Ids(n[i])
<1> DEFINE T == 1 .. N
           c == [T |-> T, n |-> n]
           nil == <<>>
           h == TryBlocks(n)
<1>0. c.T = T /\ c.n = n
  OBVIOUS
<1>1. h = TriesFold!Folding(c, nil, n)
  BY DEF TryBlocks, TriesFold!Folding, TriesOp, FoldLeft, MapThenFoldSet, TriesFold!MapThenFoldSet, Max, TriesFold!Largest
<1>2. nil \in Seq(T) /\ Range(nil) = {}
  BY DEF Range
<1>3. PICK U : n \in Seq(U)
  BY DEF NestOK
<1>4. \A k \in 1 .. Len(n) : Blocks(n[k]) \in Seq(T) /\ Ids(n[k]) = Range(Blocks(n[k]))
  BY BlocksOk DEF NestOK
<1> HIDE DEF T, c, nil, h
<1>5. TriesInv(c, 0, nil)
  BY <1>0, <1>2 DEF TriesInv
<1>6. ASSUME NEW k \in 1 .. Len(n), NEW a, TriesInv(c, k - 1, a)
      PROVE  TriesInv(c, k, TriesOp(c, a, n[k]))
  <2> DEFINE s == n[k]
             t == Blocks(s)
  <2>1. t \in Seq(T) /\ Ids(s) = Range(t)
    BY <1>4
  <2>2. a \in Seq(T) /\ \A x : x \in Range(a) <=> \E i \in 1 .. k - 1 : x \in Ids(n[i])
    BY <1>0, <1>6 DEF TriesInv
  <2>3. TriesOp(c, a, s) = a \o t
    BY DEF TriesOp, Blocks
  <2> HIDE DEF t
  <2>4. a \o t \in Seq(T) /\ \A x : x \in Range(a \o t) <=> x \in Range(a) \/ x \in Range(t)
    BY <2>1, <2>2, RangeConcat
  <2>5. \A i : i \in 1 .. k <=> i \in 1 .. k - 1 \/ i = k
    BY <1>3
  <2>6. \A x : x \in Range(a \o t) <=> \E i \in 1 .. k : x \in Ids(n[i])
    BY <2>1, <2>2, <2>4, <2>5
  <2> QED
    BY <1>0, <2>3, <2>4, <2>6 DEF TriesInv
<1>7. TriesInv(c, Len(n), TriesFold!Folding(c, nil, n))
  BY <1>3, <1>5, <1>6, WellOrdered, TriesFold!Folded DEF TriesFold!LeastNumbers
<1> QED
  BY <1>0, <1>1, <1>7 DEF TriesInv, h, T

(* InScope is empty when no open statement has a cleanup.                  *)
LEMMA InScopeOk ==
  ASSUME NEW N \in Nat, NEW n, NestOK(N, n)
  PROVE  /\ InScope(n) \in Seq(Nat)
         /\ (\A i \in 1 .. Len(n) : n[i].cleanups = <<>>) => InScope(n) = <<>>
<1> DEFINE T == 1 .. N
           c == [T |-> T, n |-> n]
           nil == <<>>
           h == InScope(n)
<1>0. c.T = T /\ c.n = n
  OBVIOUS
<1>1. h = ScopesFold!Folding(c, nil, n)
  BY DEF InScope, ScopesFold!Folding, ScopesOp, FoldLeft, MapThenFoldSet, ScopesFold!MapThenFoldSet, Max, ScopesFold!Largest
<1>2. nil \in Seq(T) /\ nil \o nil = nil
  OBVIOUS
<1>3. PICK U : n \in Seq(U)
  BY DEF NestOK
<1>4. \A k \in 1 .. Len(n) : n[k].cleanups \in Seq(T)
  BY DEF NestOK, StatementOK
<1>t. Seq(T) \subseteq Seq(Nat)
  <2>1. T \subseteq Nat
    OBVIOUS
  <2> HIDE DEF T
  <2> QED
    BY <2>1, SeqMono
<1> HIDE DEF T, c, h
<1>5. ScopesInv(c, 0, nil)
  BY <1>0, <1>2 DEF ScopesInv
<1>6. ASSUME NEW k \in 1 .. Len(n), NEW a, ScopesInv(c, k - 1, a)
      PROVE  ScopesInv(c, k, ScopesOp(c, a, n[k]))
  <2> DEFINE t == n[k].cleanups
  <2>1. t \in Seq(T)
    BY <1>4
  <2>2. a \in Seq(T) /\ ((\A i \in 1 .. k - 1 : n[i].cleanups = <<>>) => a = <<>>)
    BY <1>0, <1>6 DEF ScopesInv
  <2>3. ScopesOp(c, a, n[k]) = a \o t
    BY DEF ScopesOp
  <2>4. 1 .. k - 1 \subseteq 1 .. k /\ k \in 1 .. k
    BY <1>3
  <2>5. a \o t \in Seq(T)
    BY <2>1, <2>2
  <2>6. ASSUME \A i \in 1 .. k : n[i].cleanups = <<>> PROVE a \o t = nil
    <3>1. a = nil /\ t = nil
      BY <2>2, <2>4, <2>6
    <3> QED
      BY <1>2, <3>1
  <2> QED
    BY <1>0, <2>3, <2>5, <2>6 DEF ScopesInv
<1>7. ScopesInv(c, Len(n), ScopesFold!Folding(c, nil, n))
  BY <1>3, <1>5, <1>6, WellOrdered, ScopesFold!Folded DEF ScopesFold!LeastNumbers
<1> QED
  BY <1>0, <1>1, <1>7, <1>t DEF ScopesInv, h

(* Handlers lists catch statements only.                                   *)
LEMMA HandlersOk ==
  ASSUME NEW U, NEW n \in Seq(U)
  PROVE  Handlers(n) \in Seq({s \in Range(n) : s.kind = "catch"})
<1> DEFINE c == [n |-> n]
           nil == <<>>
           h == Handlers(n)
           T == {s \in Range(n) : s.kind = "catch"}
<1>0. c.n = n
  OBVIOUS
<1>1. h = HandlersFold!Folding(c, nil, n)
  BY DEF Handlers, Filter, HandlersFold!Folding, HandlersOp, FoldLeft, MapThenFoldSet, HandlersFold!MapThenFoldSet, Max, HandlersFold!Largest
<1>2. nil \in Seq(T)
  OBVIOUS
<1> HIDE DEF c, nil, h
<1>3. HandlersInv(c, 0, nil)
  BY <1>0, <1>2 DEF HandlersInv
<1>4. ASSUME NEW k \in 1 .. Len(n), NEW a, HandlersInv(c, k - 1, a)
      PROVE  HandlersInv(c, k, HandlersOp(c, a, n[k]))
  <2> DEFINE s == n[k]
  <2>1. s \in Range(n)
    BY DEF Range
  <2>2. a \in Seq(T)
    BY <1>0, <1>4 DEF HandlersInv
  <2>3. s.kind = "catch" => s \in T
    BY <2>1
  <2> HIDE DEF s, T
  <2>4. HandlersOp(c, a, s) \in Seq(T)
    BY <2>2, <2>3, SeqAppend DEF HandlersOp
  <2> QED
    BY <1>0, <2>4 DEF HandlersInv, s, T
<1>5. HandlersInv(c, Len(n), HandlersFold!Folding(c, nil, n))
  BY <1>3, <1>4, WellOrdered, HandlersFold!Folded DEF HandlersFold!LeastNumbers
<1> QED
  BY <1>0, <1>1, <1>5 DEF HandlersInv, h

(* Handlers with one more statement: one more if it is a catch statement.  *)
LEMMA HandlersAppend ==
  ASSUME NEW U, NEW n \in Seq(U), NEW s \in U
  PROVE  /\ Handlers(Append(n, s)) = IF s.kind = "catch" THEN Append(Handlers(n), s) ELSE Handlers(n)
         /\ Handlers(<<>>) = <<>>
<1> DEFINE c == [n |-> n]
           nil == <<>>
           m == Append(n, s)
<1>1. \A q : Handlers(q) = HandlersFold!Folding(c, nil, q)
  BY DEF Handlers, Filter, HandlersFold!Folding, HandlersOp, FoldLeft, MapThenFoldSet, HandlersFold!MapThenFoldSet, Max, HandlersFold!Largest
<1>2. Handlers(nil) = nil
  <2>0. nil \in Seq(U)
    OBVIOUS
  <2>1. Handlers(nil) \in Seq({x \in Range(nil) : x.kind = "catch"})
    <3> HIDE DEF nil
    <3> QED
      BY <2>0, HandlersOk
  <2>2. {x \in Range(nil) : x.kind = "catch"} = {}
    BY DEF Range
  <2> QED
    BY <2>1, <2>2
<1> HIDE DEF c, nil
<1>3. HandlersFold!Folding(c, nil, m) = HandlersOp(c, HandlersFold!Folding(c, nil, n), s)
  BY WellOrdered, HandlersFold!FoldedAppend DEF HandlersFold!LeastNumbers
<1> QED
  BY <1>1, <1>2, <1>3 DEF HandlersOp, nil

-----------------------------------------------------------------------------
(* One more statement: p is n with s innermost.                            *)

Pushed(n, s, p) == \E U : n \in Seq(U) /\ s \in U /\ p = Append(n, s)

(* Indices and elements of a nest with one statement more.                 *)
LEMMA PushedFacts ==
  ASSUME NEW n, NEW s, NEW p, Pushed(n, s, p)
  PROVE  /\ Len(n) \in Nat /\ Len(p) \in Nat /\ Len(p) = Len(n) + 1 /\ p # <<>>
         /\ \A k \in 1 .. Len(n) : p[k] = n[k]
         /\ p[Len(p)] = s /\ (n = <<>> <=> Len(n) = 0)
         /\ \A k \in 1 .. Len(p) : k \in 1 .. Len(n) \/ k = Len(p)
         /\ 1 .. Len(n) \subseteq 1 .. Len(p) /\ Len(p) \in 1 .. Len(p)
         /\ \A k \in 1 .. Len(n) : k # Len(p)
<1>1. PICK U : n \in Seq(U) /\ s \in U /\ p = Append(n, s)
  BY DEF Pushed
<1> QED
  BY <1>1

(* Both nests are sequences.                                               *)
LEMMA PushedSeq ==
  ASSUME NEW n, NEW s, NEW p, Pushed(n, s, p)
  PROVE  /\ \E U : n \in Seq(U)
         /\ \E U : p \in Seq(U)
<1>1. PICK U : n \in Seq(U) /\ s \in U /\ p = Append(n, s)
  BY DEF Pushed
<1>2. p \in Seq(U)
  BY <1>1
<1> QED
  BY <1>1, <1>2

(* Appending opens a statement.                                            *)
LEMMA AppendPushed ==
  ASSUME NEW N, NEW n, NestOK(N, n), NEW s
  PROVE  Pushed(n, s, Append(n, s))
<1>1. PICK U : n \in Seq(U)
  BY DEF NestOK
<1> DEFINE V == U \cup {s}
<1>2. U \subseteq V /\ s \in V
  OBVIOUS
<1> HIDE DEF V
<1>3. n \in Seq(V)
  BY <1>1, <1>2, SeqMono
<1> QED
  BY <1>2, <1>3 DEF Pushed

(* Dropping the last statement undoes opening it.                          *)
LEMMA FrontPushed ==
  ASSUME NEW N, NEW p, NestOK(N, p), p # <<>>
  PROVE  Pushed(Front(p), Last(p), p)
<1>1. PICK U : p \in Seq(U)
  BY DEF NestOK
<1>2. Front(p) \in Seq(U) /\ Len(Front(p)) = Len(p) - 1 /\ \A k \in 1 .. Len(p) - 1 : Front(p)[k] = p[k]
  BY <1>1, SeqFront
<1>3. Last(p) = p[Len(p)] /\ Len(p) \in Nat /\ Len(p) # 0
  BY <1>1 DEF Last
<1> DEFINE q == Front(p)
           s == Last(p)
           r == Append(q, s)
<1>4. s \in U
  BY <1>1, <1>3
<1> HIDE DEF q, s
<1>5. r \in Seq(U) /\ Len(r) = Len(q) + 1 /\ (\A k \in 1 .. Len(q) : r[k] = q[k]) /\ r[Len(q) + 1] = s
  BY <1>2, <1>4, SeqAppend DEF q
<1>6. Len(r) = Len(p)
  BY <1>2, <1>3, <1>5 DEF q
<1>7. ASSUME NEW k \in 1 .. Len(p) PROVE r[k] = p[k]
  <2>1. k \in 1 .. Len(p) - 1 \/ k = Len(p)
    BY <1>3
  <2> QED
    BY <1>2, <1>3, <1>5, <1>6, <2>1 DEF q, s
<1> HIDE DEF r
<1>8. r = p
  BY <1>1, <1>5, <1>6, <1>7
<1> QED
  BY <1>2, <1>4, <1>8 DEF Pushed, q, r, s

(* A statement stays well formed with more blocks.                         *)
LEMMA StatementWidens ==
  ASSUME NEW N \in Nat, NEW M \in Nat, N <= M, NEW s, StatementOK(s, N)
  PROVE  StatementOK(s, M)
<1> DEFINE A == 1 .. N
           B == 1 .. M
<1>1. A \subseteq B
  OBVIOUS
<1> HIDE DEF A, B
<1>2. Seq(A) \subseteq Seq(B)
  BY <1>1, SeqMono
<1>3. s.cleanups \in Seq(A) /\ (s.kind = "catch" => s.bodies \in Seq(A)) /\ (Continues(s) => Cont(s) \in A)
  BY DEF StatementOK, A
<1>4. s.cleanups \in Seq(B) /\ (s.kind = "catch" => s.bodies \in Seq(B)) /\ (Continues(s) => Cont(s) \in B)
  BY <1>1, <1>2, <1>3
<1> QED
  BY <1>4 DEF StatementOK, B

(* A nest stays well formed with more blocks.                              *)
LEMMA NestWidens ==
  ASSUME NEW N \in Nat, NEW M \in Nat, N <= M, NEW n, NestOK(N, n)
  PROVE  NestOK(M, n)
BY StatementWidens DEF NestOK

NoExpression(n) == \A k \in 1 .. Len(n) : n[k].kind # "expr"

(* A nest stays well formed with one statement more, when no full          *)
(* expression is open.                                                     *)
LEMMA PushNest ==
  ASSUME NEW N \in Nat, NEW M \in Nat, N <= M, NEW n, NestOK(N, n), NEW s, StatementOK(s, M),
         NoExpression(n), NEW p, Pushed(n, s, p)
  PROVE  NestOK(M, p)
<1>1. \A k \in 1 .. Len(n) : StatementOK(n[k], M)
  BY StatementWidens DEF NestOK
<1>2. \A k \in 1 .. Len(p) : StatementOK(p[k], M)
  BY <1>1, PushedFacts
<1>3. \A k \in 1 .. Len(p) : p[k].kind = "expr" => k = Len(p)
  BY PushedFacts DEF NoExpression
<1>4. \E U : p \in Seq(U)
  BY PushedSeq
<1> QED
  BY <1>2, <1>3, <1>4 DEF NestOK

(* What is left of a nest is well formed, and no full expression is in it. *)
LEMMA PopNest ==
  ASSUME NEW N, NEW n, NEW s, NEW p, Pushed(n, s, p), NestOK(N, p)
  PROVE  NestOK(N, n) /\ NoExpression(n) /\ StatementOK(s, N)
<1>1. \E U : n \in Seq(U)
  BY PushedSeq
<1>2. \A k \in 1 .. Len(p) : StatementOK(p[k], N)
  BY DEF NestOK
<1>3. \A k \in 1 .. Len(n) : StatementOK(n[k], N)
  BY <1>2, PushedFacts
<1>4. StatementOK(s, N)
  BY <1>2, PushedFacts
<1>5. \A k \in 1 .. Len(n) : n[k].kind # "expr"
  BY PushedFacts DEF NestOK
<1> QED
  BY <1>1, <1>3, <1>4, <1>5 DEF NestOK, NoExpression

(* A statement's height is a number; a statement with a height has a       *)
(* block.                                                                  *)
LEMMA HeightOk ==
  ASSUME NEW N, NEW s, StatementOK(s, N), NEW eh
  PROVE  /\ Height(s, eh) \in Nat /\ s.before \in Nat
         /\ Height(s, eh) > 0 => \E x : x \in Ids(s)
         /\ s.kind # "expr" => Height(s, eh) <= 1
<1> DEFINE q == Blocks(s)
<1>1. q \in Seq(1 .. N) /\ Ids(s) = Range(q)
  BY BlocksOk
<1>2. Len(q) > 0 => q[1] \in Range(q)
  BY <1>1 DEF Range
<1>3. s.kind = "catch" => q = s.bodies /\ q # <<>>
  BY DEF StatementOK, Blocks
<1>4. s.kind # "catch" => q = s.cleanups
  BY DEF Blocks
<1>5. s.cleanups \in Seq(1 .. N) /\ s.before \in Nat
  BY DEF StatementOK
<1>6. s.kind \in {"finally", "catch", "loop", "expr", "func"}
      /\ (s.kind \in {"finally", "func"} => Len(s.cleanups) = 1)
      /\ (s.kind = "loop" => s.cleanups = <<>>)
  BY DEF StatementOK
<1> HIDE DEF q
<1>7. CASE s.kind = "catch"
  <2>1. Height(s, eh) \in {0, 1}
    BY <1>7 DEF Height, Up
  <2>2. Len(q) > 0
    BY <1>1, <1>3, <1>7
  <2> QED
    BY <1>1, <1>2, <1>5, <2>1, <2>2
<1>8. CASE s.kind # "catch"
  <2>1. Height(s, eh) = Len(s.cleanups) /\ Len(s.cleanups) \in Nat
    BY <1>5, <1>8 DEF Height
  <2>2. s.kind # "expr" => Len(s.cleanups) <= 1
    <3>1. s.cleanups = <<>> => Len(s.cleanups) = 0
      OBVIOUS
    <3>2. \A x : x = 0 \/ x = 1 => x <= 1
      OBVIOUS
    <3> QED
      BY <1>6, <1>8, <3>1, <3>2
  <2> QED
    BY <1>1, <1>2, <1>4, <1>5, <1>8, <2>1, <2>2
<1> QED
  BY <1>7, <1>8

(* The same for all open statements.                                       *)
LEMMA HeightsOk ==
  ASSUME NEW N, NEW n, NestOK(N, n), NEW eh
  PROVE  \A k \in 1 .. Len(n) : Height(n[k], eh) \in Nat /\ n[k].before \in Nat
BY HeightOk DEF NestOK

(* The new statement's scopes are on top of those of the others.           *)
LEMMA PushChain ==
  ASSUME NEW N, NEW M, NEW n, NestOK(N, n), NEW s, StatementOK(s, M), NEW p, Pushed(n, s, p),
         NEW eh, NEW m \in Nat, Chain(m, eh, n), s.before = m
  PROVE  Chain(m + Height(s, eh), eh, p)
<1> DEFINE ht(x) == Height(x, eh)
<1>1. ht(s) \in Nat /\ s.before \in Nat
  BY HeightOk
<1>2. \A k \in 1 .. Len(n) : ht(n[k]) \in Nat /\ n[k].before \in Nat
  BY HeightsOk
<1>3. /\ \A k \in 1 .. Len(n) : n[k].before + ht(n[k]) = IF k = Len(n) THEN m ELSE n[k + 1].before
      /\ \A k, l \in 1 .. Len(n) : k < l => n[k].before + ht(n[k]) <= n[l].before
      /\ \A i \in 1 .. m : \E k \in 1 .. Len(n) : n[k].before < i /\ i <= n[k].before + ht(n[k])
  BY DEF Chain
<1>p. /\ Len(n) \in Nat /\ Len(p) = Len(n) + 1 /\ p # <<>>
      /\ \A k \in 1 .. Len(n) : p[k] = n[k]
      /\ p[Len(p)] = s
      /\ \A k \in 1 .. Len(p) : k \in 1 .. Len(n) \/ k = Len(p)
      /\ 1 .. Len(n) \subseteq 1 .. Len(p) /\ Len(p) \in 1 .. Len(p)
  BY PushedFacts
<1> HIDE DEF ht
<1>4. ASSUME NEW k \in 1 .. Len(p)
      PROVE  p[k].before + ht(p[k]) = IF k = Len(p) THEN m + ht(s) ELSE p[k + 1].before
  <2>1. CASE k = Len(p)
    BY <1>p, <2>1
  <2>2. CASE k \in 1 .. Len(n) /\ k # Len(n)
    <3>1. k + 1 \in 1 .. Len(n) /\ k # Len(p)
      BY <1>p, <2>2
    <3> QED
      BY <1>3, <1>p, <2>2, <3>1
  <2>3. CASE k \in 1 .. Len(n) /\ k = Len(n)
    <3>1. k + 1 = Len(p) /\ k # Len(p)
      BY <1>p, <2>3
    <3> QED
      BY <1>3, <1>p, <2>3, <3>1
  <2> QED
    BY <1>p, <2>1, <2>2, <2>3
<1>5. \A k \in 1 .. Len(n) : n[k].before + ht(n[k]) <= m
  <2> SUFFICES ASSUME NEW k \in 1 .. Len(n) PROVE n[k].before + ht(n[k]) <= m
    OBVIOUS
  <2>1. CASE k = Len(n)
    BY <1>2, <1>3, <2>1
  <2>2. CASE k # Len(n)
    <3>1. Len(n) \in 1 .. Len(n) /\ k < Len(n)
      BY <1>p, <2>2
    <3>2. n[k].before + ht(n[k]) <= n[Len(n)].before /\ n[Len(n)].before + ht(n[Len(n)]) = m
      BY <1>3, <3>1
    <3> QED
      BY <1>2, <3>1, <3>2
  <2> QED
    BY <2>1, <2>2
<1>6. ASSUME NEW k \in 1 .. Len(p), NEW l \in 1 .. Len(p), k < l
      PROVE  p[k].before + ht(p[k]) <= p[l].before
  <2>1. k \in 1 .. Len(n)
    BY <1>p, <1>6
  <2>2. CASE l = Len(p)
    BY <1>5, <1>p, <2>1, <2>2
  <2>3. CASE l \in 1 .. Len(n)
    BY <1>3, <1>6, <1>p, <2>1, <2>3
  <2> QED
    BY <1>p, <2>2, <2>3
<1>7. ASSUME NEW i \in 1 .. m + ht(s)
      PROVE  \E k \in 1 .. Len(p) : p[k].before < i /\ i <= p[k].before + ht(p[k])
  <2>1. CASE i \in 1 .. m
    BY <1>3, <1>p, <2>1
  <2>2. CASE i > m
    BY <1>1, <1>p, <2>2
  <2> QED
    BY <1>1, <2>1, <2>2
<1> QED
  BY <1>4, <1>6, <1>7, <1>p DEF Chain, ht

(* What is left ends where the popped statement's scopes began.            *)
LEMMA PopChain ==
  ASSUME NEW N, NEW n, NEW s, NEW p, Pushed(n, s, p), NestOK(N, p),
         NEW eh, NEW m \in Nat, Chain(m, eh, p)
  PROVE  /\ Chain(s.before, eh, n) /\ m = s.before + Height(s, eh)
         /\ s.before \in 0 .. m
         /\ \A k \in 1 .. Len(n) : n[k].before + Height(n[k], eh) <= s.before
<1> DEFINE ht(x) == Height(x, eh)
<1>2. \A k \in 1 .. Len(p) : ht(p[k]) \in Nat /\ p[k].before \in Nat
  BY HeightsOk
<1>3. /\ \A k \in 1 .. Len(p) : p[k].before + ht(p[k]) = IF k = Len(p) THEN m ELSE p[k + 1].before
      /\ \A k, l \in 1 .. Len(p) : k < l => p[k].before + ht(p[k]) <= p[l].before
      /\ \A i \in 1 .. m : \E k \in 1 .. Len(p) : p[k].before < i /\ i <= p[k].before + ht(p[k])
  BY DEF Chain
<1>p. /\ Len(n) \in Nat /\ Len(p) = Len(n) + 1 /\ (n = <<>> <=> Len(n) = 0)
      /\ \A k \in 1 .. Len(n) : p[k] = n[k]
      /\ p[Len(p)] = s
      /\ \A k \in 1 .. Len(p) : k \in 1 .. Len(n) \/ k = Len(p)
      /\ 1 .. Len(n) \subseteq 1 .. Len(p) /\ Len(p) \in 1 .. Len(p)
  BY PushedFacts
<1> HIDE DEF ht
<1>4. ht(s) \in Nat /\ s.before \in Nat /\ m = s.before + ht(s)
  BY <1>2, <1>3, <1>p
<1>5. ASSUME NEW k \in 1 .. Len(n)
      PROVE  /\ n[k].before + ht(n[k]) = IF k = Len(n) THEN s.before ELSE n[k + 1].before
             /\ n[k].before + ht(n[k]) <= s.before
  <2>1. k \in 1 .. Len(p) /\ k # Len(p) /\ k < Len(p) /\ p[k] = n[k]
    BY <1>p
  <2>2. n[k].before + ht(n[k]) = p[k + 1].before /\ n[k].before + ht(n[k]) <= s.before
    BY <1>3, <1>p, <2>1
  <2>3. CASE k = Len(n)
    BY <1>p, <2>2, <2>3
  <2>4. CASE k # Len(n)
    <3>1. k + 1 \in 1 .. Len(n)
      BY <1>p, <2>4
    <3> QED
      BY <1>p, <2>2, <2>4, <3>1
  <2> QED
    BY <2>3, <2>4
<1>6. ASSUME NEW k \in 1 .. Len(n), NEW l \in 1 .. Len(n), k < l
      PROVE  n[k].before + ht(n[k]) <= n[l].before
  BY <1>3, <1>6, <1>p
<1>7. ASSUME NEW i \in 1 .. s.before
      PROVE  \E k \in 1 .. Len(n) : n[k].before < i /\ i <= n[k].before + ht(n[k])
  <2>1. i \in 1 .. m
    BY <1>4
  <2>2. PICK k \in 1 .. Len(p) : p[k].before < i /\ i <= p[k].before + ht(p[k])
    BY <1>3, <2>1
  <2>3. k # Len(p)
    BY <1>4, <1>p, <2>2
  <2> QED
    BY <1>p, <2>2, <2>3
<1>8. n = <<>> => s.before = 0
  <2> SUFFICES ASSUME n = <<>>, s.before # 0 PROVE FALSE
    OBVIOUS
  <2>1. 1 \in 1 .. s.before
    BY <1>4
  <2>2. \E k \in 1 .. Len(n) : n[k].before < 1
    BY <1>7, <2>1
  <2> QED
    BY <1>p, <2>2
<1> QED
  BY <1>4, <1>5, <1>6, <1>7, <1>8 DEF Chain, ht

(* New blocks keep the statements apart.                                   *)
LEMMA PushApart ==
  ASSUME NEW n, NEW s, NEW p, Pushed(n, s, p), Apart(n),
         \A k \in 1 .. Len(n) : Ids(n[k]) \cap Ids(s) = {}
  PROVE  Apart(p)
<1> SUFFICES ASSUME NEW k \in 1 .. Len(p), NEW l \in 1 .. Len(p), k # l
             PROVE  Ids(p[k]) \cap Ids(p[l]) = {}
  BY DEF Apart
<1>1. CASE k \in 1 .. Len(n) /\ l \in 1 .. Len(n)
  <2>1. Ids(n[k]) \cap Ids(n[l]) = {}
    BY <1>1 DEF Apart
  <2>2. p[k] = n[k] /\ p[l] = n[l]
    BY <1>1, PushedFacts
  <2> QED
    BY <2>1, <2>2
<1>2. CASE k \in 1 .. Len(n) /\ l = Len(p)
  BY <1>2, PushedFacts
<1>3. CASE k = Len(p) /\ l \in 1 .. Len(n)
  BY <1>3, PushedFacts
<1> QED
  BY <1>1, <1>2, <1>3, PushedFacts

(* The statements that are left are apart, also from the one popped.       *)
LEMMA PopApart ==
  ASSUME NEW n, NEW s, NEW p, Pushed(n, s, p), Apart(p)
  PROVE  Apart(n) /\ \A k \in 1 .. Len(n) : Ids(n[k]) \cap Ids(s) = {}
<1>1. ASSUME NEW k \in 1 .. Len(n), NEW l \in 1 .. Len(n), k # l
      PROVE  Ids(n[k]) \cap Ids(n[l]) = {}
  <2>1. k \in 1 .. Len(p) /\ l \in 1 .. Len(p) /\ p[k] = n[k] /\ p[l] = n[l]
    BY PushedFacts
  <2>2. Ids(p[k]) \cap Ids(p[l]) = {}
    BY <1>1, <2>1 DEF Apart
  <2> QED
    BY <2>1, <2>2
<1>2. ASSUME NEW k \in 1 .. Len(n) PROVE Ids(n[k]) \cap Ids(s) = {}
  <2>1. k \in 1 .. Len(p) /\ Len(p) \in 1 .. Len(p) /\ k # Len(p) /\ p[k] = n[k] /\ p[Len(p)] = s
    BY PushedFacts
  <2>2. Ids(p[k]) \cap Ids(p[Len(p)]) = {}
    BY <2>1 DEF Apart
  <2> QED
    BY <2>1, <2>2
<1> QED
  BY <1>1, <1>2 DEF Apart

(* Old and new blocks.                                                     *)
LEMMA FreshIds ==
  ASSUME NEW N \in Nat, NEW n, NestOK(N, n), NEW A, A \cap 1 .. N = {}
  PROVE  \A k \in 1 .. Len(n) : Ids(n[k]) \cap A = {} /\ Ids(n[k]) \subseteq 1 .. N
<1> SUFFICES ASSUME NEW k \in 1 .. Len(n) PROVE Ids(n[k]) \subseteq 1 .. N
  OBVIOUS
<1>1. Blocks(n[k]) \in Seq(1 .. N) /\ Ids(n[k]) = Range(Blocks(n[k]))
  BY BlocksOk DEF NestOK
<1> QED
  BY <1>1 DEF Range

(* Of the blocks that were there, only the one the visitor was in may get  *)
(* another ghost, and the visitor is not where a goto starts.              *)
Changes(f, h) ==
  /\ h.msvc = f.msvc /\ h.labels = f.labels /\ Len(h.blk) >= Len(f.blk)
  /\ WantsOf(f, h, (1 .. Len(f.blk)) \ {f.cur}) /\ h.blk[h.cur].want.kind # "goto"

(* The visitor is in a block where no open statement continues.            *)
Clear(h, n) == \A k \in 1 .. Len(n) : Continues(n[k]) => Cont(n[k]) # h.cur

(* A step that moves the visitor to a block of its own keeps the           *)
(* continuations apart.                                                    *)
LEMMA StayDistinct ==
  ASSUME NEW f, NEW h, NEW n, NestOK(Len(f.blk), n), Distinct(f, n), Changes(f, h), Clear(h, n)
  PROVE  Distinct(h, n)
<1>1. ASSUME NEW k \in 1 .. Len(n), Continues(n[k])
      PROVE  Cont(n[k]) # h.cur /\ h.blk[Cont(n[k])].want.kind # "goto"
  <2>1. Cont(n[k]) \in 1 .. Len(f.blk)
    BY <1>1 DEF NestOK, StatementOK
  <2>2. Cont(n[k]) # f.cur /\ f.blk[Cont(n[k])].want.kind # "goto"
    BY <1>1 DEF Distinct
  <2>3. h.blk[Cont(n[k])].want = f.blk[Cont(n[k])].want
    BY <2>1, <2>2 DEF Changes, WantsOf
  <2> QED
    BY <1>1, <2>2, <2>3 DEF Clear
<1> QED
  BY <1>1 DEF Distinct, Changes

(* A new statement that continues in a block of its own.                   *)
LEMMA PushDistinct ==
  ASSUME NEW f, NEW n, NEW s, NEW p, Pushed(n, s, p), NestOK(Len(f.blk), n), Distinct(f, n),
         Continues(s) => /\ Cont(s) # f.cur /\ f.blk[Cont(s)].want.kind # "goto"
                         /\ \A k \in 1 .. Len(n) : Continues(n[k]) => Cont(n[k]) # Cont(s)
  PROVE  Distinct(f, p)
<1>1. ASSUME NEW k \in 1 .. Len(p), Continues(p[k])
      PROVE  Cont(p[k]) # f.cur /\ f.blk[Cont(p[k])].want.kind # "goto"
  BY <1>1, PushedFacts DEF Distinct
<1>2. ASSUME NEW k \in 1 .. Len(p), NEW l \in 1 .. Len(p), k # l, Continues(p[k]), Continues(p[l])
      PROVE  Cont(p[k]) # Cont(p[l])
  <2>1. CASE k \in 1 .. Len(n) /\ l \in 1 .. Len(n)
    <3>1. p[k] = n[k] /\ p[l] = n[l]
      BY <2>1, PushedFacts
    <3> QED
      BY <1>2, <2>1, <3>1 DEF Distinct
  <2>2. CASE k \in 1 .. Len(n) /\ l = Len(p)
    <3>1. p[k] = n[k] /\ p[l] = s
      BY <2>2, PushedFacts
    <3> QED
      BY <1>2, <2>2, <3>1
  <2>3. CASE k = Len(p) /\ l \in 1 .. Len(n)
    <3>1. p[k] = s /\ p[l] = n[l]
      BY <2>3, PushedFacts
    <3> QED
      BY <1>2, <2>3, <3>1
  <2> QED
    BY <1>2, <2>1, <2>2, <2>3, PushedFacts
<1> QED
  BY <1>1, <1>2 DEF Distinct

(* What holds of the statements that are left and of the one popped.       *)
LEMMA PopDistinct ==
  ASSUME NEW f, NEW n, NEW s, NEW p, Pushed(n, s, p), Distinct(f, p)
  PROVE  /\ Distinct(f, n)
         /\ Continues(s) => \A k \in 1 .. Len(n) : Continues(n[k]) => Cont(n[k]) # Cont(s)
         /\ Continues(s) => Cont(s) # f.cur /\ f.blk[Cont(s)].want.kind # "goto"
<1>1. ASSUME NEW k \in 1 .. Len(n), Continues(n[k])
      PROVE  Cont(n[k]) # f.cur /\ f.blk[Cont(n[k])].want.kind # "goto"
  BY <1>1, PushedFacts DEF Distinct
<1>2. ASSUME NEW k \in 1 .. Len(n), NEW l \in 1 .. Len(n), k # l, Continues(n[k]), Continues(n[l])
      PROVE  Cont(n[k]) # Cont(n[l])
  <2>1. k \in 1 .. Len(p) /\ l \in 1 .. Len(p) /\ p[k] = n[k] /\ p[l] = n[l]
    BY PushedFacts
  <2> QED
    BY <1>2, <2>1 DEF Distinct
<1>3. ASSUME Continues(s), NEW k \in 1 .. Len(n), Continues(n[k])
      PROVE  Cont(n[k]) # Cont(s)
  <2>1. k \in 1 .. Len(p) /\ Len(p) \in 1 .. Len(p) /\ k # Len(p) /\ p[k] = n[k] /\ p[Len(p)] = s
    BY PushedFacts
  <2> QED
    BY <1>3, <2>1 DEF Distinct
<1>4. ASSUME Continues(s) PROVE Cont(s) # f.cur /\ f.blk[Cont(s)].want.kind # "goto"
  <2>1. Len(p) \in 1 .. Len(p) /\ p[Len(p)] = s
    BY PushedFacts
  <2> QED
    BY <1>4, <2>1 DEF Distinct
<1>5. f.blk[f.cur].want.kind # "goto"
  BY DEF Distinct
<1> QED
  BY <1>1, <1>2, <1>3, <1>4, <1>5 DEF Distinct

(* Loops                                                                   *)
LEMMA SameLoops ==
  ASSUME NEW n, NEW s, NEW p, Pushed(n, s, p), NEW loops, s.kind # "loop"
  PROVE  LoopsOK(loops, n) <=> LoopsOK(loops, p)
<1>1. \A k \in 1 .. Len(p) : p[k].kind = "loop" => k \in 1 .. Len(n) /\ p[k] = n[k]
  BY PushedFacts
<1>2. \A k \in 1 .. Len(n) : k \in 1 .. Len(p) /\ p[k] = n[k]
  BY PushedFacts
<1>3. ASSUME LoopsOK(loops, n) PROVE LoopsOK(loops, p)
  <2>1. \A k, l \in 1 .. Len(p) : p[k].kind = "loop" /\ p[l].kind = "loop" => k = l
    BY <1>1, <1>3 DEF LoopsOK
  <2>2. loops # <<>> => \E k \in 1 .. Len(p) : p[k].kind = "loop"
    BY <1>2, <1>3 DEF LoopsOK
  <2>3. \A k \in 1 .. Len(p) : p[k].kind = "loop" =>
          loops # <<>> /\ loops[1].break = p[k].endbb /\ loops[1].scope = p[k].before
    BY <1>1, <1>3 DEF LoopsOK
  <2> QED
    BY <1>3, <2>1, <2>2, <2>3 DEF LoopsOK
<1>4. ASSUME LoopsOK(loops, p) PROVE LoopsOK(loops, n)
  <2>1. \A k, l \in 1 .. Len(n) : n[k].kind = "loop" /\ n[l].kind = "loop" => k = l
    BY <1>2, <1>4 DEF LoopsOK
  <2>2. loops # <<>> => \E k \in 1 .. Len(n) : n[k].kind = "loop"
    BY <1>1, <1>4 DEF LoopsOK
  <2>3. \A k \in 1 .. Len(n) : n[k].kind = "loop" =>
          loops # <<>> /\ loops[1].break = n[k].endbb /\ loops[1].scope = n[k].before
    BY <1>2, <1>4 DEF LoopsOK
  <2> QED
    BY <1>4, <2>1, <2>2, <2>3 DEF LoopsOK
<1> QED
  BY <1>3, <1>4

(* The first loop: its targets are those of the open loop statement.       *)
LEMMA PushLoop ==
  ASSUME NEW n, NEW s, NEW p, Pushed(n, s, p), NEW T, NEW loops \in Seq(T), NEW t \in T,
         LoopsOK(loops, n), ~ \E k \in 1 .. Len(n) : n[k].kind = "loop",
         t.break = s.endbb, t.scope = s.before, s.kind = "loop"
  PROVE  LoopsOK(Append(loops, t), p)
<1> DEFINE q == Append(loops, t)
<1>1. loops = <<>>
  BY DEF LoopsOK
<1>2. Len(q) = 1 /\ q[1] = t /\ q # <<>>
  BY <1>1
<1> HIDE DEF q
<1>3. \A k \in 1 .. Len(p) : p[k].kind = "loop" => k = Len(p) /\ p[k] = s
  BY PushedFacts
<1>4. Len(p) \in 1 .. Len(p) /\ p[Len(p)] = s
  BY PushedFacts
<1>5. \A k, l \in 1 .. Len(p) : p[k].kind = "loop" /\ p[l].kind = "loop" => k = l
  BY <1>3
<1>6. \A k \in 1 .. Len(p) : p[k].kind = "loop" =>
        q # <<>> /\ q[1].break = p[k].endbb /\ q[1].scope = p[k].before
  BY <1>2, <1>3
<1>7. Len(q) <= 1
  BY <1>2
<1> QED
  BY <1>4, <1>5, <1>6, <1>7 DEF LoopsOK, q

(* The end of the loop: no targets are left.                               *)
LEMMA PopLoop ==
  ASSUME NEW n, NEW s, NEW p, Pushed(n, s, p), NEW T, NEW loops \in Seq(T),
         LoopsOK(loops, p), s.kind = "loop"
  PROVE  /\ LoopsOK(Front(loops), n)
         /\ loops # <<>> /\ Last(loops).break = s.endbb /\ Last(loops).scope = s.before
         /\ Last(loops) \in T
<1>1. Len(p) \in 1 .. Len(p) /\ p[Len(p)] = s
  BY PushedFacts
<1>2. loops # <<>> /\ loops[1].break = s.endbb /\ loops[1].scope = s.before /\ Len(loops) <= 1
  BY <1>1 DEF LoopsOK
<1>3. Len(loops) = 1 /\ Last(loops) = loops[1] /\ loops[1] \in T
  <2>0. Len(loops) \in Nat /\ Len(loops) # 0
    BY <1>2
  <2>1. Len(loops) = 1
    <3>1. \A x \in Nat : x # 0 /\ x <= 1 => x = 1
      OBVIOUS
    <3> QED
      BY <1>2, <2>0, <3>1
  <2>2. loops[1] \in T
    BY <2>1
  <2> QED
    BY <2>1, <2>2 DEF Last
<1>4. Front(loops) = <<>>
  <2>1. Front(loops) \in Seq(T) /\ Len(Front(loops)) = Len(loops) - 1
    BY <1>2, SeqFront
  <2> QED
    BY <1>3, <2>1
<1>5. \A k \in 1 .. Len(n) : n[k].kind # "loop"
  <2> SUFFICES ASSUME NEW k \in 1 .. Len(n), n[k].kind = "loop" PROVE FALSE
    OBVIOUS
  <2>1. k \in 1 .. Len(p) /\ k # Len(p) /\ p[k] = n[k]
    BY PushedFacts
  <2> QED
    BY <1>1, <2>1 DEF LoopsOK
<1>6. Len(<<>>) <= 1
  OBVIOUS
<1>7. LoopsOK(<<>>, n)
  BY <1>5, <1>6 DEF LoopsOK
<1> QED
  BY <1>2, <1>3, <1>4, <1>7

(* break and continue go to a loop statement that is open.                 *)
LEMMA LoopFacts ==
  ASSUME NEW n, NEW T, NEW loops \in Seq(T), LoopsOK(loops, n), loops # <<>>
  PROVE  \E k \in 1 .. Len(n) : n[k].kind = "loop" /\ Last(loops).scope = n[k].before
<1>1. PICK k \in 1 .. Len(n) : n[k].kind = "loop"
  BY DEF LoopsOK
<1>2. loops[1].scope = n[k].before /\ Len(loops) <= 1
  BY <1>1 DEF LoopsOK
<1>3. Last(loops) = loops[1]
  BY <1>2 DEF Last
<1> QED
  BY <1>1, <1>2, <1>3

(* Catches                                                                 *)
LEMMA HandlersPushed ==
  ASSUME NEW n, NEW s, NEW p, Pushed(n, s, p)
  PROVE  /\ Len(Handlers(n)) \in Nat
         /\ s.kind # "catch" => Handlers(p) = Handlers(n)
         /\ s.kind = "catch" =>
              /\ Len(Handlers(p)) = Len(Handlers(n)) + 1
              /\ \A i \in 1 .. Len(Handlers(n)) : Handlers(p)[i] = Handlers(n)[i]
              /\ Handlers(p)[Len(Handlers(n)) + 1] = s
<1>1. PICK U : n \in Seq(U) /\ s \in U /\ p = Append(n, s)
  BY DEF Pushed
<1>2. Handlers(p) = IF s.kind = "catch" THEN Append(Handlers(n), s) ELSE Handlers(n)
  BY <1>1, HandlersAppend
<1> DEFINE V == {x \in Range(n) : x.kind = "catch"}
           H == Handlers(n)
<1>3. H \in Seq(V)
  BY <1>1, HandlersOk
<1> DEFINE X == V \cup {s}
<1>4. V \subseteq X /\ s \in X
  OBVIOUS
<1> HIDE DEF V, X, H
<1>5. H \in Seq(X)
  BY <1>3, <1>4, SeqMono
<1>6. /\ Len(Append(H, s)) = Len(H) + 1 /\ Len(H) \in Nat
      /\ \A i \in 1 .. Len(H) : Append(H, s)[i] = H[i]
      /\ Append(H, s)[Len(H) + 1] = s
  BY <1>4, <1>5
<1> QED
  BY <1>2, <1>6 DEF H

(* A statement that is not a try statement changes no handler.             *)
LEMMA SameCatches ==
  ASSUME NEW n, NEW s, NEW p, Pushed(n, s, p), NEW catches, s.kind # "catch"
  PROVE  CatchesOK(catches, n) <=> CatchesOK(catches, p)
<1>1. Handlers(p) = Handlers(n)
  BY HandlersPushed
<1> QED
  BY <1>1 DEF CatchesOK

(* The generator's try statements follow the source's: one more.           *)
LEMMA PushCatch ==
  ASSUME NEW n, NEW s, NEW p, Pushed(n, s, p), s.kind = "catch", NEW T, NEW catches \in Seq(T),
         NEW tc \in T, tc.scope = s.before, tc.nonExceptions = NotOnlyExceptions(s.list),
         CatchesOK(catches, n)
  PROVE  CatchesOK(Append(catches, tc), p)
<1> DEFINE q == Append(catches, tc)
           H == Handlers(n)
           K == Handlers(p)
<1>1. /\ Len(q) = Len(catches) + 1 /\ Len(catches) \in Nat
      /\ \A i \in 1 .. Len(catches) : q[i] = catches[i]
      /\ q[Len(catches) + 1] = tc
  OBVIOUS
<1>2. /\ Len(K) = Len(H) + 1 /\ (\A i \in 1 .. Len(H) : K[i] = H[i]) /\ K[Len(H) + 1] = s
  BY HandlersPushed
<1>3. Len(catches) = Len(H) /\ \A i \in 1 .. Len(catches) :
         catches[i].scope = H[i].before /\ catches[i].nonExceptions = NotOnlyExceptions(H[i].list)
  BY DEF CatchesOK
<1> HIDE DEF q, H, K
<1>4. \A i \in 1 .. Len(q) : i \in 1 .. Len(catches) \/ i = Len(catches) + 1
  BY <1>1
<1>5. \A i \in 1 .. Len(q) :
         q[i].scope = K[i].before /\ q[i].nonExceptions = NotOnlyExceptions(K[i].list)
  BY <1>1, <1>2, <1>3, <1>4
<1>6. Len(q) = Len(K)
  BY <1>1, <1>2, <1>3
<1> QED
  BY <1>5, <1>6 DEF CatchesOK, q, K

(* The generator's try statements follow the source's: one less.           *)
LEMMA PopCatch ==
  ASSUME NEW n, NEW s, NEW p, Pushed(n, s, p), s.kind = "catch", NEW T, NEW catches \in Seq(T),
         CatchesOK(catches, p)
  PROVE  CatchesOK(Front(catches), n) /\ catches # <<>>
<1> DEFINE q == Front(catches)
           H == Handlers(n)
           K == Handlers(p)
<1>2. /\ Len(K) = Len(H) + 1 /\ (\A i \in 1 .. Len(H) : K[i] = H[i]) /\ Len(H) \in Nat
  BY HandlersPushed
<1>3. Len(catches) = Len(K) /\ \A i \in 1 .. Len(catches) :
         catches[i].scope = K[i].before /\ catches[i].nonExceptions = NotOnlyExceptions(K[i].list)
  BY DEF CatchesOK
<1> HIDE DEF H, K
<1>4. catches # <<>>
  BY <1>2, <1>3
<1>5. Len(q) = Len(catches) - 1 /\ \A k \in 1 .. Len(catches) - 1 : q[k] = catches[k]
  BY <1>4, SeqFront
<1> HIDE DEF q
<1>6. Len(q) = Len(H) /\ \A i \in 1 .. Len(H) : i \in 1 .. Len(catches) /\ i \in 1 .. Len(catches) - 1
  BY <1>2, <1>3, <1>5
<1>7. \A i \in 1 .. Len(q) :
         q[i].scope = H[i].before /\ q[i].nonExceptions = NotOnlyExceptions(H[i].list)
  BY <1>2, <1>3, <1>5, <1>6
<1> QED
  BY <1>4, <1>6, <1>7 DEF CatchesOK, q, H

(* No open statement has a scope above the stack.                          *)
LEMMA ChainWithin ==
  ASSUME NEW N, NEW n, NestOK(N, n), NEW eh, NEW m \in Nat, Chain(m, eh, n)
  PROVE  \A k \in 1 .. Len(n) : n[k].before + Height(n[k], eh) <= m
<1>1. \A k \in 1 .. Len(n) : Height(n[k], eh) \in Nat /\ n[k].before \in Nat
  BY HeightsOk
<1>2. Len(n) \in Nat
  BY DEF NestOK
<1>3. /\ \A k \in 1 .. Len(n) :
           n[k].before + Height(n[k], eh) = IF k = Len(n) THEN m ELSE n[k + 1].before
      /\ \A k, l \in 1 .. Len(n) : k < l => n[k].before + Height(n[k], eh) <= n[l].before
  BY DEF Chain
<1> SUFFICES ASSUME NEW k \in 1 .. Len(n) PROVE n[k].before + Height(n[k], eh) <= m
  OBVIOUS
<1>4. CASE k = Len(n)
  BY <1>1, <1>3, <1>4
<1>5. CASE k # Len(n)
  <2>1. Len(n) \in 1 .. Len(n) /\ k < Len(n)
    BY <1>2, <1>5
  <2>2. n[k].before + Height(n[k], eh) <= n[Len(n)].before
        /\ n[Len(n)].before + Height(n[Len(n)], eh) = m
    BY <1>3, <2>1
  <2> QED
    BY <1>1, <2>1, <2>2
<1> QED
  BY <1>4, <1>5

(* The scopes of the registered try statements are in use.                 *)
LEMMA CatchesOKWithin ==
  ASSUME NEW N, NEW n, NestOK(N, n), NEW f, Len(f.scopes) \in Nat,
         Chain(Len(f.scopes), f.msvc, n), CatchesOK(f.catches, n)
  PROVE  CatchesWithin(f)
<1> SUFFICES ASSUME NEW i \in 1 .. Len(f.catches)
             PROVE  f.catches[i].scope + (IF f.msvc THEN 1 ELSE 0) <= Len(f.scopes)
  BY DEF CatchesWithin
<1>1. PICK U : n \in Seq(U)
  BY DEF NestOK
<1> DEFINE s == Handlers(n)[i]
           V == {x \in Range(n) : x.kind = "catch"}
<1>2. Handlers(n) \in Seq(V)
  BY <1>1, HandlersOk
<1>3. i \in 1 .. Len(Handlers(n)) /\ f.catches[i].scope = s.before
  BY DEF CatchesOK
<1>4. s \in V
  <2> DEFINE H == Handlers(n)
  <2> HIDE DEF V, H
  <2>1. H[i] \in V
    BY <1>2, <1>3 DEF H
  <2> QED
    BY <2>1 DEF H
<1>5. PICK k \in 1 .. Len(n) : n[k] = s /\ s.kind = "catch"
  BY <1>1, <1>4 DEF Range
<1>6. n[k].before + Height(n[k], f.msvc) <= Len(f.scopes)
  BY ChainWithin
<1>7. Height(n[k], f.msvc) = IF f.msvc THEN 1 ELSE 0
  BY <1>5 DEF Height, Up
<1> QED
  BY <1>3, <1>5, <1>6, <1>7

(* Labels                                                                  *)
LEMMA PushTries ==
  ASSUME NEW N, NEW n, NestOK(N, n), NEW M, NEW p, NestOK(M, p), NEW s, Pushed(n, s, p)
  PROVE  \A x : x \in Range(TryBlocks(p)) <=> x \in Range(TryBlocks(n)) \/ x \in Ids(s)
<1>1. \A x : x \in Range(TryBlocks(n)) <=> \E i \in 1 .. Len(n) : x \in Ids(n[i])
  BY TryBlocksOk
<1>2. \A x : x \in Range(TryBlocks(p)) <=> \E i \in 1 .. Len(p) : x \in Ids(p[i])
  BY TryBlocksOk
<1>3. ASSUME NEW x PROVE (\E i \in 1 .. Len(p) : x \in Ids(p[i])) <=>
                         (\E i \in 1 .. Len(n) : x \in Ids(n[i])) \/ x \in Ids(s)
  BY PushedFacts
<1> QED
  BY <1>1, <1>2, <1>3

(* A label seen before stays in order when a statement opens after it.     *)
LEMMA PushLabel ==
  ASSUME NEW N, NEW n, NestOK(N, n), NEW M, NEW p, NestOK(M, p), NEW s, Pushed(n, s, p),
         NEW eh, NEW m \in Nat, NEW label, label.scope \in Nat, LabelOK(label, m, eh, n),
         s.before = m, Ids(s) \cap Range(label.tries) = {}
  PROVE  LabelOK(label, m + Height(s, eh), eh, p)
<1>1. StatementOK(s, M)
  BY PopNest
<1>2. Height(s, eh) \in Nat
  BY <1>1, HeightOk
<1>3. Lost(label, n) => Lost(label, p)
  BY PushTries DEF Lost
<1>4. ASSUME label.scope <= m,
             \A k \in 1 .. Len(n) :
               n[k].before < label.scope /\ Height(n[k], eh) > 0 => Ids(n[k]) \subseteq Range(label.tries)
      PROVE  /\ label.scope <= m + Height(s, eh)
             /\ \A k \in 1 .. Len(p) :
                  p[k].before < label.scope /\ Height(p[k], eh) > 0 => Ids(p[k]) \subseteq Range(label.tries)
  <2>1. label.scope <= m + Height(s, eh)
    BY <1>2, <1>4
  <2>2. ~ (s.before < label.scope)
    BY <1>4
  <2>3. ASSUME NEW k \in 1 .. Len(p), p[k].before < label.scope, Height(p[k], eh) > 0
        PROVE  Ids(p[k]) \subseteq Range(label.tries)
    <3>1. k \in 1 .. Len(n) /\ p[k] = n[k]
      BY <2>2, <2>3, PushedFacts
    <3>2. n[k].before < label.scope /\ Height(n[k], eh) > 0
      BY <2>3, <3>1
    <3>3. Ids(n[k]) \subseteq Range(label.tries)
      BY <1>4, <3>1, <3>2
    <3> QED
      BY <3>1, <3>3
  <2> QED
    BY <2>1, <2>3
<1>5. \A k \in 1 .. Len(p) : p[k].kind = "expr" => Ids(p[k]) \cap Range(label.tries) = {}
  BY PushedFacts DEF LabelOK
<1> QED
  BY <1>3, <1>4, <1>5 DEF LabelOK

(* A label in a statement that ends is out of reach afterwards, the others *)
(* stay in order.                                                          *)
LEMMA PopLabel ==
  ASSUME NEW N, NEW n, NEW s, NEW p, Pushed(n, s, p), NestOK(N, p), Apart(p),
         NEW eh, NEW m \in Nat, Chain(m, eh, p), NEW label, label.scope \in Nat,
         LabelOK(label, m, eh, p)
  PROVE  /\ LabelOK(label, s.before, eh, n)
         /\ s.kind = "expr" => Ids(s) \cap Range(label.tries) = {}
<1>1. NestOK(N, n) /\ StatementOK(s, N)
  BY PopNest
<1>2. m = s.before + Height(s, eh) /\ s.before \in 0 .. m
  BY PopChain
<1>3. Height(s, eh) \in Nat /\ (Height(s, eh) > 0 => \E x : x \in Ids(s))
  BY <1>1, HeightOk
<1>4. Lost(label, p) => Lost(label, n)
  BY <1>1, PushTries DEF Lost
<1>5. ASSUME label.scope <= m,
             \A k \in 1 .. Len(p) :
               p[k].before < label.scope /\ Height(p[k], eh) > 0 => Ids(p[k]) \subseteq Range(label.tries)
      PROVE  \/ Lost(label, n)
             \/ /\ label.scope <= s.before
                /\ \A k \in 1 .. Len(n) :
                     n[k].before < label.scope /\ Height(n[k], eh) > 0 => Ids(n[k]) \subseteq Range(label.tries)
  <2>1. CASE label.scope <= s.before
    <3>1. ASSUME NEW k \in 1 .. Len(n), n[k].before < label.scope, Height(n[k], eh) > 0
          PROVE  Ids(n[k]) \subseteq Range(label.tries)
      <4>1. k \in 1 .. Len(p) /\ p[k] = n[k]
        BY PushedFacts
      <4>2. p[k].before < label.scope /\ Height(p[k], eh) > 0
        BY <3>1, <4>1
      <4>3. Ids(p[k]) \subseteq Range(label.tries)
        BY <1>5, <4>1, <4>2
      <4> QED
        BY <4>1, <4>3
    <3> QED
      BY <2>1, <3>1
  <2>2. CASE label.scope > s.before
    <3>1. Height(s, eh) > 0
      BY <1>2, <1>3, <1>5, <2>2
    <3>2. PICK x : x \in Ids(s)
      BY <1>3, <3>1
    <3>3. s.before < label.scope
      BY <1>2, <2>2
    <3>4. Ids(s) \subseteq Range(label.tries)
      <4>1. Len(p) \in 1 .. Len(p) /\ p[Len(p)] = s
        BY PushedFacts
      <4> QED
        BY <1>5, <3>1, <3>3, <4>1
    <3>5. \A k \in 1 .. Len(n) : Ids(n[k]) \cap Ids(s) = {}
      BY PopApart
    <3>6. x \notin Range(TryBlocks(n))
      BY <1>1, <3>2, <3>5, TryBlocksOk
    <3> QED
      BY <3>2, <3>4, <3>6 DEF Lost
  <2> QED
    BY <1>2, <2>1, <2>2
<1>6. \A k \in 1 .. Len(n) : n[k].kind = "expr" => Ids(n[k]) \cap Range(label.tries) = {}
  BY PushedFacts DEF LabelOK
<1>7. s.kind = "expr" => Ids(s) \cap Range(label.tries) = {}
  BY PushedFacts DEF LabelOK
<1>8. \/ Lost(label, n)
      \/ /\ label.scope <= s.before
         /\ \A k \in 1 .. Len(n) :
              n[k].before < label.scope /\ Height(n[k], eh) > 0 => Ids(n[k]) \subseteq Range(label.tries)
  BY <1>4, <1>5 DEF LabelOK
<1> QED
  BY <1>6, <1>7, <1>8 DEF LabelOK

(* Gotos                                                                   *)
LEMMA PushOutside ==
  ASSUME NEW n, NEW s, NEW p, Pushed(n, s, p), NEW eh, NEW c \in Nat, NEW tries,
         Outside(tries, c, eh, n),
         s.before + 1 >= c /\ Height(s, eh) > 0 => Ids(s) \cap Range(tries) = {}
  PROVE  Outside(tries, c, eh, p)
<1> SUFFICES ASSUME NEW k \in 1 .. Len(p), p[k].before + 1 >= c, Height(p[k], eh) > 0
             PROVE  Ids(p[k]) \cap Range(tries) = {}
  BY DEF Outside
<1>1. CASE k \in 1 .. Len(n)
  <2>1. p[k] = n[k]
    BY <1>1, PushedFacts
  <2> QED
    BY <1>1, <2>1 DEF Outside
<1>2. CASE k = Len(p)
  <2>1. p[k] = s
    BY <1>2, PushedFacts
  <2> QED
    BY <2>1
<1> QED
  BY <1>1, <1>2, PushedFacts

(* A goto outside the statements stays outside fewer of them.              *)
LEMMA PopOutside ==
  ASSUME NEW n, NEW s, NEW p, Pushed(n, s, p), NEW eh, NEW c, NEW tries, Outside(tries, c, eh, p)
  PROVE  /\ Outside(tries, c, eh, n)
         /\ s.before + 1 >= c /\ Height(s, eh) > 0 => Ids(s) \cap Range(tries) = {}
<1>1. ASSUME NEW k \in 1 .. Len(n), n[k].before + 1 >= c, Height(n[k], eh) > 0
      PROVE  Ids(n[k]) \cap Range(tries) = {}
  <2>1. k \in 1 .. Len(p) /\ p[k] = n[k]
    BY PushedFacts
  <2> QED
    BY <1>1, <2>1 DEF Outside
<1>2. Len(p) \in 1 .. Len(p) /\ p[Len(p)] = s
  BY PushedFacts
<1>3. s.before + 1 >= c /\ Height(s, eh) > 0 => Ids(s) \cap Range(tries) = {}
  BY <1>2 DEF Outside
<1> QED
  BY <1>1, <1>3 DEF Outside

(* No statement is above the stack.                                        *)
LEMMA OutsideTop ==
  ASSUME NEW N, NEW n, NestOK(N, n), NEW eh, NEW m \in Nat,
         \A k \in 1 .. Len(n) : n[k].before + Height(n[k], eh) <= m, NEW tries
  PROVE  Outside(tries, m + 1, eh, n)
<1> SUFFICES ASSUME NEW k \in 1 .. Len(n), n[k].before + 1 >= m + 1, Height(n[k], eh) > 0
             PROVE  FALSE
  BY DEF Outside
<1>1. Height(n[k], eh) \in Nat /\ n[k].before \in Nat
  BY HeightsOk
<1>2. n[k].before + Height(n[k], eh) <= m
  OBVIOUS
<1> QED
  BY <1>1, <1>2

(* A goto that waits keeps its ghost, since no step returns to its block.  *)
LEMMA SeeksStay ==
  ASSUME NEW f, NEW h, Changes(f, h), Len(f.blk) \in Nat, Len(h.blk) \in Nat,
         f.blk[f.cur].want.kind # "goto",
         NEW j, j.src \in 1 .. Len(f.blk), Seeks(f, j)
  PROVE  Seeks(h, j) /\ h.blk[j.src].want = f.blk[j.src].want
<1>1. j.src # f.cur
  BY DEF Seeks
<1>2. h.blk[j.src].want = f.blk[j.src].want /\ h.labels = f.labels
  BY <1>1 DEF Changes, WantsOf
<1> DEFINE A == 1 .. Len(f.blk)
           B == 1 .. Len(h.blk)
<1>3. A \subseteq B
  BY DEF Changes
<1> HIDE DEF A, B
<1>4. Seq(A) \subseteq Seq(B)
  BY <1>3, SeqMono
<1>5. f.blk[j.src].want.tries \in Seq(B)
  BY <1>4 DEF Seeks, A
<1> QED
  BY <1>2, <1>5 DEF Seeks, B

(* The scope and the try blocks of a label have their types.               *)
LEMMA LabelFacts ==
  ASSUME NEW W, NEW f, WellFormed(f, 1, W)
  PROVE  \A l \in DOMAIN f.labels :
           f.labels[l].scope \in Nat /\ f.labels[l].tries \in Seq(1 .. Len(f.blk))
<1> DEFINE n == Len(f.blk)
<1>1. f.labels \in LabelMap(n)
  BY DEF WellFormed, FunctionSet
<1>2. PICK D : f.labels \in [D -> LabelSet(n)]
  BY <1>1 DEF LabelMap
<1> SUFFICES ASSUME NEW l \in DOMAIN f.labels
             PROVE  f.labels[l].scope \in Nat /\ f.labels[l].tries \in Seq(1 .. n)
  OBVIOUS
<1>3. f.labels[l] \in LabelSet(n)
  BY <1>2
<1> QED
  BY <1>3 DEF LabelSet

(* The elements of a sequence are in its set.                              *)
LEMMA RangeWithin ==
  ASSUME NEW T, NEW s \in Seq(T)
  PROVE  Range(s) \subseteq T
BY DEF Range

(* The visitor that stays, or moves to a new block, is in no block a       *)
(* statement continues in.                                                 *)
LEMMA ClearOk ==
  ASSUME NEW f, NEW n, NestOK(Len(f.blk), n), Distinct(f, n), NEW h,
         h.cur = f.cur \/ h.cur \notin 1 .. Len(f.blk)
  PROVE  Clear(h, n)
<1> SUFFICES ASSUME NEW k \in 1 .. Len(n), Continues(n[k]) PROVE Cont(n[k]) # h.cur
  BY DEF Clear
<1>1. Cont(n[k]) \in 1 .. Len(f.blk)
  BY DEF NestOK, StatementOK
<1>2. Cont(n[k]) # f.cur
  BY DEF Distinct
<1> QED
  BY <1>1, <1>2

GotosMove(f, h, q) ==
  \A c \in 1 .. Len(h.gotos) : \A j \in Range(h.gotos[c]) :
    \E d \in 1 .. Len(f.gotos) :
      j \in Range(f.gotos[d]) /\ (d = c \/ \A tries : Outside(tries, c, f.msvc, q))

(* Gotos that stay in their cursor, or move to one no statement is above,  *)
(* still wait rightly.                                                     *)
LEMMA GotosMoveOk ==
  ASSUME NEW W, NEW f, WellFormed(f, 1, W), NEW h, WellFormed(h, 1, W), NEW n, GotosOK(f, n),
         Changes(f, h), f.blk[f.cur].want.kind # "goto", NEW q, GotosMove(f, h, q),
         \A tries \in Seq(1 .. Len(f.blk)), c \in 1 .. Len(f.gotos) :
           Outside(tries, c, f.msvc, n) => Outside(tries, c, f.msvc, q)
  PROVE  GotosOK(h, q)
<1> SUFFICES ASSUME NEW c \in 1 .. Len(h.gotos), NEW j \in Range(h.gotos[c])
             PROVE  Waits(h, q, c, j)
  BY DEF GotosOK
<1> DEFINE tries == f.blk[j.src].want.tries
<1>1. PICK d \in 1 .. Len(f.gotos) :
        j \in Range(f.gotos[d]) /\ (d = c \/ \A t : Outside(t, c, f.msvc, q))
  BY DEF GotosMove
<1>2. Waits(f, n, d, j)
  BY <1>1 DEF GotosOK
<1>3. j \in GotoSet(Len(f.blk))
  <2>1. f.gotos[d] \in Seq(GotoSet(Len(f.blk)))
    BY GotoFacts
  <2> QED
    BY <1>1, <2>1, RangeWithin
<1>4. j.src \in 1 .. Len(f.blk)
  BY <1>3 DEF GotoSet
<1>5. Len(f.blk) \in Nat /\ Len(h.blk) \in Nat
  BY Lengths
<1>6. Seeks(h, j) /\ h.blk[j.src].want = f.blk[j.src].want
  BY <1>2, <1>4, <1>5, SeeksStay DEF Waits
<1>7. tries \in Seq(1 .. Len(f.blk)) /\ Outside(tries, d, f.msvc, n)
  BY <1>2 DEF Waits, Seeks
<1>8. Outside(tries, c, f.msvc, q)
  BY <1>1, <1>7
<1> QED
  BY <1>6, <1>8 DEF Waits, Changes

(* What PopsTo says of the gotos that wait.                                *)
GotosFrom(f, h, t) ==
  /\ Len(h.scopes) = t /\ \A c \in 1 .. t : h.gotos[c] = f.gotos[c]
  /\ \A j \in Range(h.gotos[t + 1]) : \E c \in 1 .. Len(f.gotos) : c > t /\ j \in Range(f.gotos[c])

(* What popCleanups does to the gotos that wait.                           *)
LEMMA PopsGotos ==
  ASSUME NEW W, NEW f, NEW h, NEW t, PopsTo(f, h, t, W)
  PROVE  GotosFrom(f, h, t)
BY DEF PopsTo, GotosFrom

(* Gotos that are not touched.                                             *)
LEMMA SameGotos ==
  ASSUME NEW W, NEW f, WellFormed(f, 1, W), NEW h, h.gotos = f.gotos, Len(h.scopes) = Len(f.scopes)
  PROVE  GotosFrom(f, h, Len(f.scopes))
<1>1. Len(f.gotos) = Len(f.scopes) + 1 /\ Len(f.scopes) \in Nat
  BY GotoFacts, Lengths
<1>2. Len(f.scopes) + 1 \in 1 .. Len(f.gotos) /\ Len(f.scopes) + 1 > Len(f.scopes)
  BY <1>1
<1> QED
  BY <1>2 DEF GotosFrom

(* Gotos of popped scopes move to the cursor of the point that is left.    *)
LEMMA GotosFromMove ==
  ASSUME NEW W, NEW f, WellFormed(f, 1, W), NEW h, WellFormed(h, 1, W),
         NEW t \in 0 .. Len(f.scopes), GotosFrom(f, h, t), NEW q,
         \A tries : Outside(tries, t + 1, f.msvc, q)
  PROVE  GotosMove(f, h, q)
<1> SUFFICES ASSUME NEW c \in 1 .. Len(h.gotos), NEW j \in Range(h.gotos[c])
             PROVE  \E d \in 1 .. Len(f.gotos) :
                      j \in Range(f.gotos[d]) /\ (d = c \/ \A tries : Outside(tries, c, f.msvc, q))
  BY DEF GotosMove
<1>1. Len(f.gotos) = Len(f.scopes) + 1 /\ Len(f.scopes) \in Nat /\ Len(h.gotos) = t + 1
  BY GotoFacts, Lengths DEF GotosFrom
<1>2. CASE c \in 1 .. t
  <2>1. h.gotos[c] = f.gotos[c] /\ c \in 1 .. Len(f.gotos)
    <3>1. h.gotos[c] = f.gotos[c]
      BY <1>2 DEF GotosFrom
    <3> QED
      BY <1>1, <1>2, <3>1
  <2> QED
    BY <2>1
<1>3. CASE c = t + 1
  BY <1>3 DEF GotosFrom
<1> QED
  BY <1>1, <1>2, <1>3

-----------------------------------------------------------------------------
(* A step leaves the statements as they are, ends one, opens one, or adds  *)
(* a temporary to a full expression.                                       *)

(* A step that opens and ends no statement keeps Generated.                *)
LEMMA StayOk ==
  ASSUME NEW W, NEW f, WellFormed(f, 1, W), NEW h, WellFormed(h, 1, W), NEW n, Generated(f, n),
         Changes(f, h), GotosFrom(f, h, Len(f.scopes)), h.loops = f.loops, h.catches = f.catches,
         Clear(h, n)
  PROVE  Generated(h, n)
<1>1. /\ NestOK(Len(f.blk), n) /\ Chain(Len(f.scopes), f.msvc, n) /\ Apart(n) /\ Distinct(f, n)
      /\ LoopsOK(f.loops, n) /\ CatchesOK(f.catches, n)
      /\ LabelsOK(f.labels, Len(f.scopes), f.msvc, n) /\ GotosOK(f, n)
  BY DEF Generated
<1>2. /\ Len(f.blk) \in Nat /\ Len(h.blk) \in Nat /\ Len(f.scopes) \in Nat
  BY Lengths
<1>3. Len(h.blk) >= Len(f.blk) /\ h.msvc = f.msvc /\ h.labels = f.labels
  BY DEF Changes
<1>4. NestOK(Len(h.blk), n)
  BY <1>1, <1>2, <1>3, NestWidens
<1>5. Len(h.scopes) = Len(f.scopes)
  BY DEF GotosFrom
<1>6. Distinct(h, n)
  BY <1>1, StayDistinct
<1>7. \A k \in 1 .. Len(n) : n[k].before + Height(n[k], f.msvc) <= Len(f.scopes)
  BY <1>1, <1>2, ChainWithin
<1>8. \A tries : Outside(tries, Len(f.scopes) + 1, f.msvc, n)
  BY <1>1, <1>2, <1>7, OutsideTop
<1>9. GotosMove(f, h, n)
  <2>1. Len(f.scopes) \in 0 .. Len(f.scopes)
    BY <1>2
  <2> QED
    BY <1>8, <2>1, GotosFromMove
<1>10. f.blk[f.cur].want.kind # "goto"
  BY <1>1 DEF Distinct
<1>11. GotosOK(h, n)
  BY <1>1, <1>9, <1>10, GotosMoveOk
<1> QED
  BY <1>1, <1>3, <1>4, <1>5, <1>6, <1>11 DEF Generated

(* A step that ends a statement keeps Generated.                           *)
LEMMA PopOk ==
  ASSUME NEW W, NEW f, WellFormed(f, 1, W), NEW h, WellFormed(h, 1, W),
         NEW n, NEW s, NEW p, Pushed(n, s, p), Generated(f, p),
         Changes(f, h), GotosFrom(f, h, s.before), LoopsOK(h.loops, n), CatchesOK(h.catches, n),
         Clear(h, n)
  PROVE  Generated(h, n)
<1>1. /\ NestOK(Len(f.blk), p) /\ Chain(Len(f.scopes), f.msvc, p) /\ Apart(p) /\ Distinct(f, p)
      /\ LabelsOK(f.labels, Len(f.scopes), f.msvc, p) /\ GotosOK(f, p)
  BY DEF Generated
<1>2. /\ Len(f.blk) \in Nat /\ Len(h.blk) \in Nat /\ Len(f.scopes) \in Nat
  BY Lengths
<1>3. Len(h.blk) >= Len(f.blk) /\ h.msvc = f.msvc /\ h.labels = f.labels
  BY DEF Changes
<1>n. NestOK(Len(f.blk), n)
  BY <1>1, PopNest
<1>4. NestOK(Len(h.blk), n)
  BY <1>2, <1>3, <1>n, NestWidens
<1>5. Len(h.scopes) = s.before
  BY DEF GotosFrom
<1>c. /\ Chain(s.before, f.msvc, n) /\ s.before \in 0 .. Len(f.scopes)
      /\ \A k \in 1 .. Len(n) : n[k].before + Height(n[k], f.msvc) <= s.before
  BY <1>1, <1>2, PopChain
<1>6. Distinct(h, n)
  <2>1. Distinct(f, n)
    BY <1>1, PopDistinct
  <2> QED
    BY <1>n, <2>1, StayDistinct
<1>8. \A tries : Outside(tries, s.before + 1, f.msvc, n)
  <2>1. s.before \in Nat
    BY <1>2, <1>c
  <2> QED
    BY <1>c, <1>n, <2>1, OutsideTop
<1>9. GotosMove(f, h, n)
  BY <1>8, <1>c, GotosFromMove
<1>10. f.blk[f.cur].want.kind # "goto"
  BY <1>1 DEF Distinct
<1>11. \A tries, c : Outside(tries, c, f.msvc, p) => Outside(tries, c, f.msvc, n)
  BY PopOutside
<1>12. GotosOK(h, n)
  BY <1>1, <1>9, <1>10, <1>11, GotosMoveOk
<1>13. LabelsOK(h.labels, s.before, f.msvc, n)
  <2> SUFFICES ASSUME NEW l \in DOMAIN f.labels PROVE LabelOK(f.labels[l], s.before, f.msvc, n)
    BY <1>3 DEF LabelsOK
  <2>1. f.labels[l].scope \in Nat
    BY LabelFacts
  <2>2. LabelOK(f.labels[l], Len(f.scopes), f.msvc, p)
    BY <1>1 DEF LabelsOK
  <2> QED
    BY <1>1, <1>2, <2>1, <2>2, PopLabel
<1>14. Apart(n)
  BY <1>1, PopApart
<1> QED
  BY <1>3, <1>4, <1>5, <1>6, <1>12, <1>13, <1>14, <1>c DEF Generated

(* The cursors of f keep their gotos; those above have none.               *)
GotosAbove(f, h) ==
  \A c \in 1 .. Len(h.gotos) :
    h.gotos[c] = <<>> \/ (c \in 1 .. Len(f.gotos) /\ h.gotos[c] = f.gotos[c])

(* A new cursor without gotos.                                             *)
LEMMA GotosAboveMove ==
  ASSUME NEW f, NEW h, GotosAbove(f, h), NEW q
  PROVE  GotosMove(f, h, q)
<1> SUFFICES ASSUME NEW c \in 1 .. Len(h.gotos), NEW j \in Range(h.gotos[c])
             PROVE  \E d \in 1 .. Len(f.gotos) : j \in Range(f.gotos[d]) /\ d = c
  BY DEF GotosMove
<1>1. h.gotos[c] # <<>>
  BY DEF Range
<1> QED
  BY <1>1 DEF GotosAbove

(* A step that opens a statement keeps Generated.                          *)
LEMMA PushOk ==
  ASSUME NEW W, NEW f, WellFormed(f, 1, W), NEW h, WellFormed(h, 1, W),
         NEW n, NEW s, NEW p, Pushed(n, s, p), Generated(f, n), NoExpression(n),
         StatementOK(s, Len(h.blk)), s.before = Len(f.scopes), Ids(s) \cap 1 .. Len(f.blk) = {},
         Continues(s) => Cont(s) > Len(f.blk) /\ Cont(s) # h.cur /\ h.blk[Cont(s)].want.kind # "goto",
         Changes(f, h), Len(h.scopes) = Len(f.scopes) + Height(s, f.msvc), GotosAbove(f, h),
         LoopsOK(h.loops, p), CatchesOK(h.catches, p), Clear(h, n)
  PROVE  Generated(h, p)
<1>1. /\ NestOK(Len(f.blk), n) /\ Chain(Len(f.scopes), f.msvc, n) /\ Apart(n) /\ Distinct(f, n)
      /\ LabelsOK(f.labels, Len(f.scopes), f.msvc, n) /\ GotosOK(f, n)
  BY DEF Generated
<1>2. /\ Len(f.blk) \in Nat /\ Len(h.blk) \in Nat /\ Len(f.scopes) \in Nat
  BY Lengths
<1>3. Len(h.blk) >= Len(f.blk) /\ h.msvc = f.msvc /\ h.labels = f.labels
  BY DEF Changes
<1>4. NestOK(Len(h.blk), p)
  BY <1>1, <1>2, <1>3, PushNest
<1>c. Chain(Len(h.scopes), f.msvc, p)
  BY <1>1, <1>2, PushChain
<1>f. \A k \in 1 .. Len(n) : Ids(n[k]) \cap Ids(s) = {}
  BY <1>1, <1>2, FreshIds
<1>5. Apart(p)
  BY <1>1, <1>f, PushApart
<1>6. Distinct(h, p)
  <2>1. Distinct(h, n)
    BY <1>1, StayDistinct
  <2>2. ASSUME Continues(s), NEW k \in 1 .. Len(n), Continues(n[k]) PROVE Cont(n[k]) # Cont(s)
    <3>1. Cont(n[k]) \in 1 .. Len(f.blk)
      BY <1>1, <2>2 DEF NestOK, StatementOK
    <3> QED
      BY <1>2, <2>2, <3>1
  <2>3. NestOK(Len(h.blk), n)
    BY <1>1, <1>2, <1>3, NestWidens
  <2> QED
    BY <2>1, <2>2, <2>3, PushDistinct
<1>7. \A tries \in Seq(1 .. Len(f.blk)) : Ids(s) \cap Range(tries) = {}
  BY RangeWithin
<1>8. GotosMove(f, h, p)
  BY GotosAboveMove
<1>9. \A tries \in Seq(1 .. Len(f.blk)), c \in 1 .. Len(f.gotos) :
         Outside(tries, c, f.msvc, n) => Outside(tries, c, f.msvc, p)
  <2> SUFFICES ASSUME NEW tries \in Seq(1 .. Len(f.blk)), NEW c \in 1 .. Len(f.gotos),
                      Outside(tries, c, f.msvc, n)
               PROVE  Outside(tries, c, f.msvc, p)
    OBVIOUS
  <2>1. c \in Nat
    OBVIOUS
  <2> QED
    BY <1>7, <2>1, PushOutside
<1>10. f.blk[f.cur].want.kind # "goto"
  BY <1>1 DEF Distinct
<1>11. GotosOK(h, p)
  BY <1>1, <1>8, <1>9, <1>10, GotosMoveOk
<1>12. LabelsOK(h.labels, Len(h.scopes), f.msvc, p)
  <2> SUFFICES ASSUME NEW l \in DOMAIN f.labels PROVE LabelOK(f.labels[l], Len(h.scopes), f.msvc, p)
    BY <1>3 DEF LabelsOK
  <2>1. f.labels[l].scope \in Nat /\ f.labels[l].tries \in Seq(1 .. Len(f.blk))
    BY LabelFacts
  <2>2. LabelOK(f.labels[l], Len(f.scopes), f.msvc, n)
    BY <1>1 DEF LabelsOK
  <2> QED
    BY <1>1, <1>2, <1>4, <1>7, <2>1, <2>2, PushLabel
<1> QED
  BY <1>3, <1>4, <1>5, <1>6, <1>11, <1>12, <1>c DEF Generated

(* One more temporary of a full expression keeps Generated.                *)
LEMMA GrowOk ==
  ASSUME NEW W, NEW f, WellFormed(f, 1, W), NEW h, WellFormed(h, 1, W),
         NEW n, NEW s, NEW p, Pushed(n, s, p), Generated(f, p), s.kind = "expr",
         NEW e, NEW q, Pushed(n, e, q), e.kind = "expr", e.before = s.before,
         StatementOK(e, Len(h.blk)),
         Height(e, f.msvc) = Height(s, f.msvc) + 1,
         \A x \in Ids(e) : x \in Ids(s) \/ x \notin 1 .. Len(f.blk),
         Changes(f, h), Len(h.scopes) = Len(f.scopes) + 1, GotosAbove(f, h),
         h.loops = f.loops, h.catches = f.catches, Clear(h, n)
  PROVE  Generated(h, q)
<1>1. /\ NestOK(Len(f.blk), p) /\ Chain(Len(f.scopes), f.msvc, p) /\ Apart(p) /\ Distinct(f, p)
      /\ LabelsOK(f.labels, Len(f.scopes), f.msvc, p) /\ GotosOK(f, p)
      /\ LoopsOK(f.loops, p) /\ CatchesOK(f.catches, p)
  BY DEF Generated
<1>2. /\ Len(f.blk) \in Nat /\ Len(h.blk) \in Nat /\ Len(f.scopes) \in Nat
  BY Lengths
<1>3. Len(h.blk) >= Len(f.blk) /\ h.msvc = f.msvc /\ h.labels = f.labels
  BY DEF Changes
<1>n. NestOK(Len(f.blk), n) /\ NoExpression(n) /\ StatementOK(s, Len(f.blk))
  BY <1>1, PopNest
<1>4. NestOK(Len(h.blk), q)
  BY <1>2, <1>3, <1>n, PushNest
<1>c. /\ Chain(s.before, f.msvc, n) /\ s.before \in 0 .. Len(f.scopes)
      /\ Len(f.scopes) = s.before + Height(s, f.msvc)
  BY <1>1, <1>2, PopChain
<1>h. Height(s, f.msvc) \in Nat /\ Height(e, f.msvc) \in Nat /\ s.before \in Nat
  BY <1>n, HeightOk
<1>d. Chain(Len(h.scopes), f.msvc, q)
  <2>1. Chain(s.before + Height(e, f.msvc), f.msvc, q)
    BY <1>c, <1>h, <1>n, PushChain
  <2>2. s.before + Height(e, f.msvc) = Len(h.scopes)
    BY <1>c, <1>h
  <2> QED
    BY <2>1, <2>2
<1>f. \A k \in 1 .. Len(n) : Ids(n[k]) \cap Ids(s) = {} /\ Ids(n[k]) \subseteq 1 .. Len(f.blk)
  <2>1. \A k \in 1 .. Len(n) : Ids(n[k]) \cap Ids(s) = {}
    BY <1>1, PopApart
  <2>2. {} \cap 1 .. Len(f.blk) = {}
    OBVIOUS
  <2>3. \A k \in 1 .. Len(n) : Ids(n[k]) \subseteq 1 .. Len(f.blk)
    BY <1>2, <1>n, <2>2, FreshIds
  <2> QED
    BY <2>1, <2>3
<1>5. Apart(q)
  <2>1. Apart(n)
    BY <1>1, PopApart
  <2>2. \A k \in 1 .. Len(n) : Ids(n[k]) \cap Ids(e) = {}
    BY <1>f
  <2> QED
    BY <2>1, <2>2, PushApart
<1>6. Distinct(h, q)
  <2>1. Distinct(f, n)
    BY <1>1, PopDistinct
  <2>2. Distinct(h, n)
    BY <1>n, <2>1, StayDistinct
  <2>3. ~Continues(e)
    BY DEF Continues
  <2>4. NestOK(Len(h.blk), n)
    BY <1>2, <1>3, <1>n, NestWidens
  <2> QED
    BY <2>2, <2>3, <2>4, PushDistinct
<1>7. ASSUME NEW tries \in Seq(1 .. Len(f.blk)), Ids(s) \cap Range(tries) = {}
      PROVE  Ids(e) \cap Range(tries) = {}
  BY <1>7, RangeWithin
<1>8. GotosMove(f, h, q)
  BY GotosAboveMove
<1>9. \A tries \in Seq(1 .. Len(f.blk)), c \in 1 .. Len(f.gotos) :
         Outside(tries, c, f.msvc, p) => Outside(tries, c, f.msvc, q)
  <2> SUFFICES ASSUME NEW tries \in Seq(1 .. Len(f.blk)), NEW c \in 1 .. Len(f.gotos),
                      Outside(tries, c, f.msvc, p)
               PROVE  Outside(tries, c, f.msvc, q)
    OBVIOUS
  <2>1. c \in Nat
    OBVIOUS
  <2>2. /\ Outside(tries, c, f.msvc, n)
        /\ s.before + 1 >= c /\ Height(s, f.msvc) > 0 => Ids(s) \cap Range(tries) = {}
    BY PopOutside
  <2>3. Height(s, f.msvc) > 0
    BY <1>h, <1>n DEF Height, StatementOK
  <2>4. e.before + 1 >= c /\ Height(e, f.msvc) > 0 => Ids(e) \cap Range(tries) = {}
    BY <1>7, <2>2, <2>3
  <2> QED
    BY <2>1, <2>2, <2>4, PushOutside
<1>10. f.blk[f.cur].want.kind # "goto"
  BY <1>1 DEF Distinct
<1>11. GotosOK(h, q)
  BY <1>1, <1>8, <1>9, <1>10, GotosMoveOk
<1>12. LabelsOK(h.labels, Len(h.scopes), f.msvc, q)
  <2> SUFFICES ASSUME NEW l \in DOMAIN f.labels PROVE LabelOK(f.labels[l], Len(h.scopes), f.msvc, q)
    BY <1>3 DEF LabelsOK
  <2>1. f.labels[l].scope \in Nat /\ f.labels[l].tries \in Seq(1 .. Len(f.blk))
    BY LabelFacts
  <2>2. LabelOK(f.labels[l], Len(f.scopes), f.msvc, p)
    BY <1>1 DEF LabelsOK
  <2>3. /\ LabelOK(f.labels[l], s.before, f.msvc, n)
        /\ Ids(s) \cap Range(f.labels[l].tries) = {}
    BY <1>1, <1>2, <2>1, <2>2, PopLabel
  <2>4. Ids(e) \cap Range(f.labels[l].tries) = {}
    BY <1>7, <2>1, <2>3
  <2>5. LabelOK(f.labels[l], s.before + Height(e, f.msvc), f.msvc, q)
    BY <1>4, <1>h, <1>n, <2>1, <2>3, <2>4, PushLabel
  <2>6. s.before + Height(e, f.msvc) = Len(h.scopes)
    BY <1>c, <1>h
  <2> QED
    BY <2>5, <2>6
<1>13. LoopsOK(h.loops, q) /\ CatchesOK(h.catches, q)
  <2>1. LoopsOK(f.loops, n) /\ CatchesOK(f.catches, n)
    <3>1. s.kind # "loop" /\ s.kind # "catch"
      OBVIOUS
    <3> QED
      BY <1>1, <3>1, SameLoops, SameCatches
  <2>2. e.kind # "loop" /\ e.kind # "catch"
    OBVIOUS
  <2> QED
    BY <2>1, <2>2, SameLoops, SameCatches
<1> QED
  BY <1>3, <1>4, <1>5, <1>6, <1>11, <1>12, <1>13, <1>d DEF Generated

-----------------------------------------------------------------------------
(* What a call without an unwind edge throws.                              *)

(* When no clause around a point matches, Catching is 0.                   *)
LEMMA CatchingNothing ==
  ASSUME NEW n, NEW thrown, NEW nested,
         \A t \in thrown : \A k \in DOMAIN Handlers(n) : \A i \in DOMAIN Handlers(n)[k].list :
           ~ Matches(t, Handlers(n)[k].list[i])
  PROVE  LET w == Throwing(n, thrown, nested) IN
         w.thrown = thrown /\ w.cleanups = InScope(n) /\ \A t \in thrown : Catching(w, t) = 0
<1> DEFINE w == Throwing(n, thrown, nested)
           H == Handlers(n)
<1>1. w.thrown = thrown /\ w.cleanups = InScope(n)
  BY DEF Throwing
<1>2. DOMAIN w.handlers = DOMAIN H
  BY DEF Throwing
<1>3. \A k \in DOMAIN H : w.handlers[k].list = H[k].list
  BY DEF Throwing
<1>4. \A t \in thrown : \A k \in DOMAIN H : \A i \in DOMAIN H[k].list : ~ Matches(t, H[k].list[i])
  OBVIOUS
<1> HIDE DEF w, H
<1>5. ASSUME NEW t \in thrown PROVE Catching(w, t) = 0
  <2>1. {k \in DOMAIN w.handlers : \E i \in DOMAIN w.handlers[k].list :
                 Matches(t, w.handlers[k].list[i])} = {}
    BY <1>2, <1>3, <1>4
  <2> QED
    BY <2>1 DEF Catching
<1> QED
  BY <1>1, <1>5 DEF w

(* Without a scope no cleanup is open.                                     *)
LEMMA BareScope ==
  ASSUME NEW W, NEW f, WellFormed(f, 1, W), NEW n, Generated(f, n), Len(f.scopes) = 0
  PROVE  InScope(n) = <<>>
<1>1. Len(f.blk) \in Nat /\ Len(f.scopes) \in Nat
  BY Lengths
<1>2. NestOK(Len(f.blk), n) /\ Chain(Len(f.scopes), f.msvc, n)
  BY DEF Generated
<1>3. ASSUME NEW k \in 1 .. Len(n) PROVE n[k].cleanups = <<>>
  <2>1. n[k].before + Height(n[k], f.msvc) <= Len(f.scopes)
    BY <1>1, <1>2, ChainWithin
  <2>2. Height(n[k], f.msvc) \in Nat /\ n[k].before \in Nat
    BY <1>2, HeightsOk
  <2>3. Height(n[k], f.msvc) = 0
    BY <2>1, <2>2
  <2>4. StatementOK(n[k], Len(f.blk))
    BY <1>2 DEF NestOK
  <2>5. CASE n[k].kind = "catch"
    BY <2>4, <2>5 DEF StatementOK
  <2>6. CASE n[k].kind # "catch"
    <3>1. Len(n[k].cleanups) = 0
      BY <2>3, <2>6 DEF Height
    <3>2. n[k].cleanups \in Seq(1 .. Len(f.blk))
      BY <2>4 DEF StatementOK
    <3> QED
      BY <3>1, <3>2
  <2> QED
    BY <2>5, <2>6
<1> QED
  BY <1>1, <1>2, <1>3, InScopeOk

(* Without a scope and a try statement nothing catches a throwing call.    *)
LEMMA BareUncaught ==
  ASSUME NEW W, NEW f, WellFormed(f, 1, W), NEW n, Generated(f, n), Bare(f), NEW thrown, NEW nested
  PROVE  Uncaught(Throwing(n, thrown, nested))
<1>1. Len(Handlers(n)) = 0
  BY DEF Generated, CatchesOK, Bare
<1>2. DOMAIN Handlers(n) = {}
  <2>1. PICK U : n \in Seq(U)
    BY DEF Generated, NestOK
  <2> DEFINE H == Handlers(n)
             V == {s \in Range(n) : s.kind = "catch"}
  <2>2. H \in Seq(V)
    BY <2>1, HandlersOk
  <2> HIDE DEF H, V
  <2>3. DOMAIN H = 1 .. Len(H)
    BY <2>2
  <2> QED
    BY <1>1, <2>3 DEF H
<1>3. InScope(n) = <<>>
  BY BareScope DEF Bare
<1> DEFINE w == Throwing(n, thrown, nested)
<1>4. w.thrown = thrown /\ w.cleanups = InScope(n) /\ \A t \in thrown : Catching(w, t) = 0
  BY <1>2, CatchingNothing
<1> HIDE DEF w
<1> QED
  BY <1>3, <1>4 DEF Uncaught, w

(* callOrInvoke leaves out the unwind edge only of calls nothing catches.  *)
LEMMA CallUncaught ==
  ASSUME NEW W, NEW f, WellFormed(f, 1, W), NEW n, Generated(f, n), NEW x \in BOOLEAN,
         Unhandled(f, x)
  PROVE  Uncaught(Throwing(n, IF x THEN {"Error"} ELSE Thrown, FALSE))
<1>1. CASE ~x
  <2>1. Unhandled(f, FALSE)
    BY <1>1
  <2>2. Bare(f)
    BY <2>1, UnhandledBare
  <2> QED
    BY <2>2, BareUncaught
<1>2. CASE x /\ ~IsCatchingNonExceptions(f)
  <2> DEFINE H == Handlers(n)
             V == {s \in Range(n) : s.kind = "catch"}
             thrown == {"Error"}
             w == Throwing(n, thrown, FALSE)
  <2>1. f.catches \in Seq(CatchSet(Len(f.blk)))
    BY DEF WellFormed, FunctionSet
  <2>2. DOMAIN f.catches = 1 .. Len(f.catches)
    BY <2>1
  <2>3. \A i \in 1 .. Len(f.catches) : ~ f.catches[i].nonExceptions
    BY <1>2, <2>2 DEF IsCatchingNonExceptions
  <2>4. CatchesOK(f.catches, n)
    BY DEF Generated
  <2>5. Len(f.catches) = Len(H) /\ \A i \in 1 .. Len(f.catches) :
           f.catches[i].nonExceptions = NotOnlyExceptions(H[i].list)
    BY <2>4 DEF CatchesOK
  <2>6. PICK U : n \in Seq(U)
    BY DEF Generated, NestOK
  <2>7. H \in Seq(V)
    BY <2>6, HandlersOk
  <2>8. DOMAIN H = 1 .. Len(f.catches)
    <3> HIDE DEF H, V
    <3> QED
      BY <2>5, <2>7
  <2>9. \A k \in DOMAIN H : ~ NotOnlyExceptions(H[k].list)
    BY <2>3, <2>5, <2>8
  <2> HIDE DEF H
  <2>10. \A k \in DOMAIN H : \A i \in DOMAIN H[k].list : H[k].list[i] = "Exception"
    BY <2>9 DEF NotOnlyExceptions
  <2>11. \A k \in DOMAIN H : \A i \in DOMAIN H[k].list : ~ Matches("Error", H[k].list[i])
    BY <2>10 DEF Matches
  <2>12. \A t \in thrown : t = "Error"
    OBVIOUS
  <2>13. \A t \in thrown : \A k \in DOMAIN H : \A i \in DOMAIN H[k].list : ~ Matches(t, H[k].list[i])
    BY <2>11, <2>12
  <2>14. w.thrown = thrown /\ w.cleanups = InScope(n) /\ \A t \in thrown : Catching(w, t) = 0
    BY <2>13, CatchingNothing DEF H
  <2>15. thrown # Thrown
    BY DEF Thrown
  <2> HIDE DEF w, thrown
  <2>16. Uncaught(w)
    BY <2>14, <2>15 DEF Uncaught
  <2> QED
    BY <1>2, <2>16 DEF w, thrown
<1>3. CASE f.scopes = <<>> /\ f.catches = <<>>
  <2>1. Bare(f)
    BY <1>3 DEF Bare
  <2> QED
    BY <2>1, BareUncaught
<1> QED
  BY <1>1, <1>2, <1>3 DEF Unhandled

(* Blocks added, the visitor elsewhere: what calls need stays.             *)
LEMMA BodyReady ==
  ASSUME NEW W, NEW f, WellFormed(f, 1, W), Generated(f, nest)
  PROVE  CatchesWithin(f) /\ (Bare(f) => Uncaught(BodyWant))
<1>1. Len(f.scopes) \in Nat
  BY Lengths
<1>2. CatchesWithin(f)
  BY <1>1, CatchesOKWithin DEF Generated
<1>3. Bare(f) => Uncaught(Throwing(nest, Thrown, FALSE))
  BY BareUncaught
<1> QED
  BY <1>2, <1>3 DEF BodyWant

(* Emitting code keeps a state ready for the code of a body.               *)
LEMMA SameReady ==
  ASSUME NEW f, NEW h, h.msvc = f.msvc, h.catches = f.catches, Len(h.scopes) = Len(f.scopes)
  PROVE  (CatchesWithin(f) => CatchesWithin(h)) /\ (Bare(h) => Bare(f))
BY DEF CatchesWithin, Bare

(* What the invariant says while the body is visited.                      *)
LEMMA Visits ==
  ASSUME IInv, phase = "visit"
  PROVE  /\ \E W : WellFormed(g, 1, W)
         /\ Generated(g, nest) /\ (stmts = 0 => nest = <<>>) /\ stmts \in Nat
BY DEF IInv

(* What a step of the visitor has to establish for the invariant.          *)
LEMMA StepInv ==
  ASSUME IInv, phase = "visit", phase' = phase, msvc' = msvc,
         NEW W, WellFormed(g', 1, W), g'.msvc = g.msvc, NewPlain(g, g'),
         Generated(g', nest'), stmts' = stmts + 1 \/ (stmts' = stmts /\ nest # <<>>)
  PROVE  IInv'
<1>1. stmts' \in Nat /\ stmts' # 0
  BY DEF IInv
<1>2. phase' \in {"visit", "done", "rejected"} /\ phase' = "visit"
  OBVIOUS
<1>3. g'.msvc = msvc'
  BY DEF IInv
<1>4. \A w \in g'.plain : Uncaught(w)
  BY DEF IInv, NewPlain
<1>5. RejectsOnlyIllegal'
  BY <1>2 DEF RejectsOnlyIllegal
<1> QED
  BY <1>1, <1>2, <1>3, <1>4, <1>5 DEF IInv

(* A new block is not the source of a goto.                                *)
LEMMA NoWantKind == NoWant.kind # "goto"
BY DEF NoWant

(* Call, isNothrow or not, keeps the invariant.                            *)
LEMMA CallInv ==
  ASSUME IInv, NEW x \in BOOLEAN, Call(x)
  PROVE  IInv'
<1> DEFINE w == Throwing(nest, IF x THEN {"Error"} ELSE Thrown, FALSE)
           h == CallOrInvoke(g, x, w)
<1>1. /\ phase = "visit" /\ g' = h /\ nest' = nest /\ stmts' = stmts + 1
      /\ phase' = phase /\ msvc' = msvc
  BY DEF Call, Unfinished, Visited
<1>2. /\ \E W : WellFormed(g, 1, W)
      /\ Generated(g, nest)
  BY <1>1, Visits
<1>3. PICK V : WellFormed(g, 1, V)
  BY <1>2
<1> DEFINE W == V \cup {NoWant, w}
<1>4. WellFormed(g, 1, W) /\ NoWant \in W /\ w \in W
  <2>1. V \subseteq W /\ NoWant \in W /\ w \in W /\ 1 \in {0, 1}
    OBVIOUS
  <2> HIDE DEF W, w
  <2> QED
    BY <1>3, <2>1, Accept
<1>5. CatchesWithin(g)
  BY <1>2, <1>3, BodyReady
<1> HIDE DEF W, h, w
<1>6. /\ WellFormed(h, 1, W) /\ Same(g, h) /\ WantsOf(g, h, (1 .. Len(g.blk)) \ {g.cur})
      /\ IF Unhandled(g, x) THEN Calls(g, h, w) ELSE Invoked(g, h, w)
  BY <1>4, <1>5, CallOrInvokeOk DEF h
<1>7. NestOK(Len(g.blk), nest) /\ Distinct(g, nest)
  BY <1>2 DEF Generated
<1>8. h.blk[h.cur].want.kind # "goto" /\ (h.cur = g.cur \/ h.cur \notin 1 .. Len(g.blk))
  <2>1. CASE Unhandled(g, x)
    BY <1>6, <1>7, <2>1 DEF Calls, Distinct
  <2>2. CASE ~Unhandled(g, x)
    BY <1>6, <2>2, NoWantKind DEF Invoked
  <2> QED
    BY <2>1, <2>2
<1>9. NewPlain(g, h)
  <2>1. CASE Unhandled(g, x)
    <3>1. Uncaught(w)
      BY <1>2, <1>3, <2>1, CallUncaught DEF w
    <3> QED
      BY <1>6, <2>1, <3>1 DEF Calls, NewPlain
  <2>2. CASE ~Unhandled(g, x)
    BY <1>6, <2>2 DEF Invoked, NewPlain
  <2> QED
    BY <2>1, <2>2
<1>10. Clear(h, nest)
  BY <1>7, <1>8, ClearOk
<1>11. /\ h.msvc = g.msvc /\ h.catches = g.catches /\ h.gotos = g.gotos /\ h.labels = g.labels
       /\ h.loops = g.loops /\ Len(h.scopes) = Len(g.scopes) /\ Len(h.blk) >= Len(g.blk)
  BY <1>6 DEF Same
<1>12. Changes(g, h)
  BY <1>6, <1>8, <1>11 DEF Changes
<1>13. GotosFrom(g, h, Len(g.scopes))
  BY <1>4, <1>11, SameGotos
<1>14. Generated(h, nest)
  BY <1>2, <1>4, <1>6, <1>10, <1>11, <1>12, <1>13, StayOk
<1> QED
  BY <1>1, <1>6, <1>9, <1>11, <1>14, StepInv

-----------------------------------------------------------------------------
(* The statements, one lemma for each action.                              *)

(* While the body is visited, the ghosts of a step may be any set.         *)
LEMMA Ghosts ==
  ASSUME IInv, phase = "visit", NEW B
  PROVE  \E W : WellFormed(g, 1, W) /\ B \subseteq W
<1>1. PICK V : WellFormed(g, 1, V)
  BY Visits
<1>2. V \subseteq V \cup B /\ B \subseteq V \cup B /\ 1 \in {0, 1}
  OBVIOUS
<1>3. WellFormed(g, 1, V \cup B)
  BY <1>1, <1>2, Accept
<1> QED
  BY <1>2, <1>3

(* A pushed scope has no goto yet.                                         *)
LEMMA PushedAbove ==
  ASSUME NEW W, NEW f, WellFormed(f, 1, W), NEW h,
         h.gotos = Append(f.gotos, <<>>) \/ h.gotos = f.gotos
  PROVE  GotosAbove(f, h)
<1> DEFINE G == f.gotos
<1>1. PICK T : G \in Seq(T)
  BY GotoFacts
<1> HIDE DEF G
<1>2. CASE h.gotos = Append(G, <<>>)
  <2>1. G \in Seq(T \cup {<<>>})
    <3>1. T \subseteq T \cup {<<>>}
      OBVIOUS
    <3> QED
      BY <1>1, <3>1, SeqMono
  <2>2. /\ Len(Append(G, <<>>)) = Len(G) + 1
        /\ \A k \in 1 .. Len(G) : Append(G, <<>>)[k] = G[k]
        /\ Append(G, <<>>)[Len(G) + 1] = <<>>
    BY <2>1, SeqAppend
  <2>3. Len(G) \in Nat
    BY <1>1
  <2> SUFFICES ASSUME NEW c \in 1 .. Len(G) + 1
               PROVE  Append(G, <<>>)[c] = <<>> \/ (c \in 1 .. Len(G) /\ Append(G, <<>>)[c] = G[c])
    BY <1>2, <2>2 DEF GotosAbove, G
  <2>4. c \in 1 .. Len(G) \/ c = Len(G) + 1
    BY <2>3
  <2> QED
    BY <2>2, <2>4
<1>3. CASE h.gotos = G
  BY <1>3 DEF GotosAbove, G
<1> QED
  BY <1>2, <1>3 DEF G

(* Outside a full expression no open statement is one.                     *)
LEMMA OutsideExpression ==
  ASSUME NEW N, NestOK(N, nest), ~InExpression
  PROVE  NoExpression(nest)
<1> SUFFICES ASSUME NEW k \in 1 .. Len(nest), nest[k].kind = "expr" PROVE FALSE
  BY DEF NoExpression
<1>1. k = Len(nest)
  BY DEF NestOK
<1>2. nest # <<>>
  OBVIOUS
<1> QED
  BY <1>1, <1>2 DEF InExpression, Last

OneBlock(s, x) == s.cleanups = <<x>>

(* A statement with one cleanup.                                           *)
LEMMA OneBlockOk ==
  ASSUME NEW s, NEW x, OneBlock(s, x), s.kind # "catch", NEW eh
  PROVE  Ids(s) = {x} /\ Height(s, eh) = 1 /\ Len(s.cleanups) = 1
         /\ \A N \in Nat : x \in 1 .. N => s.cleanups \in Seq(1 .. N)
BY DEF Ids, Height, OneBlock, Range

(* A new block for the visitor.                                            *)
LEMMA NewBlockFacts ==
  ASSUME NEW W, NEW f, WellFormed(f, 1, W), NoWant \in W
  PROVE  LET h == NewBlock(f)
             n == Len(h.blk)
         IN /\ WellFormed(h, 1, W) /\ Kept(f, h) /\ Rest(f, h) /\ n = Len(f.blk) + 1
            /\ \A b \in 1 .. Len(f.blk) : h.blk[b] = f.blk[b]
            /\ h.blk[n].want = NoWant
<1> DEFINE h == NewBlock(f)
<1>1. 1 \in {0, 1}
  OBVIOUS
<1> HIDE DEF h
<1>2. /\ WellFormed(h, 1, W) /\ Kept(f, h) /\ Rest(f, h) /\ Len(h.blk) = Len(f.blk) + 1
      /\ \A b \in 1 .. Len(f.blk) : h.blk[b] = f.blk[b]
      /\ h.blk[Len(f.blk) + 1].want = NoWant
  BY <1>1, NewBlockOk DEF h
<1>3. h.blk[Len(h.blk)].want = NoWant
  BY <1>2
<1> QED
  BY <1>2, <1>3 DEF h

Bodily == {NoWant, BodyWant} \cup {NestedWant(q) : q \in Seq(Nat)}

(* The code of a cleanup pushed as the scope of a new statement.           *)
LEMMA BodilyOk ==
  ASSUME NEW W, Bodily \subseteq W
  PROVE  NoWant \in W /\ BodyWant \in W /\ \A q \in Seq(Nat) : NestedWant(q) \in W
<1> HIDE DEF NoWant, BodyWant, NestedWant
<1>1. NoWant \in Bodily /\ BodyWant \in Bodily
  BY DEF Bodily
<1>2. \A q \in Seq(Nat) : NestedWant(q) \in Bodily
  BY DEF Bodily
<1> QED
  BY <1>1, <1>2

(* A statement that pushes the scope of a cleanup, in a new block x.       *)
LEMMA OpensScope ==
  ASSUME NEW W, NEW f, WellFormed(f, 1, W), Generated(f, nest), NoExpression(nest),
         NEW h, Pushes(Len(f.blk), f, h, W), h.cur = f.cur,
         NEW s, NEW x \in Nat, x > Len(f.blk), x \in 1 .. Len(h.blk), OneBlock(s, x),
         s.kind \in {"finally", "func", "expr"}, s.before = Len(f.scopes),
         Continues(s) => /\ Cont(s) > Len(f.blk) /\ Cont(s) \in 1 .. Len(h.blk)
                         /\ h.blk[Cont(s)].want.kind # "goto"
  PROVE  Generated(h, Append(nest, s))
<1>1. /\ NestOK(Len(f.blk), nest) /\ Distinct(f, nest) /\ LoopsOK(f.loops, nest)
      /\ CatchesOK(f.catches, nest)
  BY DEF Generated
<1>2. /\ Len(f.blk) \in Nat /\ Len(f.scopes) \in Nat /\ f.cur \in 1 .. Len(f.blk)
  BY Lengths
<1>3. /\ WellFormed(h, 1, W) /\ h.msvc = f.msvc /\ h.catches = f.catches /\ h.labels = f.labels
      /\ h.loops = f.loops /\ Len(h.blk) >= Len(f.blk)
      /\ Len(h.scopes) = Len(f.scopes) + 1 /\ h.gotos = Append(f.gotos, <<>>)
      /\ WantsOf(f, h, 1 .. Len(f.blk))
  BY DEF Pushes
<1>l. Len(h.blk) \in Nat
  BY <1>3, Lengths
<1> DEFINE p == Append(nest, s)
<1>4. Pushed(nest, s, p)
  BY <1>1, AppendPushed
<1> HIDE DEF p
<1>5. s.kind # "catch" /\ s.kind # "loop"
  OBVIOUS
<1>6. /\ Ids(s) = {x} /\ Height(s, f.msvc) = 1 /\ Len(s.cleanups) = 1
      /\ s.cleanups \in Seq(1 .. Len(h.blk))
  BY <1>5, <1>l, OneBlockOk
<1>7. StatementOK(s, Len(h.blk))
  <2>1. s.cleanups # <<>>
    BY DEF OneBlock
  <2> QED
    BY <1>2, <1>5, <1>6, <2>1 DEF StatementOK
<1>8. Ids(s) \cap 1 .. Len(f.blk) = {}
  BY <1>2, <1>6
<1>9. Changes(f, h)
  <2>1. h.blk[f.cur].want = f.blk[f.cur].want
    BY <1>2, <1>3 DEF WantsOf
  <2>2. WantsOf(f, h, (1 .. Len(f.blk)) \ {f.cur})
    BY <1>3 DEF WantsOf
  <2> QED
    BY <1>1, <1>3, <2>1, <2>2 DEF Changes, Distinct
<1>10. Clear(h, nest)
  BY <1>1, ClearOk
<1>11. LoopsOK(h.loops, p) /\ CatchesOK(h.catches, p)
  BY <1>1, <1>3, <1>4, <1>5, SameLoops, SameCatches
<1>12. GotosAbove(f, h)
  BY <1>3, PushedAbove
<1>13. Continues(s) => Cont(s) > Len(f.blk) /\ Cont(s) # h.cur /\ h.blk[Cont(s)].want.kind # "goto"
  <2>1. Cont(s) > Len(f.blk) /\ Cont(s) \in 1 .. Len(h.blk) => Cont(s) # f.cur
    BY <1>2, <1>l
  <2> QED
    BY <2>1
<1>14. Len(h.scopes) = Len(f.scopes) + Height(s, f.msvc)
  BY <1>3, <1>6
<1>15. Generated(h, p)
  BY <1>3, <1>4, <1>7, <1>8, <1>9, <1>10, <1>11, <1>12, <1>13, <1>14, PushOk
<1> QED
  BY <1>15 DEF p

Finally(x, b, success) ==
  [kind |-> "finally", cleanups |-> <<x>>, before |-> b, success |-> success]

(* The fields of a finally statement.                                      *)
LEMMA FinallyFacts ==
  ASSUME NEW x, NEW b, NEW success
  PROVE  LET s == Finally(x, b, success) IN
         /\ OneBlock(s, x) /\ s.kind = "finally" /\ s.before = b /\ Continues(s)
         /\ Cont(s) = success
BY DEF Finally, OneBlock, Continues, Cont

(* BeginTryFinally keeps the invariant.                                    *)
LEMMA BeginTryFinallyInv ==
  ASSUME IInv, NEW kind, BeginTryFinally(kind)
  PROVE  IInv'
<1> DEFINE f == NewBlock(g)
           n == Len(f.blk)
           e == EmitCleanup(f, kind)
           h == PushBody(e, n + 1, g.cur)
           s == Finally(n + 1, Len(g.scopes), n)
<1>1. /\ phase = "visit" /\ g' = h /\ nest' = Append(nest, s) /\ stmts' = stmts + 1
      /\ phase' = phase /\ msvc' = msvc /\ ~InExpression /\ (msvc => kind # "catches")
  BY DEF BeginTryFinally, Visiting, Unfinished, Visited, Open, LastBlock, Finally,
         CurrentCleanupScope
<1>2. PICK W : WellFormed(g, 1, W) /\ Bodily \subseteq W
  BY <1>1, Ghosts
<1>w. NoWant \in W /\ BodyWant \in W /\ \A q \in Seq(Nat) : NestedWant(q) \in W
  BY <1>2, BodilyOk
<1>3. Generated(g, nest) /\ g.msvc = msvc
  BY <1>1 DEF IInv
<1>4. /\ WellFormed(f, 1, W) /\ Kept(g, f) /\ Rest(g, f) /\ n = Len(g.blk) + 1
      /\ \A b \in 1 .. Len(g.blk) : f.blk[b] = g.blk[b]
      /\ f.blk[n].want = NoWant
  BY <1>2, <1>w, NewBlockFacts
<1>5. CatchesWithin(g) /\ (Bare(g) => Uncaught(BodyWant))
  BY <1>2, <1>3, BodyReady
<1> HIDE DEF f, e, h, s
<1>6. CatchesWithin(f) /\ (Bare(f) => Uncaught(BodyWant))
  BY <1>4, <1>5, SameReady DEF Kept
<1>7. Len(g.blk) \in Nat /\ g.cur \in 1 .. Len(g.blk) /\ Len(g.scopes) \in Nat
  BY <1>2, Lengths
<1>8. f.msvc = msvc
  BY <1>3, <1>4 DEF Kept
<1>9. Beyond(n, f, e, W) /\ e.cur > n /\ Len(e.blk) > n
  BY <1>1, <1>4, <1>6, <1>8, <1>w, EmitCleanupOk DEF e
<1>10. Len(e.blk) \in Nat
  BY <1>4, <1>9, BeyondFacts
<1>11. n + 1 \in 1 .. Len(e.blk) /\ g.cur \in 1 .. Len(e.blk) /\ n \in 0 .. Len(f.blk)
  BY <1>4, <1>7, <1>9, <1>10
<1>12. Pushes(n, f, h, W) /\ h.cur = g.cur /\ Len(h.blk) = Len(e.blk)
  BY <1>4, <1>9, <1>11, PushBodyOk DEF h
<1>13. Pushes(Len(g.blk), g, h, W)
  <2>1. \A b \in 1 .. Len(g.blk) : b \in 1 .. n
    BY <1>4, <1>7
  <2>2. WantsOf(g, h, 1 .. Len(g.blk))
    BY <1>4, <1>12, <2>1 DEF Pushes, WantsOf
  <2>3. Len(h.blk) >= Len(g.blk)
    BY <1>4, <1>7, <1>9, <1>10, <1>12
  <2> QED
    BY <1>4, <1>12, <2>2, <2>3 DEF Pushes, Kept, NewPlain
<1>14. h.blk[n].want.kind # "goto"
  <2>1. n \in 1 .. n
    BY <1>4, <1>7
  <2>2. h.blk[n].want = NoWant
    BY <1>4, <1>12, <2>1 DEF Pushes, WantsOf
  <2> QED
    BY <2>2, NoWantKind
<1>15. OneBlock(s, n + 1) /\ s.kind = "finally" /\ s.before = Len(g.scopes) /\ Cont(s) = n
  BY FinallyFacts DEF s
<1>16. /\ n + 1 \in Nat /\ n + 1 > Len(g.blk) /\ n + 1 \in 1 .. Len(h.blk) /\ n > Len(g.blk)
       /\ n \in 1 .. Len(h.blk)
  BY <1>4, <1>7, <1>9, <1>10, <1>12
<1>17. NoExpression(nest)
  BY <1>1, <1>3, OutsideExpression DEF Generated
<1>18. Generated(h, Append(nest, s))
  BY <1>2, <1>3, <1>12, <1>13, <1>14, <1>15, <1>16, <1>17, OpensScope
<1>19. WellFormed(h, 1, W) /\ h.msvc = g.msvc /\ NewPlain(g, h)
  BY <1>13 DEF Pushes
<1> QED
  BY <1>1, <1>18, <1>19, StepInv

TheFunction(x) == [kind |-> "func", cleanups |-> <<x>>, before |-> 0]

(* The fields of the statement of a variadic function.                     *)
LEMMA FunctionFacts ==
  ASSUME NEW x
  PROVE  LET s == TheFunction(x) IN
         OneBlock(s, x) /\ s.kind = "func" /\ s.before = 0 /\ ~Continues(s)
BY DEF TheFunction, OneBlock, Continues

(* Variadic keeps the invariant.                                           *)
LEMMA VariadicInv ==
  ASSUME IInv, Variadic
  PROVE  IInv'
<1> DEFINE f == NewBlock(g)
           n == Len(f.blk)
           e == WithRuns(f, n, n)
           h == PushCleanup(e, n, n)
           s == TheFunction(n)
<1>1. /\ phase = "visit" /\ g' = h /\ nest' = Append(nest, s) /\ stmts' = stmts + 1
      /\ phase' = phase /\ msvc' = msvc /\ stmts = 0
  BY DEF Variadic, Visiting, Unfinished, Visited, Open, LastBlock, TheFunction, WithRuns
<1>2. PICK W : WellFormed(g, 1, W) /\ Bodily \subseteq W
  BY <1>1, Ghosts
<1>w. NoWant \in W
  BY <1>2, BodilyOk
<1>3. Generated(g, nest) /\ nest = <<>>
  BY <1>1, Visits
<1>4. /\ WellFormed(f, 1, W) /\ Kept(g, f) /\ Rest(g, f) /\ n = Len(g.blk) + 1
  BY <1>2, <1>w, NewBlockFacts
<1> HIDE DEF f, e, h, s
<1>7. Len(g.blk) \in Nat /\ g.cur \in 1 .. Len(g.blk) /\ Len(f.blk) \in Nat
  BY <1>2, <1>4, Lengths
<1>8. WellFormed(e, 1, W) /\ Kept(f, e) /\ Rest(f, e) /\ Len(e.blk) = n
  <2>1. n \in 1 .. Len(f.blk) /\ n \in Nat /\ 1 \in {0, 1}
    BY <1>4, <1>7
  <2> QED
    BY <1>4, <2>1, RunsOk DEF e
<1>9. Grows(g, e, W)
  BY <1>2, <1>4, <1>8, GrowsTrans DEF Grows
<1>10. Beyond(Len(g.blk), g, e, W)
  <2>1. Len(g.blk) \in 0 .. Len(g.blk)
    BY <1>7
  <2> QED
    BY <1>2, <1>9, <2>1, GrowsBeyond
<1>11. n \in 1 .. Len(e.blk) /\ n \in Nat /\ n > Len(g.blk)
  BY <1>4, <1>7, <1>8
<1>12. Pushes(Len(g.blk), g, h, W) /\ h.blk = e.blk
  <2>1. Len(g.blk) \in 0 .. Len(g.blk)
    BY <1>7
  <2> QED
    BY <1>2, <1>10, <1>11, <2>1, PushBeyond DEF h
<1>13. h.cur = g.cur
  <2>1. 1 \in {0, 1}
    OBVIOUS
  <2>2. Carries(e, h)
    BY <1>8, <1>11, <2>1, PushCleanupOk DEF h
  <2> QED
    BY <1>4, <1>8, <2>2 DEF Carries, Rest
<1>14. Len(g.scopes) = 0
  BY <1>3 DEF Generated, Chain
<1>15. OneBlock(s, n) /\ s.kind = "func" /\ s.before = Len(g.scopes) /\ ~Continues(s)
  BY <1>14, FunctionFacts DEF s
<1>17. NoExpression(nest)
  BY <1>3 DEF NoExpression
<1>18. Generated(h, Append(nest, s))
  BY <1>2, <1>3, <1>11, <1>12, <1>13, <1>15, <1>17, OpensScope
<1>19. WellFormed(h, 1, W) /\ h.msvc = g.msvc /\ NewPlain(g, h)
  BY <1>12 DEF Pushes
<1> QED
  BY <1>1, <1>18, <1>19, StepInv

Temporaries(cleanups, b) == [kind |-> "expr", cleanups |-> cleanups, before |-> b]

(* The fields of a full expression.                                        *)
LEMMA TemporariesFacts ==
  ASSUME NEW cleanups, NEW b
  PROVE  LET s == Temporaries(cleanups, b) IN
         s.cleanups = cleanups /\ s.kind = "expr" /\ s.before = b /\ ~Continues(s)
BY DEF Temporaries, Continues

(* One more temporary of a full expression.                                *)
LEMMA GrowsExpression ==
  ASSUME NEW W, NEW f, WellFormed(f, 1, W), NEW n, NEW s, NEW p, Pushed(n, s, p), Generated(f, p),
         s.kind = "expr", NEW h, Pushes(Len(f.blk), f, h, W), h.cur = f.cur,
         NEW x \in Nat, x > Len(f.blk), x \in 1 .. Len(h.blk)
  PROVE  Generated(h, Append(n, Temporaries(Append(s.cleanups, x), s.before)))
<1> DEFINE e == Temporaries(Append(s.cleanups, x), s.before)
           q == Append(n, e)
           eh == f.msvc
<1>1. NestOK(Len(f.blk), p) /\ Distinct(f, p)
  BY DEF Generated
<1>2. /\ Len(f.blk) \in Nat /\ Len(f.scopes) \in Nat /\ f.cur \in 1 .. Len(f.blk)
  BY Lengths
<1>3. /\ WellFormed(h, 1, W) /\ h.msvc = f.msvc /\ h.catches = f.catches /\ h.labels = f.labels
      /\ h.loops = f.loops /\ Len(h.blk) >= Len(f.blk)
      /\ Len(h.scopes) = Len(f.scopes) + 1 /\ h.gotos = Append(f.gotos, <<>>)
      /\ WantsOf(f, h, 1 .. Len(f.blk))
  BY DEF Pushes
<1>l. Len(h.blk) \in Nat
  BY <1>3, Lengths
<1>4. NestOK(Len(f.blk), n) /\ StatementOK(s, Len(f.blk))
  BY <1>1, PopNest
<1>5. e.cleanups = Append(s.cleanups, x) /\ e.kind = "expr" /\ e.before = s.before /\ ~Continues(e)
  BY TemporariesFacts
<1>6. Pushed(n, e, q)
  BY <1>4, AppendPushed
<1> HIDE DEF e, q, eh
<1>7. s.cleanups \in Seq(1 .. Len(f.blk)) /\ s.before \in Nat
  BY <1>4 DEF StatementOK
<1>8. s.cleanups \in Seq(1 .. Len(h.blk))
  <2>1. 1 .. Len(f.blk) \subseteq 1 .. Len(h.blk)
    BY <1>2, <1>3, <1>l
  <2> QED
    BY <1>7, <2>1, SeqMono
<1>9. /\ e.cleanups \in Seq(1 .. Len(h.blk)) /\ Len(e.cleanups) = Len(s.cleanups) + 1
      /\ Range(e.cleanups) = Range(s.cleanups) \cup {x} /\ Len(s.cleanups) \in Nat
  BY <1>5, <1>8, SeqAppend, RangeAppend
<1>10. StatementOK(e, Len(h.blk))
  <2>1. e.cleanups # <<>>
    BY <1>9
  <2> QED
    BY <1>5, <1>7, <1>9, <2>1 DEF StatementOK
<1>11. Height(e, eh) = Height(s, eh) + 1 /\ Ids(e) = Ids(s) \cup {x}
  BY <1>5, <1>9 DEF Height, Ids
<1>12. \A y \in Ids(e) : y \in Ids(s) \/ y \notin 1 .. Len(f.blk)
  BY <1>2, <1>11
<1>13. Changes(f, h)
  <2>1. h.blk[f.cur].want = f.blk[f.cur].want
    BY <1>2, <1>3 DEF WantsOf
  <2>2. WantsOf(f, h, (1 .. Len(f.blk)) \ {f.cur})
    BY <1>3 DEF WantsOf
  <2> QED
    BY <1>1, <1>3, <2>1, <2>2 DEF Changes, Distinct
<1>14. Clear(h, n)
  <2>1. Distinct(f, n)
    BY <1>1, PopDistinct
  <2> QED
    BY <1>4, <2>1, ClearOk
<1>15. GotosAbove(f, h)
  BY <1>3, PushedAbove
<1>16. Generated(h, q)
  BY <1>3, <1>5, <1>6, <1>10, <1>11, <1>12, <1>13, <1>14, <1>15, GrowOk DEF eh
<1> QED
  BY <1>16 DEF q, e

(* PushTemporary, the first of an expression or a further one, keeps the   *)
(* invariant.                                                              *)
LEMMA PushTemporaryInv ==
  ASSUME IInv, NEW kind, PushTemporary(kind)
  PROVE  IInv'
<1> DEFINE n == Len(g.blk)
           e == EmitBody(g, kind = "throws")
           h == PushBody(e, n + 1, g.cur)
           earlier == IF InExpression THEN Last(nest).cleanups ELSE <<>>
           before == IF InExpression THEN Last(nest).before ELSE Len(g.scopes)
           outer == IF InExpression THEN Front(nest) ELSE nest
           s == Temporaries(Append(earlier, n + 1), before)
<1>1. /\ phase = "visit" /\ g' = h /\ nest' = Append(outer, s) /\ stmts' = stmts + 1
      /\ phase' = phase /\ msvc' = msvc
  BY DEF PushTemporary, Visiting, Unfinished, Visited, LastBlock, Temporaries, CurrentCleanupScope
<1>2. PICK W : WellFormed(g, 1, W) /\ Bodily \subseteq W
  BY <1>1, Ghosts
<1>w. NoWant \in W /\ BodyWant \in W
  BY <1>2, BodilyOk
<1>3. Generated(g, nest)
  BY <1>1, Visits
<1>5. CatchesWithin(g) /\ (Bare(g) => Uncaught(BodyWant))
  BY <1>2, <1>3, BodyReady
<1>7. Len(g.blk) \in Nat /\ g.cur \in 1 .. Len(g.blk) /\ Len(g.scopes) \in Nat
  BY <1>2, Lengths
<1> HIDE DEF e, h, s
<1>9. Beyond(n, g, e, W) /\ Len(e.blk) > n
  <2>1. n \in 0 .. Len(g.blk)
    BY <1>7
  <2> HIDE DEF n
  <2> QED
    BY <1>2, <1>w, <1>5, <2>1, EmitBodyOk DEF e
<1>10. Len(e.blk) \in Nat
  BY <1>2, <1>9, BeyondFacts
<1>11. n + 1 \in 1 .. Len(e.blk) /\ g.cur \in 1 .. Len(e.blk) /\ n \in 0 .. Len(g.blk)
  BY <1>7, <1>9, <1>10
<1>12. Pushes(n, g, h, W) /\ h.cur = g.cur /\ Len(h.blk) = Len(e.blk)
  BY <1>2, <1>9, <1>11, PushBodyOk DEF h
<1>13. n + 1 \in Nat /\ n + 1 > n /\ n + 1 \in 1 .. Len(h.blk)
  BY <1>7, <1>11, <1>12
<1>14. s.cleanups = Append(earlier, n + 1) /\ s.kind = "expr" /\ s.before = before /\ ~Continues(s)
  <2> DEFINE cleanups == Append(earlier, n + 1)
  <2> HIDE DEF earlier, before, n, cleanups
  <2>1. /\ Temporaries(cleanups, before).cleanups = cleanups
        /\ Temporaries(cleanups, before).kind = "expr"
        /\ Temporaries(cleanups, before).before = before /\ ~Continues(Temporaries(cleanups, before))
    BY TemporariesFacts
  <2> QED
    BY <2>1 DEF s, cleanups
<1>18. Generated(h, Append(outer, s))
  <2>1. CASE InExpression
    <3>1. Pushed(Front(nest), Last(nest), nest) /\ Last(nest).kind = "expr"
      <4>1. NestOK(Len(g.blk), nest)
        BY <1>3 DEF Generated
      <4> QED
        BY <2>1, <4>1, FrontPushed DEF InExpression
    <3>2. Generated(h, Append(Front(nest), Temporaries(Append(Last(nest).cleanups, n + 1), Last(nest).before)))
      BY <1>2, <1>3, <1>12, <1>13, <3>1, GrowsExpression
    <3> QED
      BY <2>1, <3>2 DEF s
  <2>2. CASE ~InExpression
    <3>1. OneBlock(s, n + 1)
      <4>1. earlier = <<>> /\ Append(<<>>, n + 1) = <<n + 1>>
        BY <2>2
      <4> HIDE DEF earlier
      <4> QED
        BY <1>14, <4>1 DEF OneBlock
    <3>2. NoExpression(nest)
      BY <1>3, <2>2, OutsideExpression DEF Generated
    <3>3. s.before = Len(g.scopes)
      BY <1>14, <2>2
    <3>4. Generated(h, Append(nest, s))
      BY <1>2, <1>3, <1>12, <1>13, <1>14, <3>1, <3>2, <3>3, OpensScope
    <3> QED
      BY <2>2, <3>4
  <2> QED
    BY <2>1, <2>2
<1>19. WellFormed(h, 1, W) /\ h.msvc = g.msvc /\ NewPlain(g, h)
  BY <1>12 DEF Pushes
<1> QED
  BY <1>1, <1>18, <1>19, StepInv

TryCatch(list, bodies, keep, b, endbb) ==
  [kind |-> "catch", cleanups |-> <<>>, list |-> list, bodies |-> bodies,
   keep |-> keep, before |-> b, endbb |-> endbb]

(* The fields of a try-catch statement.                                    *)
LEMMA TryCatchFacts ==
  ASSUME NEW list, NEW bodies, NEW keep, NEW b, NEW endbb, NEW eh
  PROVE  LET s == TryCatch(list, bodies, keep, b, endbb) IN
         /\ s.kind = "catch" /\ s.cleanups = <<>> /\ s.list = list /\ s.bodies = bodies
         /\ s.before = b /\ s.endbb = endbb
         /\ Continues(s) /\ Cont(s) = endbb /\ Ids(s) = Range(bodies) /\ Height(s, eh) = Up(eh)
BY DEF TryCatch, Continues, Cont, Ids, Height

(* A try statement, with the bodies of its catches in new blocks.          *)
LEMMA OpensTry ==
  ASSUME NEW W, NEW f, WellFormed(f, 1, W), Generated(f, nest), NoExpression(nest),
         NEW list \in Seq(Classes), list # <<>>, NEW endbb, endbb = Len(f.blk) + 1,
         NEW h, NEW bodies, bodies \in Seq(endbb + 1 .. Len(h.blk)), Len(bodies) = Len(list),
         NEW b, b = Len(f.scopes), Tries(Len(f.blk), f, h, TryCatchScope(b, list, bodies), W),
         h.cur = f.cur, Len(h.blk) >= endbb, h.blk[endbb].want.kind # "goto", NEW keep
  PROVE  Generated(h, Append(nest, TryCatch(list, bodies, keep, b, endbb)))
<1> DEFINE n == nest
           s == TryCatch(list, bodies, keep, b, endbb)
           p == Append(n, s)
           eh == f.msvc
           tc == TryCatchScope(b, list, bodies)
           N == Len(f.blk)
           M == Len(h.blk)
<1>1. NestOK(N, n) /\ Distinct(f, n) /\ LoopsOK(f.loops, n) /\ CatchesOK(f.catches, n)
  BY DEF Generated
<1>2. /\ N \in Nat /\ Len(f.scopes) \in Nat /\ f.cur \in 1 .. N
  BY Lengths
<1>3. /\ WellFormed(h, 1, W) /\ h.msvc = eh /\ h.labels = f.labels /\ h.loops = f.loops
      /\ M >= N /\ WantsOf(f, h, 1 .. N)
      /\ Len(h.scopes) = Len(f.scopes) + Up(eh)
      /\ h.gotos = IF eh THEN Append(f.gotos, <<>>) ELSE f.gotos
      /\ h.catches = Append(f.catches, tc)
  BY DEF Tries
<1>l. M \in Nat
  BY <1>3, Lengths
<1>4. /\ s.kind = "catch" /\ s.cleanups = <<>> /\ s.list = list /\ s.bodies = bodies
      /\ s.before = b /\ s.endbb = endbb
      /\ Continues(s) /\ Cont(s) = endbb /\ Ids(s) = Range(bodies) /\ Height(s, eh) = Up(eh)
  <2> HIDE DEF n, s, p, eh, tc, N, M
  <2> QED
    BY TryCatchFacts, SMTT(30) DEF s
<1>5. Pushed(n, s, p)
  BY <1>1, AppendPushed
<1>6. tc.scope = b /\ tc.nonExceptions = NotOnlyExceptions(list)
  BY DEF TryCatchScope, NotOnlyExceptions
<1> HIDE DEF n, s, p, eh, tc, N, M
<1>7. bodies \in Seq(1 .. M) /\ Range(bodies) \subseteq endbb + 1 .. M
  <2>1. endbb + 1 .. M \subseteq 1 .. M
    BY <1>2, <1>l DEF N
  <2>2. bodies \in Seq(endbb + 1 .. M)
    BY DEF M
  <2> QED
    BY <2>1, <2>2, SeqMono, RangeWithin, ZenonT(60)
<1>8. bodies # <<>>
  <2>1. Len(list) # 0
    BY EmptySeq
  <2> QED
    BY <2>1
<1>9. endbb \in 1 .. M /\ endbb > N /\ endbb # f.cur
  BY <1>2, <1>l DEF M, N
<1>10. StatementOK(s, M)
  <2>1. s.cleanups \in Seq(1 .. M)
    <3>1. <<>> \in Seq(1 .. M)
      OBVIOUS
    <3> QED
      BY <1>4, <3>1
  <2> QED
    BY <1>2, <1>4, <1>7, <1>8, <1>9, <2>1 DEF StatementOK
<1>11. Ids(s) \cap 1 .. N = {}
  <2>1. \A x \in endbb + 1 .. M : x \notin 1 .. N
    BY <1>2, <1>l DEF N
  <2> QED
    BY <1>4, <1>7, <2>1
<1>12. Changes(f, h)
  <2>1. h.blk[f.cur].want = f.blk[f.cur].want
    BY <1>2, <1>3 DEF WantsOf
  <2>2. WantsOf(f, h, (1 .. N) \ {f.cur})
    BY <1>3 DEF WantsOf
  <2> QED
    BY <1>1, <1>3, <2>1, <2>2 DEF Changes, Distinct, eh, N, M
<1>13. Clear(h, n)
  BY <1>1, ClearOk DEF N
<1>14. LoopsOK(h.loops, p)
  <2>1. s.kind # "loop"
    BY <1>4
  <2> QED
    BY <1>1, <1>3, <1>5, <2>1, SameLoops
<1>15. CatchesOK(h.catches, p)
  <2>1. b \in Nat /\ N \in Nat
    BY <1>2
  <2>2. tc \in CatchSet(M)
    BY <1>l, <1>7, <2>1, TryCatchScopeOk DEF tc
  <2>3. f.catches \in Seq(CatchSet(M))
    <3>1. f.catches \in Seq(CatchSet(N))
      BY DEF WellFormed, FunctionSet, N
    <3>2. N <= M /\ 1 \in {0, 1} /\ W \subseteq W
      BY <1>2, <1>3, <1>l
    <3>3. Seq(CatchSet(N)) \subseteq Seq(CatchSet(M))
      BY <1>l, <2>1, <3>2, Widen
    <3> QED
      BY <3>1, <3>3
  <2>4. tc.scope = s.before /\ tc.nonExceptions = NotOnlyExceptions(s.list)
    BY <1>4, <1>6
  <2> QED
    BY <1>1, <1>3, <1>4, <1>5, <2>2, <2>3, <2>4, PushCatch
<1>16. GotosAbove(f, h)
  BY <1>3, PushedAbove
<1>17. Generated(h, p)
  <2>1. Len(h.scopes) = Len(f.scopes) + Height(s, f.msvc)
    BY <1>3, <1>4 DEF eh
  <2>2. Cont(s) > Len(f.blk) /\ Cont(s) # h.cur /\ h.blk[Cont(s)].want.kind # "goto"
    BY <1>4, <1>9 DEF N
  <2>3. s.before = Len(f.scopes)
    BY <1>4
  <2> QED
    BY <1>3, <1>5, <1>10, <1>11, <1>12, <1>13, <1>14, <1>15, <1>16, <2>1, <2>2, <2>3, PushOk
       DEF n, N, M
<1> QED
  BY <1>17 DEF p, s, n

(* pushTryCatch with the visitor moved into the body.                      *)
LEMMA PushTryCatchAt ==
  ASSUME NEW W, NEW f, WellFormed(f, 1, W), NoWant \in W, BodyWant \in W, CatchesWithin(f),
         Bare(f) => Uncaught(BodyWant), NEW throws, NEW n \in 1 .. Len(f.blk),
         NEW list \in Seq(Classes)
  PROVE  LET r == PushTryCatch(f, list, n, throws) IN
         /\ Tries(n, f, r.f, TryCatchScope(Len(f.scopes), list, r.bodies), W)
         /\ r.bodies \in Seq(n + 1 .. Len(r.f.blk)) /\ Len(r.bodies) = Len(list)
<1>1. n \in 0 .. Len(f.blk)
  OBVIOUS
<1> QED
  BY <1>1, PushTryCatchOk

(* BeginTryCatch keeps the invariant.                                      *)
LEMMA BeginTryCatchInv ==
  ASSUME IInv, NEW list \in CatchLists, NEW throws, BeginTryCatch(list, throws)
  PROVE  IInv'
<1> DEFINE f == NewBlock(g)
           n == Len(f.blk)
           r == PushTryCatch(f, list, n, throws)
           h == WithCur(r.f, g.cur)
           s == TryCatch(list, r.bodies, InScope(nest), Len(g.scopes), n)
<1>1. /\ phase = "visit" /\ g' = h /\ nest' = Append(nest, s) /\ stmts' = stmts + 1
      /\ phase' = phase /\ msvc' = msvc /\ ~InExpression
  BY DEF BeginTryCatch, Visiting, Unfinished, Visited, Open, LastBlock, TryCatch,
         CurrentCleanupScope, WithCur
<1>2. PICK W : WellFormed(g, 1, W) /\ Bodily \subseteq W
  BY <1>1, Ghosts
<1>w. NoWant \in W /\ BodyWant \in W
  BY <1>2, BodilyOk
<1>3. Generated(g, nest)
  BY <1>1, Visits
<1>4. /\ WellFormed(f, 1, W) /\ Kept(g, f) /\ Rest(g, f) /\ n = Len(g.blk) + 1
      /\ \A b \in 1 .. Len(g.blk) : f.blk[b] = g.blk[b]
      /\ f.blk[n].want = NoWant
  BY <1>2, <1>w, NewBlockFacts
<1>5. CatchesWithin(g) /\ (Bare(g) => Uncaught(BodyWant))
  BY <1>2, <1>3, BodyReady
<1> HIDE DEF f, r, h, s
<1>6. CatchesWithin(f) /\ (Bare(f) => Uncaught(BodyWant)) /\ Len(f.scopes) = Len(g.scopes)
  BY <1>4, <1>5, SameReady DEF Kept
<1>7. Len(g.blk) \in Nat /\ g.cur \in 1 .. Len(g.blk) /\ Len(g.scopes) \in Nat
  BY <1>2, Lengths
<1>8. list \in Seq(Classes) /\ list # <<>>
  BY CleanupAssumption DEF Classes
<1> DEFINE tc == TryCatchScope(Len(f.scopes), list, r.bodies)
<1> HIDE DEF tc
<1>9. /\ Tries(n, f, r.f, tc, W)
      /\ r.bodies \in Seq(n + 1 .. Len(r.f.blk)) /\ Len(r.bodies) = Len(list)
  <2>1. n \in 0 .. Len(f.blk) /\ n \in 1 .. Len(f.blk)
    BY <1>4, <1>7
  <2> HIDE DEF n
  <2> QED
    BY <1>4, <1>6, <1>8, <1>w, <2>1, PushTryCatchAt, SMTT(30) DEF r, tc
<1>10. WellFormed(r.f, 1, W) /\ Len(r.f.blk) >= n
  BY <1>9 DEF Tries
<1>11. Len(r.f.blk) \in Nat
  BY <1>10, Lengths
<1>12. g.cur \in 1 .. Len(r.f.blk)
  BY <1>4, <1>7, <1>10, <1>11
<1>13. WellFormed(h, 1, W) /\ Kept(r.f, h) /\ h.cur = g.cur /\ h.blk = r.f.blk /\ h.scopes = r.f.scopes
  <2>1. 1 \in {0, 1}
    OBVIOUS
  <2> QED
    BY <1>10, <1>12, <2>1, SetCurOk DEF h
<1>14. Tries(n, f, h, tc, W)
  BY <1>9, <1>13 DEF Tries, Kept, WantsOf, NewPlain
<1>15. Tries(Len(g.blk), g, h, tc, W)
  <2>1. \A b \in 1 .. Len(g.blk) : b \in 1 .. n
    BY <1>4, <1>7
  <2>2. WantsOf(g, h, 1 .. Len(g.blk))
    BY <1>4, <1>14, <2>1 DEF Tries, WantsOf
  <2>3. Len(h.blk) >= Len(g.blk)
    BY <1>4, <1>7, <1>10, <1>11, <1>13
  <2> QED
    BY <1>4, <1>14, <2>2, <2>3 DEF Tries, Kept, NewPlain
<1>16. h.blk[n].want.kind # "goto"
  <2>1. n \in 1 .. n
    BY <1>4, <1>7
  <2>2. h.blk[n].want = NoWant
    BY <1>4, <1>14, <2>1 DEF Tries, WantsOf
  <2> QED
    BY <2>2, NoWantKind
<1>17. NoExpression(nest)
  BY <1>1, <1>3, OutsideExpression DEF Generated
<1>18. Generated(h, Append(nest, s))
  <2>1. r.bodies \in Seq(n + 1 .. Len(h.blk))
    BY <1>9, <1>13
  <2>2. tc = TryCatchScope(Len(g.scopes), list, r.bodies)
    BY <1>6 DEF tc
  <2>3. Len(h.blk) >= n
    BY <1>10, <1>13
  <2> HIDE DEF n
  <2> QED
    BY <1>2, <1>3, <1>4, <1>8, <1>9, <1>13, <1>15, <1>16, <1>17, <2>1, <2>2, <2>3, OpensTry DEF s
<1>19. WellFormed(h, 1, W) /\ h.msvc = g.msvc /\ NewPlain(g, h)
  BY <1>15 DEF Tries
<1> QED
  BY <1>1, <1>18, <1>19, StepInv

Loop(keep, b, endbb) ==
  [kind |-> "loop", cleanups |-> <<>>, keep |-> keep, before |-> b, endbb |-> endbb]

IsLoop(s, b, endbb, eh, N) ==
  /\ s.kind = "loop" /\ s.before = b /\ s.endbb = endbb /\ Continues(s) /\ Cont(s) = endbb
  /\ Ids(s) = {} /\ Height(s, eh) = 0 /\ StatementOK(s, N)

(* The fields of a loop statement.                                         *)
LEMMA LoopStatement ==
  ASSUME NEW keep, NEW b \in Nat, NEW N, NEW endbb \in 1 .. N, NEW eh
  PROVE  IsLoop(Loop(keep, b, endbb), b, endbb, eh, N)
BY DEF Loop, Continues, Cont, Ids, Height, Range, StatementOK, IsLoop

Target(continue, break, scope) == [continue |-> continue, break |-> break, scope |-> scope]

(* The targets of a loop have their type.                                  *)
LEMMA TargetOk ==
  ASSUME NEW n \in Nat, NEW c \in 1 .. n, NEW b \in 1 .. n, NEW s \in Nat
  PROVE  LET t == Target(c, b, s) IN
         t \in LoopSet(n) /\ t.break = b /\ t.scope = s /\ t.continue = c
BY DEF Target, LoopSet

(* Two new blocks for each of the parts of a loop, and one behind it.      *)
LEMMA ThreeBlocks ==
  ASSUME NEW W, NEW f, WellFormed(f, 1, W), NoWant \in W
  PROVE  LET h == NewBlock(NewBlock(NewBlock(f)))
             n == Len(f.blk)
         IN /\ WellFormed(h, 1, W) /\ Kept(f, h) /\ h.cur = f.cur /\ Len(h.blk) = n + 3
            /\ \A b \in n + 1 .. n + 3 : h.blk[b].want = NoWant
<1> DEFINE f1 == NewBlock(f)
           f2 == NewBlock(f1)
           h == NewBlock(f2)
           n == Len(f.blk)
<1>1. /\ WellFormed(f1, 1, W) /\ Kept(f, f1) /\ Rest(f, f1) /\ Len(f1.blk) = n + 1
      /\ f1.blk[Len(f1.blk)].want = NoWant
  BY NewBlockFacts
<1> HIDE DEF f1
<1>2. /\ WellFormed(f2, 1, W) /\ Kept(f1, f2) /\ Rest(f1, f2) /\ Len(f2.blk) = Len(f1.blk) + 1
      /\ \A b \in 1 .. Len(f1.blk) : f2.blk[b] = f1.blk[b]
      /\ f2.blk[Len(f2.blk)].want = NoWant
  BY <1>1, NewBlockFacts
<1> HIDE DEF f2
<1>3. /\ WellFormed(h, 1, W) /\ Kept(f2, h) /\ Rest(f2, h) /\ Len(h.blk) = Len(f2.blk) + 1
      /\ \A b \in 1 .. Len(f2.blk) : h.blk[b] = f2.blk[b]
      /\ h.blk[Len(h.blk)].want = NoWant
  BY <1>2, NewBlockFacts
<1> HIDE DEF h
<1>n. n \in Nat
  BY Lengths
<1> HIDE DEF n
<1>4. Len(f1.blk) = n + 1 /\ Len(f2.blk) = n + 2 /\ Len(h.blk) = n + 3
  BY <1>1, <1>2, <1>3, <1>n
<1>5. Kept(f, h)
  <2>1. Len(f.blk) \in Nat /\ Len(f1.blk) \in Nat /\ Len(f2.blk) \in Nat /\ Len(h.blk) \in Nat
    BY <1>4, <1>n DEF n
  <2>2. Kept(f, f2)
    BY <1>1, <1>2, <2>1, KeptTrans
  <2> QED
    BY <1>3, <2>1, <2>2, KeptTrans
<1>6. h.cur = f.cur
  BY <1>1, <1>2, <1>3 DEF Rest
<1>7. h.blk[n + 3].want = NoWant /\ f2.blk[n + 2].want = NoWant /\ f1.blk[n + 1].want = NoWant
  BY <1>1, <1>2, <1>3, <1>4
<1>8. h.blk[n + 2] = f2.blk[n + 2] /\ h.blk[n + 1] = f2.blk[n + 1] /\ f2.blk[n + 1] = f1.blk[n + 1]
  <2>1. n + 1 \in 1 .. n + 1 /\ n + 1 \in 1 .. n + 2 /\ n + 2 \in 1 .. n + 2
    BY <1>n
  <2> QED
    BY <1>2, <1>3, <1>4, <2>1
<1>9. \A b \in n + 1 .. n + 3 : h.blk[b].want = NoWant
  <2>1. \A b \in n + 1 .. n + 3 : b = n + 1 \/ b = n + 2 \/ b = n + 3
    BY <1>n
  <2> QED
    BY <1>7, <1>8, <2>1
<1> QED
  BY <1>3, <1>4, <1>5, <1>6, <1>9 DEF h, n, f1, f2

(* A loop: its statement and its targets.                                  *)
LEMMA OpensLoop ==
  ASSUME NEW W, NEW f, WellFormed(f, 1, W), Generated(f, nest), NoExpression(nest),
         ~ \E k \in 1 .. Len(nest) : nest[k].kind = "loop",
         NEW h, WellFormed(h, 1, W), NEW e, WellFormed(e, 1, W), Kept(f, e),
         h.msvc = e.msvc, h.blk = e.blk, h.scopes = e.scopes, h.labels = e.labels,
         h.gotos = e.gotos, h.catches = e.catches,
         Len(e.blk) = Len(f.blk) + 3,
         \A b \in Len(f.blk) + 1 .. Len(f.blk) + 3 : e.blk[b].want = NoWant,
         h.cur = Len(f.blk) + 2, NEW keep,
         h.loops = Append(e.loops, Target(Len(f.blk) + 1, Len(f.blk) + 3, Len(f.scopes)))
  PROVE  Generated(h, Append(nest, Loop(keep, Len(f.scopes), Len(f.blk) + 3)))
<1> DEFINE b == Len(f.scopes)
           n == Len(f.blk)
           t == Target(n + 1, n + 3, b)
           s == Loop(keep, b, n + 3)
           p == Append(nest, s)
<1>1. NestOK(n, nest) /\ Distinct(f, nest) /\ LoopsOK(f.loops, nest) /\ CatchesOK(f.catches, nest)
  BY DEF Generated
<1>2. n \in Nat /\ b \in Nat /\ f.cur \in 1 .. n
  BY Lengths
<1>e. /\ Len(e.blk) = n + 3 /\ \A i \in n + 1 .. n + 3 : e.blk[i].want = NoWant
      /\ h.cur = n + 2 /\ h.loops = Append(e.loops, t) /\ b = Len(f.scopes) /\ n = Len(f.blk)
  OBVIOUS
<1> HIDE DEF t, b, n
<1>3. Len(h.blk) = n + 3 /\ n + 3 \in 1 .. Len(h.blk) /\ n + 1 \in 1 .. Len(h.blk)
  BY <1>2, <1>e
<1>4. /\ s.kind = "loop" /\ s.before = b /\ s.endbb = n + 3 /\ Continues(s) /\ Cont(s) = n + 3
      /\ Ids(s) = {} /\ Height(s, f.msvc) = 0 /\ StatementOK(s, Len(h.blk))
  <2> DEFINE x == n + 3
             N == Len(h.blk)
             eh == f.msvc
  <2> HIDE DEF x, N, eh
  <2>1. x \in 1 .. N /\ b \in Nat
    BY <1>2, <1>3 DEF x, N
  <2>2. IsLoop(Loop(keep, b, x), b, x, eh, N)
    BY <2>1, LoopStatement
  <2> QED
    BY <2>2 DEF x, N, eh, IsLoop
<1>5. Pushed(nest, s, p)
  BY <1>1, AppendPushed
<1> HIDE DEF s, p
<1>6. h.blk[n + 2].want.kind # "goto" /\ h.blk[n + 3].want.kind # "goto"
  <2>1. n + 2 \in n + 1 .. n + 3 /\ n + 3 \in n + 1 .. n + 3
    BY <1>e, <1>2
  <2> QED
    BY <1>e, <2>1, NoWantKind
<1>7. Changes(f, h)
  <2>1. Len(h.blk) >= Len(f.blk)
    BY <1>e, <1>2, <1>3
  <2> QED
    BY <1>e, <1>6, <2>1 DEF Changes, Kept, WantsOf
<1>8. Clear(h, nest)
  <2>1. h.cur \notin 1 .. Len(f.blk)
    BY <1>e, <1>2
  <2> QED
    BY <1>e, <1>1, <2>1, ClearOk
<1>9. LoopsOK(h.loops, p)
  <2>1. t \in LoopSet(n + 3) /\ t.break = n + 3 /\ t.scope = b
    <3>1. n + 3 \in Nat /\ n + 1 \in 1 .. n + 3 /\ n + 3 \in 1 .. n + 3
      BY <1>e, <1>2
    <3> DEFINE x == n + 1
               y == n + 3
    <3> HIDE DEF x, y
    <3>2. y \in Nat /\ x \in 1 .. y /\ y \in 1 .. y
      BY <3>1 DEF x, y
    <3>3. Target(x, y, b) \in LoopSet(y) /\ Target(x, y, b).break = y /\ Target(x, y, b).scope = b
      BY <1>2, <3>2, TargetOk, SMTT(30)
    <3> QED
      BY <3>3 DEF x, y, t
  <2>2. e.loops \in Seq(LoopSet(n + 3)) /\ e.loops = f.loops
    BY <1>e DEF WellFormed, FunctionSet, Kept
  <2> QED
    BY <1>e, <1>1, <1>4, <1>5, <2>1, <2>2, PushLoop
<1>10. CatchesOK(h.catches, p)
  <2>1. s.kind # "catch"
    BY <1>e, <1>4
  <2>2. h.catches = f.catches
    BY DEF Kept
  <2> QED
    BY <1>e, <1>1, <1>5, <2>1, <2>2, SameCatches
<1>11. GotosAbove(f, h)
  BY <1>e, PushedAbove DEF Kept
<1>12. Len(h.scopes) = Len(f.scopes) + Height(s, f.msvc)
  BY <1>e, <1>2, <1>4 DEF Kept
<1>13. Cont(s) > Len(f.blk) /\ Cont(s) # h.cur /\ h.blk[Cont(s)].want.kind # "goto"
  BY <1>e, <1>2, <1>4, <1>6
<1>14. Ids(s) \cap 1 .. Len(f.blk) = {} /\ s.before = Len(f.scopes)
  BY <1>e, <1>4
<1>15. Generated(h, p)
  BY <1>e, <1>4, <1>5, <1>7, <1>8, <1>9, <1>10, <1>11, <1>12, <1>13, <1>14, PushOk
<1> QED
  BY <1>15 DEF p, s, b, n

(* A block terminated with a conditional branch.                           *)
LEMMA CondOk ==
  ASSUME NEW W, NEW f, WellFormed(f, 1, W), NEW a \in 1 .. Len(f.blk), NEW b \in 1 .. Len(f.blk),
         NEW c \in 1 .. Len(f.blk)
  PROVE  LET h == SetTerm(f, a, Term("cond", <<>>, <<b, c>>)) IN
         /\ WellFormed(h, 1, W) /\ Kept(f, h) /\ Len(h.blk) = Len(f.blk)
         /\ \A d \in 1 .. Len(f.blk) : h.blk[d].want = f.blk[d].want
<1> DEFINE m == Len(f.blk)
           u == Term("cond", <<>>, <<b, c>>)
<1>1. <<b, c>> \in Seq(1 .. m) /\ <<>> \in Seq(Nat \cup Classes)
  OBVIOUS
<1>2. "cond" \in Ops /\ m \in Nat /\ "cond" # "switch" /\ 1 \in {0, 1}
  BY Lengths DEF Ops
<1> HIDE DEF m
<1>3. u \in TermSet(1, m) /\ u.op = "cond"
  BY <1>1, <1>2, Terms
<1> HIDE DEF u
<1>4. u \in TermSet(1, Len(f.blk)) /\ u.op # "switch"
  BY <1>2, <1>3 DEF m
<1> DEFINE h == SetTerm(f, a, u)
<1>5. /\ WellFormed(h, 1, W) /\ Kept(f, h) /\ Len(h.blk) = Len(f.blk)
      /\ \A d \in 1 .. Len(f.blk) : h.blk[d].want = f.blk[d].want
  BY <1>2, <1>4, SetTermOk
<1> QED
  BY <1>5 DEF h, u

(* A loop opened where none is.                                            *)
LEMMA LoopsAlso ==
  ASSUME NEW W, NEW f, WellFormed(f, 1, W), NEW t \in LoopSet(Len(f.blk))
  PROVE  LET h == WithLoops(f, Append(f.loops, t)) IN
         /\ WellFormed(h, 1, W)
         /\ h.msvc = f.msvc /\ h.blk = f.blk /\ h.scopes = f.scopes /\ h.catches = f.catches
         /\ h.gotos = f.gotos /\ h.labels = f.labels /\ h.plain = f.plain
         /\ h.loops = Append(f.loops, t)
<1> DEFINE L == Append(f.loops, t)
           h == WithLoops(f, L)
<1>1. f.loops \in Seq(LoopSet(Len(f.blk)))
  BY DEF WellFormed, FunctionSet
<1>2. L \in Seq(LoopSet(Len(f.blk))) /\ 1 \in {0, 1}
  BY <1>1, SeqAppend
<1> HIDE DEF L
<1>3. h = WithLoops(f, L)
  OBVIOUS
<1> HIDE DEF h
<1>4. /\ WellFormed(h, 1, W)
      /\ h.msvc = f.msvc /\ h.blk = f.blk /\ h.scopes = f.scopes /\ h.catches = f.catches
      /\ h.gotos = f.gotos /\ h.labels = f.labels /\ h.plain = f.plain /\ h.loops = L
  BY <1>2, <1>3, PutLoops
<1> QED
  BY <1>4 DEF L, h

(* BeginWhile keeps the invariant.                                         *)
LEMMA BeginWhileInv ==
  ASSUME IInv, BeginWhile
  PROVE  IInv'
<1> DEFINE f == NewBlock(NewBlock(NewBlock(g)))
           a == LastBlock(g) + 1
           x == SetTerm(f, g.cur, Br(a))
           e == SetTerm(x, a, Term("cond", <<>>, <<a + 1, a + 2>>))
           t == Target(a, a + 2, Len(e.scopes))
           y == WithLoops(e, Append(e.loops, t))
           h == WithCur(y, a + 1)
           s == Loop(InScope(nest), Len(g.scopes), a + 2)
<1>1. /\ phase = "visit" /\ g' = h /\ nest' = Append(nest, s) /\ stmts' = stmts + 1
      /\ phase' = phase /\ msvc' = msvc /\ ~InExpression
      /\ ~ \E k \in DOMAIN nest : nest[k].kind = "loop"
  BY DEF BeginWhile, Visiting, Unfinished, Visited, Open, PushLoopTarget, Loop, Target,
         CurrentCleanupScope, WithCur, WithLoops
<1>2. PICK W : WellFormed(g, 1, W) /\ Bodily \subseteq W
  BY <1>1, Ghosts
<1>w. NoWant \in W
  BY <1>2, BodilyOk
<1>3. Generated(g, nest)
  BY <1>1, Visits
<1> DEFINE n == Len(g.blk)
<1>4. /\ WellFormed(f, 1, W) /\ Kept(g, f) /\ f.cur = g.cur /\ Len(f.blk) = n + 3
      /\ \A b \in n + 1 .. n + 3 : f.blk[b].want = NoWant
  BY <1>2, <1>w, ThreeBlocks
<1>5. n \in Nat /\ g.cur \in 1 .. n /\ Len(g.scopes) \in Nat
  BY <1>2, Lengths
<1>6. a = n + 1 /\ a + 1 = n + 2 /\ a + 2 = n + 3
  BY <1>5 DEF LastBlock
<1> HIDE DEF f, a, x, e, t, y, h, s, n
<1>7. a \in 1 .. Len(f.blk) /\ a + 1 \in 1 .. Len(f.blk) /\ a + 2 \in 1 .. Len(f.blk)
      /\ g.cur \in 1 .. Len(f.blk) /\ 1 \in {0, 1}
  BY <1>4, <1>5, <1>6
<1>8. WellFormed(x, 1, W) /\ Kept(f, x) /\ Len(x.blk) = Len(f.blk)
      /\ \A c \in 1 .. Len(f.blk) : x.blk[c].want = f.blk[c].want
  BY <1>4, <1>7, BrOk DEF x
<1>9. WellFormed(e, 1, W) /\ Kept(x, e) /\ Len(e.blk) = Len(x.blk)
      /\ \A c \in 1 .. Len(x.blk) : e.blk[c].want = x.blk[c].want
  <2>1. a \in 1 .. Len(x.blk) /\ a + 1 \in 1 .. Len(x.blk) /\ a + 2 \in 1 .. Len(x.blk)
    BY <1>7, <1>8
  <2> QED
    BY <1>8, <2>1, CondOk, SMTT(30) DEF e
<1>10. Len(e.blk) = n + 3 /\ Len(e.blk) \in Nat /\ Len(f.blk) \in Nat /\ Len(x.blk) \in Nat
  BY <1>4, <1>5, <1>8, <1>9
<1>11. Kept(g, e)
  <2>1. Kept(g, x)
    BY <1>4, <1>5, <1>8, <1>10, KeptTrans DEF n
  <2> QED
    BY <1>5, <1>9, <1>10, <2>1, KeptTrans DEF n
<1>12. \A b \in n + 1 .. n + 3 : e.blk[b].want = NoWant
  <2>1. \A b \in n + 1 .. n + 3 : b \in 1 .. Len(f.blk) /\ b \in 1 .. Len(x.blk)
    BY <1>4, <1>5, <1>8
  <2> QED
    BY <1>4, <1>8, <1>9, <2>1
<1>13. Len(e.scopes) = Len(g.scopes)
  BY <1>11 DEF Kept
<1>14. /\ WellFormed(y, 1, W)
       /\ y.msvc = e.msvc /\ y.blk = e.blk /\ y.scopes = e.scopes /\ y.catches = e.catches
       /\ y.gotos = e.gotos /\ y.labels = e.labels /\ y.plain = e.plain
       /\ y.loops = Append(e.loops, t)
  <2>1. t \in LoopSet(Len(e.blk))
    BY <1>5, <1>7, <1>8, <1>9, <1>10, <1>13, TargetOk DEF t
  <2> QED
    BY <1>9, <2>1, LoopsAlso DEF y
<1>15. /\ WellFormed(h, 1, W) /\ Kept(y, h) /\ h.cur = a + 1 /\ h.blk = y.blk /\ h.scopes = y.scopes
  <2>1. a + 1 \in 1 .. Len(y.blk)
    BY <1>7, <1>8, <1>9, <1>14
  <2> QED
    BY <1>7, <1>14, <2>1, SetCurOk DEF h
<1>16. NoExpression(nest)
  BY <1>1, <1>3, OutsideExpression DEF Generated
<1>17. ~ \E k \in 1 .. Len(nest) : nest[k].kind = "loop"
  <2>1. PICK U : nest \in Seq(U)
    BY <1>3 DEF Generated, NestOK
  <2> QED
    BY <1>1, <2>1
<1>18. Generated(h, Append(nest, Loop(InScope(nest), Len(g.scopes), Len(g.blk) + 3)))
  <2>1. /\ h.msvc = e.msvc /\ h.blk = e.blk /\ h.scopes = e.scopes /\ h.labels = e.labels
        /\ h.gotos = e.gotos /\ h.catches = e.catches
    BY <1>14, <1>15 DEF Kept
  <2>2. h.loops = Append(e.loops, Target(Len(g.blk) + 1, Len(g.blk) + 3, Len(g.scopes)))
    <3>1. t = Target(Len(g.blk) + 1, Len(g.blk) + 3, Len(g.scopes))
      BY <1>6, <1>13 DEF t, n
    <3> QED
      BY <1>14, <1>15, <3>1 DEF Kept
  <2>3. /\ Len(e.blk) = Len(g.blk) + 3 /\ h.cur = Len(g.blk) + 2
        /\ \A b \in Len(g.blk) + 1 .. Len(g.blk) + 3 : e.blk[b].want = NoWant
    BY <1>6, <1>10, <1>12, <1>15 DEF n
  <2> QED
    BY <1>2, <1>3, <1>9, <1>11, <1>15, <1>16, <1>17, <2>1, <2>2, <2>3, OpensLoop
<1>19. Append(nest, s) = Append(nest, Loop(InScope(nest), Len(g.scopes), Len(g.blk) + 3))
  BY <1>6 DEF s, n
<1>20. h.msvc = g.msvc /\ NewPlain(g, h)
  BY <1>11, <1>14, <1>15 DEF Kept, NewPlain
<1> QED
  BY <1>1, <1>15, <1>18, <1>19, <1>20, StepInv

(* The innermost statement.                                                *)
LEMMA Innermost ==
  ASSUME NEW W, NEW f, WellFormed(f, 1, W), NEW p, Generated(f, p), p # <<>>
  PROVE  /\ Pushed(Front(p), Last(p), p) /\ StatementOK(Last(p), Len(f.blk))
         /\ NestOK(Len(f.blk), Front(p))
         /\ Last(p).before \in 0 .. Len(f.scopes)
         /\ Len(f.scopes) = Last(p).before + Height(Last(p), f.msvc)
<1>1. NestOK(Len(f.blk), p) /\ Chain(Len(f.scopes), f.msvc, p) /\ Len(f.scopes) \in Nat
  BY Lengths DEF Generated
<1> DEFINE n == Front(p)
           s == Last(p)
<1>2. Pushed(n, s, p)
  BY <1>1, FrontPushed
<1> HIDE DEF n, s
<1>3. NestOK(Len(f.blk), n) /\ StatementOK(s, Len(f.blk))
  BY <1>1, <1>2, PopNest
<1>4. s.before \in 0 .. Len(f.scopes) /\ Len(f.scopes) = s.before + Height(s, f.msvc)
  BY <1>1, <1>2, PopChain
<1> QED
  BY <1>2, <1>3, <1>4 DEF n, s

(* The visitor goes on where the innermost statement ends.                 *)
LEMMA GoesOn ==
  ASSUME NEW W, NEW f, WellFormed(f, 1, W), NEW n, NEW s, NEW p, Pushed(n, s, p), Generated(f, p),
         Continues(s), NEW h, h.cur = Cont(s), h.msvc = f.msvc, h.labels = f.labels,
         Len(h.blk) >= Len(f.blk), WantsOf(f, h, (1 .. Len(f.blk)) \ {f.cur})
  PROVE  Changes(f, h) /\ Clear(h, n)
<1>1. Distinct(f, p) /\ NestOK(Len(f.blk), p)
  BY DEF Generated
<1>2. /\ \A k \in 1 .. Len(n) : Continues(n[k]) => Cont(n[k]) # Cont(s)
      /\ Cont(s) # f.cur /\ f.blk[Cont(s)].want.kind # "goto"
  BY <1>1, PopDistinct
<1>3. Cont(s) \in 1 .. Len(f.blk)
  <2>1. StatementOK(s, Len(f.blk))
    BY <1>1, PopNest
  <2> QED
    BY <2>1 DEF StatementOK
<1>4. h.blk[h.cur].want.kind # "goto"
  BY <1>2, <1>3 DEF WantsOf
<1> QED
  BY <1>2, <1>4 DEF Changes, Clear

(* EndWhile keeps the invariant.                                           *)
LEMMA EndWhileInv ==
  ASSUME IInv, EndWhile
  PROVE  IInv'
<1> DEFINE n == Front(nest)
           s == Last(nest)
           t == Last(g.loops)
           x == SetTerm(g, g.cur, Br(t.continue))
           y == WithCur(x, t.break)
           h == WithLoops(y, Front(y.loops))
<1>1. /\ phase = "visit" /\ nest' = n /\ phase' = phase /\ msvc' = msvc /\ stmts' = stmts
      /\ nest # <<>> /\ s.kind = "loop"
      /\ g' = [x EXCEPT !.cur = t.break, !.loops = Front(@)]
  BY DEF EndWhile
<1>h. g' = h
  <2> HIDE DEF x, t
  <2> QED
    BY <1>1 DEF WithCur, WithLoops
<1>2. PICK W : WellFormed(g, 1, W)
  BY <1>1, Visits
<1>3. Generated(g, nest)
  BY <1>1, Visits
<1>4. /\ Pushed(n, s, nest) /\ StatementOK(s, Len(g.blk)) /\ NestOK(Len(g.blk), n)
      /\ s.before \in 0 .. Len(g.scopes) /\ Len(g.scopes) = s.before + Height(s, g.msvc)
  BY <1>1, <1>2, <1>3, Innermost
<1>5. Len(g.blk) \in Nat /\ g.cur \in 1 .. Len(g.blk) /\ Len(g.scopes) \in Nat
  BY <1>2, Lengths
<1> HIDE DEF n, s
<1>6. /\ LoopsOK(Front(g.loops), n) /\ t.break = s.endbb /\ t \in LoopSet(Len(g.blk))
      /\ Front(g.loops) \in Seq(LoopSet(Len(g.blk)))
  <2>1. g.loops \in Seq(LoopSet(Len(g.blk)))
    BY <1>2 DEF WellFormed, FunctionSet
  <2>2. LoopsOK(g.loops, nest)
    BY <1>3 DEF Generated
  <2> QED
    BY <1>1, <1>4, <2>1, <2>2, PopLoop, SeqFront
<1> HIDE DEF t, x, y, h
<1>7. t.continue \in 1 .. Len(g.blk) /\ t.break \in 1 .. Len(g.blk) /\ 1 \in {0, 1}
  BY <1>6 DEF LoopSet
<1>8. WellFormed(x, 1, W) /\ Kept(g, x) /\ Rest(g, x) /\ Len(x.blk) = Len(g.blk)
  BY <1>2, <1>5, <1>7, BrOk DEF x
<1>9. WellFormed(y, 1, W) /\ Kept(x, y) /\ y.cur = t.break /\ y.blk = x.blk
  BY <1>7, <1>8, SetCurOk DEF y
<1>10. y.loops = g.loops
  BY <1>8, <1>9 DEF Kept
<1>11. /\ WellFormed(h, 1, W) /\ h.loops = Front(g.loops) /\ h.msvc = y.msvc /\ h.blk = y.blk
       /\ h.cur = y.cur /\ h.scopes = y.scopes /\ h.gotos = y.gotos /\ h.labels = y.labels
       /\ h.catches = y.catches /\ h.plain = y.plain
  <2> DEFINE L == Front(g.loops)
  <2>1. L \in Seq(LoopSet(Len(y.blk)))
    BY <1>6, <1>8, <1>9
  <2>2. h = WithLoops(y, L)
    BY <1>10 DEF h
  <2> HIDE DEF L
  <2>3. /\ WellFormed(h, 1, W) /\ h.loops = L /\ h.msvc = y.msvc /\ h.blk = y.blk
        /\ h.cur = y.cur /\ h.scopes = y.scopes /\ h.gotos = y.gotos /\ h.labels = y.labels
        /\ h.catches = y.catches /\ h.plain = y.plain
    BY <1>7, <1>9, <2>1, <2>2, PutLoops
  <2> QED
    BY <2>3 DEF L
<1>12. /\ h.msvc = g.msvc /\ h.labels = g.labels /\ h.gotos = g.gotos /\ h.catches = g.catches
       /\ h.plain = g.plain /\ Len(h.scopes) = Len(g.scopes) /\ Len(h.blk) = Len(g.blk)
       /\ h.cur = s.endbb
  BY <1>6, <1>8, <1>9, <1>11 DEF Kept
<1>13. Continues(s) /\ Cont(s) = s.endbb
  BY <1>1 DEF Continues, Cont
<1>14. WantsOf(g, h, (1 .. Len(g.blk)) \ {g.cur})
  BY <1>8, <1>9, <1>11 DEF Kept, WantsOf
<1>15. Changes(g, h) /\ Clear(h, n)
  <2>1. Len(h.blk) >= Len(g.blk)
    BY <1>5, <1>12
  <2> QED
    BY <1>2, <1>3, <1>4, <1>12, <1>13, <1>14, <2>1, GoesOn
<1>16. s.before = Len(g.scopes)
  <2>1. Height(s, g.msvc) = 0
    BY <1>1, <1>4 DEF Height, StatementOK
  <2> QED
    BY <1>4, <1>5, <2>1
<1>17. GotosFrom(g, h, s.before)
  BY <1>2, <1>12, <1>16, SameGotos
<1>18. CatchesOK(h.catches, n)
  <2>1. s.kind # "catch"
    BY <1>1
  <2>2. CatchesOK(g.catches, nest)
    BY <1>3 DEF Generated
  <2> QED
    BY <1>4, <1>12, <2>1, <2>2, SameCatches
<1>19. LoopsOK(h.loops, n)
  BY <1>6, <1>11
<1>20. Generated(h, n)
  BY <1>2, <1>3, <1>4, <1>11, <1>15, <1>17, <1>18, <1>19, PopOk
<1>21. NewPlain(g, h)
  BY <1>12 DEF NewPlain
<1> QED
  BY <1>1, <1>2, <1>h, <1>11, <1>12, <1>20, <1>21, StepInv

(* The current block is terminated by a jump: what it runs is emitted, the *)
(* ghost is set, and gotos may move down to cursor t.                      *)
Left(f, h, t, W) ==
  /\ WellFormed(h, 1, W)
  /\ h.msvc = f.msvc /\ h.catches = f.catches /\ h.labels = f.labels /\ h.loops = f.loops
  /\ h.plain = f.plain /\ Len(h.blk) >= Len(f.blk)
  /\ WantsOf(f, h, (1 .. Len(f.blk)) \ {f.cur})
  /\ GotosFrom(f, h, t)

(* runCleanups for a jump: no goto moves, and the block it ends has the    *)
(* jump's ghost.                                                           *)
LEMMA JumpOk ==
  ASSUME NEW W, NEW f, WellFormed(f, 1, W), NEW t \in 0 .. Len(f.scopes),
         NEW cont \in 1 .. Len(f.blk), NEW w \in W
  PROVE  LET h == Want(RunCleanups(f, Len(f.scopes), t, cont), f.cur, w) IN
         /\ Left(f, h, Len(f.scopes), W) /\ h.cur = f.cur /\ h.blk[f.cur].want = w
         /\ h.gotos = f.gotos
<1> DEFINE e == RunCleanups(f, Len(f.scopes), t, cont)
           h == Want(e, f.cur, w)
<1>1. Len(f.scopes) \in Nat /\ Len(f.blk) \in Nat /\ f.cur \in 1 .. Len(f.blk) /\ 1 \in {0, 1}
  BY Lengths
<1>2. Emits(f, e, 1, W)
  <2>1. Len(f.scopes) \in 0 .. Len(f.scopes)
    BY <1>1
  <2> DEFINE m == Len(f.scopes)
  <2> HIDE DEF m
  <2>2. m \in 0 .. Len(f.scopes) /\ t \in 0 .. m
    BY <2>1 DEF m
  <2>3. Emits(f, RunCleanups(f, m, t, cont), 1, W)
    BY <1>1, <2>2, RunCleanupsOk
  <2> QED
    BY <2>3 DEF m
<1> HIDE DEF e
<1>3. WellFormed(e, 1, W) /\ Kept(f, e) /\ e.cur = f.cur /\ f.cur \in 1 .. Len(e.blk)
  <2>1. WellFormed(e, 1, W) /\ Kept(f, e) /\ e.cur = f.cur
    BY <1>2 DEF Emits
  <2>2. e.cur \in 1 .. Len(e.blk)
    BY <1>1, <2>1, Lengths
  <2> QED
    BY <2>1, <2>2
<1>4. /\ WellFormed(h, 1, W) /\ Rest(e, h) /\ Len(h.blk) = Len(e.blk)
      /\ \A c \in 1 .. Len(e.blk) : h.blk[c].want = IF c = f.cur THEN w ELSE e.blk[c].want
  BY <1>1, <1>3, WantOk
<1> HIDE DEF h
<1>5. h.cur = f.cur /\ h.blk[f.cur].want = w
  BY <1>3, <1>4 DEF Rest
<1>6. WantsOf(f, h, (1 .. Len(f.blk)) \ {f.cur})
  <2>1. \A c \in 1 .. Len(f.blk) : c \in 1 .. Len(e.blk)
    <3>1. Len(e.blk) \in Nat
      BY <1>3, Lengths
    <3> QED
      BY <1>1, <1>3, <3>1 DEF Kept
  <2> QED
    BY <1>3, <1>4, <2>1 DEF Kept, WantsOf
<1>7. h.gotos = f.gotos /\ Len(h.scopes) = Len(f.scopes)
  BY <1>3, <1>4 DEF Kept, Rest
<1>8. GotosFrom(f, h, Len(f.scopes))
  BY <1>7, SameGotos
<1> QED
  BY <1>3, <1>4, <1>5, <1>6, <1>7, <1>8 DEF Left, Kept, Rest, h, e

(* Lengths after a jump.                                                   *)
LEMMA LeftFacts ==
  ASSUME NEW W, NEW f, WellFormed(f, 1, W), NEW t, NEW h, Left(f, h, t, W)
  PROVE  /\ WellFormed(h, 1, W) /\ Len(h.scopes) = t
         /\ Len(f.blk) \in Nat /\ Len(h.blk) \in Nat /\ Len(h.blk) >= Len(f.blk)
         /\ 1 .. Len(f.blk) \subseteq 1 .. Len(h.blk)
<1>1. WellFormed(h, 1, W) /\ Len(h.scopes) = t /\ Len(h.blk) >= Len(f.blk)
  BY DEF Left, GotosFrom
<1>2. Len(f.blk) \in Nat /\ Len(h.blk) \in Nat
  BY <1>1, Lengths
<1> QED
  BY <1>1, <1>2

(* Going on in another block, or in a new one.                             *)
LEMMA LeftAt ==
  ASSUME NEW W, NEW f, WellFormed(f, 1, W), NEW t, NEW h, Left(f, h, t, W),
         NEW b \in 1 .. Len(h.blk)
  PROVE  LET e == WithCur(h, b) IN
         /\ Left(f, e, t, W) /\ e.cur = b /\ e.blk = h.blk /\ e.gotos = h.gotos
<1> DEFINE e == WithCur(h, b)
<1>1. WellFormed(h, 1, W) /\ 1 \in {0, 1}
  BY DEF Left
<1> HIDE DEF e
<1>2. /\ WellFormed(e, 1, W) /\ Kept(h, e) /\ e.cur = b /\ e.blk = h.blk
      /\ e.scopes = h.scopes
  BY <1>1, SetCurOk DEF e
<1>3. Left(f, e, t, W)
  BY <1>2 DEF Left, Kept, GotosFrom, WantsOf
<1> QED
  BY <1>2, <1>3 DEF e, Kept

(* After a jump the visitor goes on in a new block.                        *)
LEMMA ContinueOk ==
  ASSUME NEW W, NoWant \in W, NEW f, WellFormed(f, 1, W), NEW t, NEW h, Left(f, h, t, W)
  PROVE  LET e == Continue(h) IN
         Left(f, e, t, W) /\ e.cur > Len(f.blk) /\ e.blk[e.cur].want.kind # "goto"
<1> DEFINE x == NewBlock(h)
           n == Len(x.blk)
           e == WithCur(x, n)
<1>1. WellFormed(h, 1, W)
  BY DEF Left
<1>2. /\ WellFormed(x, 1, W) /\ Kept(h, x) /\ Rest(h, x) /\ n = Len(h.blk) + 1
      /\ \A b \in 1 .. Len(h.blk) : x.blk[b] = h.blk[b]
      /\ x.blk[n].want = NoWant
  BY <1>1, NewBlockFacts
<1>3. /\ Len(f.blk) \in Nat /\ Len(h.blk) \in Nat /\ Len(h.blk) >= Len(f.blk)
      /\ 1 .. Len(f.blk) \subseteq 1 .. Len(h.blk)
  BY LeftFacts
<1>e. Continue(h) = e
  BY DEF Continue, LastBlock, WithCur
<1> HIDE DEF x, e
<1>4. Left(f, x, t, W)
  <2>1. WantsOf(f, x, (1 .. Len(f.blk)) \ {f.cur})
    BY <1>2, <1>3 DEF Left, WantsOf
  <2>2. Len(x.blk) >= Len(f.blk)
    BY <1>2, <1>3
  <2> QED
    BY <1>2, <2>1, <2>2 DEF Left, Kept, GotosFrom
<1>5. n \in 1 .. Len(x.blk)
  BY <1>2, <1>3
<1>6. Left(f, e, t, W) /\ e.cur = n /\ e.blk = x.blk
  <2> HIDE DEF n
  <2> QED
    BY <1>4, <1>5, LeftAt DEF e
<1>7. e.cur > Len(f.blk) /\ e.blk[e.cur].want.kind # "goto"
  BY <1>2, <1>3, <1>6, NoWantKind
<1> QED
  BY <1>e, <1>6, <1>7

(* Blocks are added first.                                                 *)
LEMMA LeftKept ==
  ASSUME NEW W, NEW f, WellFormed(f, 1, W), NEW e, WellFormed(e, 1, W), Kept(f, e), e.cur = f.cur,
         NEW t, NEW h, Left(e, h, t, W)
  PROVE  Left(f, h, t, W)
<1>1. Len(f.blk) \in Nat /\ Len(e.blk) \in Nat /\ Len(h.blk) \in Nat
  BY LeftFacts, Lengths
<1>2. Len(h.blk) >= Len(f.blk) /\ \A b \in 1 .. Len(f.blk) : b \in 1 .. Len(e.blk)
  BY <1>1 DEF Left, Kept
<1>3. WantsOf(f, h, (1 .. Len(f.blk)) \ {f.cur})
  BY <1>2 DEF Left, Kept, WantsOf
<1> QED
  BY <1>2, <1>3 DEF Left, Kept, GotosFrom

(* The scopes above t are popped.                                          *)
LEMMA PopsLeft ==
  ASSUME NEW W, NEW f, WellFormed(f, 1, W), NEW h, Left(f, h, Len(f.scopes), W), h.gotos = f.gotos,
         NEW t \in 0 .. Len(f.scopes)
  PROVE  LET e == PopCleanups(h, t) IN
         /\ Left(f, e, t, W) /\ e.cur = h.cur
         /\ \A b \in 1 .. Len(h.blk) : e.blk[b].want = h.blk[b].want
<1> DEFINE e == PopCleanups(h, t)
<1>1. WellFormed(h, 1, W) /\ Len(h.scopes) = Len(f.scopes)
  BY DEF Left, GotosFrom
<1>2. PopsTo(h, e, t, W)
  <2>1. t \in 0 .. Len(h.scopes)
    BY <1>1
  <2> QED
    BY <1>1, <2>1, PopCleanupsOk
<1> HIDE DEF e
<1>3. WellFormed(e, 1, W) /\ Carries(h, e)
  BY <1>2 DEF PopsTo
<1>4. GotosFrom(f, e, t)
  <2>1. GotosFrom(h, e, t)
    BY <1>2, PopsGotos
  <2> QED
    BY <2>1 DEF GotosFrom
<1>5. /\ Len(f.blk) \in Nat /\ Len(h.blk) \in Nat /\ Len(h.blk) >= Len(f.blk)
      /\ 1 .. Len(f.blk) \subseteq 1 .. Len(h.blk)
  BY LeftFacts
<1>6. Len(e.blk) \in Nat
  BY <1>3, Lengths
<1>7. WantsOf(f, e, (1 .. Len(f.blk)) \ {f.cur}) /\ Len(e.blk) >= Len(f.blk)
  BY <1>3, <1>5, <1>6 DEF Left, Carries, WantsOf
<1>8. Left(f, e, t, W)
  BY <1>3, <1>4, <1>7 DEF Left, Carries
<1> QED
  BY <1>3, <1>8 DEF Carries, e

(* A jump as a change of the generator's state.                            *)
LEMMA LeftSame ==
  ASSUME NEW W, NEW f, WellFormed(f, 1, W), NEW t, NEW h, Left(f, h, t, W),
         h.blk[h.cur].want.kind # "goto"
  PROVE  Changes(f, h) /\ NewPlain(f, h) /\ h.msvc = f.msvc /\ GotosFrom(f, h, t)
         /\ h.loops = f.loops /\ h.catches = f.catches
BY DEF Left, Changes, NewPlain

(* EndTryFinally keeps the invariant.                                      *)
LEMMA EndTryFinallyInv ==
  ASSUME IInv, EndTryFinally
  PROVE  IInv'
<1> DEFINE n == Front(nest)
           s == Last(nest)
           m == Len(g.scopes)
           w == Jumping(nest, InScope(n), s.success)
           x == Want(RunCleanups(g, m, s.before, s.success), g.cur, w)
           y == WithCur(x, s.success)
           h == PopCleanups(y, s.before)
<1>1. /\ phase = "visit" /\ nest' = n /\ phase' = phase /\ msvc' = msvc /\ stmts' = stmts
      /\ nest # <<>> /\ s.kind = "finally" /\ g' = h
  BY DEF EndTryFinally, CurrentCleanupScope, WithCur
<1>2. PICK W : WellFormed(g, 1, W) /\ {w} \subseteq W
  BY <1>1, Ghosts
<1>3. Generated(g, nest)
  BY <1>1, Visits
<1>4. /\ Pushed(n, s, nest) /\ StatementOK(s, Len(g.blk)) /\ NestOK(Len(g.blk), n)
      /\ s.before \in 0 .. m
  BY <1>1, <1>2, <1>3, Innermost
<1> HIDE DEF n, s, w
<1>5. Continues(s) /\ Cont(s) = s.success /\ s.success \in 1 .. Len(g.blk) /\ w \in W
  BY <1>1, <1>2, <1>4 DEF Continues, Cont, StatementOK
<1>6. Left(g, x, m, W) /\ x.cur = g.cur /\ x.gotos = g.gotos
  BY <1>2, <1>4, <1>5, JumpOk
<1> HIDE DEF x
<1>7. Left(g, y, m, W) /\ y.cur = s.success /\ y.gotos = g.gotos
  <2>1. s.success \in 1 .. Len(x.blk)
    BY <1>2, <1>5, <1>6, LeftFacts
  <2> QED
    BY <1>2, <1>6, <2>1, LeftAt
<1> HIDE DEF y
<1>8. Left(g, h, s.before, W) /\ h.cur = s.success
  BY <1>2, <1>4, <1>7, PopsLeft
<1> HIDE DEF h, m
<1>9. Changes(g, h) /\ Clear(h, n)
  <2>1. /\ h.msvc = g.msvc /\ h.labels = g.labels /\ Len(h.blk) >= Len(g.blk)
        /\ WantsOf(g, h, (1 .. Len(g.blk)) \ {g.cur})
    BY <1>8 DEF Left
  <2> QED
    BY <1>2, <1>3, <1>4, <1>5, <1>8, <2>1, GoesOn
<1>10. LoopsOK(h.loops, n) /\ CatchesOK(h.catches, n)
  <2>1. s.kind # "catch" /\ s.kind # "loop"
    BY <1>1
  <2>2. CatchesOK(g.catches, nest) /\ LoopsOK(g.loops, nest)
    BY <1>3 DEF Generated
  <2>3. h.catches = g.catches /\ h.loops = g.loops
    BY <1>8 DEF Left
  <2> QED
    BY <1>4, <2>1, <2>2, <2>3, SameCatches, SameLoops
<1>11. WellFormed(h, 1, W) /\ GotosFrom(g, h, s.before) /\ h.msvc = g.msvc /\ NewPlain(g, h)
  BY <1>8 DEF Left, NewPlain
<1>12. Generated(h, n)
  BY <1>2, <1>3, <1>4, <1>9, <1>10, <1>11, PopOk
<1> QED
  BY <1>1, <1>11, <1>12, StepInv

(* The end of a full expression, or a return in it.                        *)
LEMMA LeavesExpression ==
  ASSUME IInv, phase = "visit", InExpression, NEW W, WellFormed(g, 1, W),
         NEW h, Left(g, h, Last(nest).before, W), h.cur \notin 1 .. Len(g.blk),
         h.blk[h.cur].want.kind # "goto"
  PROVE  Generated(h, Front(nest)) /\ WellFormed(h, 1, W) /\ h.msvc = g.msvc /\ NewPlain(g, h)
<1> DEFINE n == Front(nest)
           s == Last(nest)
<1>1. nest # <<>> /\ s.kind = "expr"
  BY DEF InExpression
<1>2. Generated(g, nest)
  BY Visits
<1>3. Pushed(n, s, nest) /\ NestOK(Len(g.blk), n)
  BY <1>1, <1>2, Innermost
<1>4. Left(g, h, s.before, W)
  OBVIOUS
<1> HIDE DEF n, s
<1>5. /\ Changes(g, h) /\ NewPlain(g, h) /\ h.msvc = g.msvc /\ GotosFrom(g, h, s.before)
      /\ h.loops = g.loops /\ h.catches = g.catches
  BY <1>4, LeftSame
<1>6. Clear(h, n)
  <2>1. Distinct(g, n)
    BY <1>2, <1>3, PopDistinct DEF Generated
  <2> QED
    BY <1>3, <2>1, ClearOk
<1>7. LoopsOK(h.loops, n) /\ CatchesOK(h.catches, n)
  <2>1. s.kind # "catch" /\ s.kind # "loop"
    BY <1>1
  <2>2. CatchesOK(g.catches, nest) /\ LoopsOK(g.loops, nest)
    BY <1>2 DEF Generated
  <2> QED
    BY <1>3, <1>5, <2>1, <2>2, SameCatches, SameLoops
<1>8. WellFormed(h, 1, W)
  BY DEF Left
<1>9. Generated(h, n)
  BY <1>2, <1>3, <1>5, <1>6, <1>7, <1>8, PopOk
<1> QED
  BY <1>5, <1>8, <1>9 DEF n

(* EndExpression keeps the invariant.                                      *)
LEMMA EndExpressionInv ==
  ASSUME IInv, EndExpression
  PROVE  IInv'
<1> DEFINE n == Front(nest)
           s == Last(nest)
           f == NewBlock(g)
           m == Len(g.scopes)
           b == Len(f.blk)
           w == Jumping(nest, InScope(n), b)
           x == Want(RunCleanups(f, m, s.before, b), g.cur, w)
           y == PopCleanups(x, s.before)
           h == WithCur(y, b)
<1>1. /\ phase = "visit" /\ nest' = n /\ phase' = phase /\ msvc' = msvc /\ stmts' = stmts
      /\ InExpression /\ nest # <<>> /\ g' = h
  BY DEF EndExpression, CurrentCleanupScope, WithCur, LastBlock, InExpression
<1>2. PICK W : WellFormed(g, 1, W) /\ {NoWant, w} \subseteq W
  BY <1>1, Ghosts
<1>w. NoWant \in W /\ w \in W
  BY <1>2
<1>3. Generated(g, nest)
  BY <1>1, Visits
<1>4. s.before \in 0 .. m
  BY <1>1, <1>2, <1>3, Innermost
<1>5. Len(g.blk) \in Nat /\ g.cur \in 1 .. Len(g.blk)
  BY <1>2, Lengths
<1>6. /\ WellFormed(f, 1, W) /\ Kept(g, f) /\ Rest(g, f) /\ b = Len(g.blk) + 1
      /\ f.blk[b].want = NoWant
  BY <1>2, <1>w, NewBlockFacts
<1>7. m = Len(f.scopes) /\ f.cur = g.cur
  BY <1>6 DEF Rest
<1> HIDE DEF n, s, f, w, x, y, h, m
<1>8. Left(f, x, m, W) /\ x.cur = f.cur /\ x.gotos = f.gotos
  <2>1. b \in 1 .. Len(f.blk)
    BY <1>5, <1>6
  <2> HIDE DEF b
  <2> QED
    BY <1>4, <1>6, <1>7, <1>w, <2>1, JumpOk DEF x
<1>9. Left(f, y, s.before, W) /\ \A c \in 1 .. Len(x.blk) : y.blk[c].want = x.blk[c].want
  BY <1>4, <1>6, <1>7, <1>8, PopsLeft DEF y
<1>10. b \in 1 .. Len(f.blk) /\ b \in 1 .. Len(y.blk)
  <2>1. 1 .. Len(f.blk) \subseteq 1 .. Len(y.blk)
    BY <1>6, <1>9, LeftFacts
  <2>2. b \in 1 .. Len(f.blk)
    BY <1>5, <1>6
  <2> QED
    BY <2>1, <2>2
<1>11. Left(f, h, s.before, W) /\ h.cur = b /\ h.blk = y.blk
  <2> HIDE DEF b
  <2> QED
    BY <1>6, <1>9, <1>10, LeftAt DEF h
<1>12. Left(g, h, s.before, W)
  BY <1>2, <1>6, <1>7, <1>11, LeftKept
<1>13. h.cur \notin 1 .. Len(g.blk)
  BY <1>5, <1>6, <1>11
<1>14. h.blk[h.cur].want.kind # "goto"
  <2>1. b # f.cur
    BY <1>5, <1>6, <1>7
  <2>2. h.blk[b].want = f.blk[b].want
    BY <1>10, <1>11, <2>1 DEF Left, WantsOf
  <2> QED
    BY <1>6, <1>11, <2>2, NoWantKind
<1>15. Generated(h, n) /\ WellFormed(h, 1, W) /\ h.msvc = g.msvc /\ NewPlain(g, h)
  BY <1>1, <1>2, <1>12, <1>13, <1>14, LeavesExpression DEF n, s
<1> QED
  BY <1>1, <1>15, StepInv

(* EndTryCatch keeps the invariant.                                        *)
LEMMA EndTryCatchInv ==
  ASSUME IInv, EndTryCatch
  PROVE  IInv'
<1> DEFINE n == Front(nest)
           s == Last(nest)
           x == SetTerm(g, g.cur, Br(s.endbb))
           e == WithCatches(x, Front(x.catches))
           y == PopTryCatch(x)
           h == WithCur(y, s.endbb)
<1>1. /\ phase = "visit" /\ nest' = n /\ phase' = phase /\ msvc' = msvc /\ stmts' = stmts
      /\ nest # <<>> /\ s.kind = "catch" /\ g' = h
  BY DEF EndTryCatch, WithCur
<1>2. PICK W : WellFormed(g, 1, W)
  BY <1>1, Visits
<1>3. Generated(g, nest)
  BY <1>1, Visits
<1>4. /\ Pushed(n, s, nest) /\ StatementOK(s, Len(g.blk)) /\ NestOK(Len(g.blk), n)
      /\ s.before \in 0 .. Len(g.scopes) /\ Len(g.scopes) = s.before + Height(s, g.msvc)
  BY <1>1, <1>2, <1>3, Innermost
<1> HIDE DEF n, s
<1>5. /\ Continues(s) /\ Cont(s) = s.endbb /\ s.endbb \in 1 .. Len(g.blk)
      /\ Height(s, g.msvc) = Up(g.msvc) /\ 1 \in {0, 1} /\ s.before \in Nat
  BY <1>1, <1>4 DEF Continues, Cont, StatementOK, Height
<1>6. Len(g.blk) \in Nat /\ g.cur \in 1 .. Len(g.blk) /\ Len(g.scopes) \in Nat /\ g.msvc \in BOOLEAN
  BY <1>2, Lengths
<1> HIDE DEF x, e, y, h
<1>7. WellFormed(x, 1, W) /\ Kept(g, x) /\ Rest(g, x) /\ Len(x.blk) = Len(g.blk)
  BY <1>2, <1>5, <1>6, BrOk DEF x
<1>8. /\ WellFormed(e, 1, W)
      /\ e.msvc = x.msvc /\ e.blk = x.blk /\ e.gotos = x.gotos /\ e.labels = x.labels
      /\ e.loops = x.loops /\ e.plain = x.plain /\ e.catches = Front(g.catches) /\ e.scopes = x.scopes
  <2> DEFINE C == Front(x.catches)
  <2>1. x.catches \in Seq(CatchSet(Len(x.blk))) /\ x.catches = g.catches
    BY <1>7 DEF WellFormed, FunctionSet, Rest
  <2>2. C \in Seq(CatchSet(Len(x.blk))) /\ C = Front(g.catches)
    BY <2>1, SeqFront
  <2>3. e = WithCatches(x, C)
    BY DEF e
  <2> HIDE DEF C
  <2>4. /\ WellFormed(e, 1, W) /\ e.catches = C
        /\ e.msvc = x.msvc /\ e.blk = x.blk /\ e.gotos = x.gotos /\ e.labels = x.labels
        /\ e.loops = x.loops /\ e.plain = x.plain /\ e.scopes = x.scopes
    BY <1>5, <1>7, <2>2, <2>3, PutCatches
  <2> QED
    BY <2>2, <2>4
<1>9. Len(x.scopes) - Up(x.msvc) = s.before /\ (x.msvc => x.scopes # <<>>)
  <2>1. x.scopes = g.scopes /\ x.msvc = g.msvc
    BY <1>7 DEF Rest
  <2>2. Len(g.scopes) - Up(g.msvc) = s.before
    BY <1>4, <1>5, <1>6 DEF Up
  <2>3. g.msvc => Len(g.scopes) # 0
    BY <1>4, <1>5, <1>6 DEF Up
  <2> QED
    BY <2>1, <2>2, <2>3
<1>10. PopsTo(e, y, s.before, W)
  <2>1. PopsTo(e, y, Len(x.scopes) - Up(x.msvc), W)
    BY <1>7, <1>9, PopTryCatchOk DEF e, y
  <2> QED
    BY <1>9, <2>1
<1>11. WellFormed(y, 1, W) /\ Carries(e, y) /\ GotosFrom(e, y, s.before)
  <2>1. GotosFrom(e, y, s.before)
    BY <1>10, PopsGotos
  <2> QED
    BY <1>10, <2>1 DEF PopsTo
<1>12. Len(y.blk) \in Nat /\ Len(y.blk) >= Len(g.blk)
  <2>1. Len(y.blk) \in Nat
    BY <1>11, Lengths
  <2> QED
    BY <1>7, <1>8, <1>11, <2>1 DEF Carries
<1>13. /\ WellFormed(h, 1, W) /\ Kept(y, h) /\ h.cur = s.endbb /\ h.blk = y.blk
       /\ h.scopes = y.scopes
  <2>1. s.endbb \in 1 .. Len(y.blk)
    BY <1>5, <1>6, <1>12
  <2> QED
    BY <1>5, <1>11, <2>1, SetCurOk DEF h
<1>14. /\ h.msvc = g.msvc /\ h.labels = g.labels /\ h.loops = g.loops /\ h.plain = g.plain
       /\ h.catches = Front(g.catches)
  BY <1>7, <1>8, <1>11, <1>13 DEF Kept, Carries, Rest
<1>15. WantsOf(g, h, (1 .. Len(g.blk)) \ {g.cur})
  BY <1>7, <1>8, <1>11, <1>13 DEF Kept, Carries, WantsOf
<1>16. Changes(g, h) /\ Clear(h, n)
  BY <1>2, <1>3, <1>4, <1>5, <1>12, <1>13, <1>14, <1>15, GoesOn
<1>17. GotosFrom(g, h, s.before)
  BY <1>7, <1>8, <1>11, <1>13 DEF GotosFrom, Kept, Rest
<1>18. LoopsOK(h.loops, n)
  <2>1. s.kind # "loop"
    BY <1>1
  <2> QED
    BY <1>3, <1>4, <1>14, <2>1, SameLoops DEF Generated
<1>19. CatchesOK(h.catches, n)
  <2>1. g.catches \in Seq(CatchSet(Len(g.blk)))
    BY <1>2 DEF WellFormed, FunctionSet
  <2>2. CatchesOK(g.catches, nest)
    BY <1>3 DEF Generated
  <2> QED
    BY <1>1, <1>4, <1>14, <2>1, <2>2, PopCatch
<1>20. Generated(h, n)
  BY <1>2, <1>3, <1>4, <1>13, <1>16, <1>17, <1>18, <1>19, PopOk
<1>21. NewPlain(g, h)
  BY <1>14 DEF NewPlain
<1> QED
  BY <1>1, <1>2, <1>13, <1>14, <1>20, <1>21, StepInv

(* A jump that ends no statement.                                          *)
LEMMA StaysPut ==
  ASSUME IInv, phase = "visit", NEW W, WellFormed(g, 1, W),
         NEW h, Left(g, h, Len(g.scopes), W), h.cur \notin 1 .. Len(g.blk),
         h.blk[h.cur].want.kind # "goto"
  PROVE  Generated(h, nest) /\ WellFormed(h, 1, W) /\ h.msvc = g.msvc /\ NewPlain(g, h)
<1>1. Generated(g, nest)
  BY Visits
<1>2. /\ Changes(g, h) /\ NewPlain(g, h) /\ h.msvc = g.msvc /\ GotosFrom(g, h, Len(g.scopes))
      /\ h.loops = g.loops /\ h.catches = g.catches
  BY LeftSame
<1>3. Clear(h, nest)
  BY <1>1, ClearOk DEF Generated
<1>4. WellFormed(h, 1, W)
  BY DEF Left
<1>5. Generated(h, nest)
  BY <1>1, <1>2, <1>3, <1>4, StayOk
<1> QED
  BY <1>2, <1>4, <1>5

(* break and continue keep the invariant.                                  *)
LEMMA LoopJumpInv ==
  ASSUME IInv, NEW exit \in {"break", "continue"}, LoopJump(exit)
  PROVE  IInv'
<1> DEFINE m == Len(g.scopes)
           t == Last(g.loops)
           stmt == CHOOSE k \in DOMAIN nest : nest[k].kind = "loop"
           w == Jumping(nest, nest[stmt].keep, t[exit])
           x == Want(RunCleanups(g, m, t.scope, t[exit]), g.cur, w)
           h == Continue(x)
<1>1. /\ phase = "visit" /\ g' = h /\ nest' = nest /\ stmts' = stmts + 1
      /\ phase' = phase /\ msvc' = msvc /\ g.loops # <<>>
  BY DEF LoopJump, Visiting, Unfinished, Visited, JumpToClosest, CurrentCleanupScope
<1>2. PICK W : WellFormed(g, 1, W) /\ {NoWant, w} \subseteq W
  BY <1>1, Ghosts
<1>w. NoWant \in W /\ w \in W
  BY <1>2
<1>3. Generated(g, nest)
  BY <1>1, Visits
<1> HIDE DEF w
<1>5. Len(g.blk) \in Nat /\ g.cur \in 1 .. Len(g.blk) /\ m \in Nat
  BY <1>2, Lengths
<1>6. t \in LoopSet(Len(g.blk)) /\ t.scope \in 0 .. m
  <2>1. g.loops \in Seq(LoopSet(Len(g.blk)))
    BY <1>2 DEF WellFormed, FunctionSet
  <2>2. t \in LoopSet(Len(g.blk))
    BY <1>1, <2>1, SeqLast DEF Last
  <2>3. PICK k \in 1 .. Len(nest) : nest[k].kind = "loop" /\ t.scope = nest[k].before
    BY <1>1, <1>3, <2>1, LoopFacts DEF Generated
  <2>4. nest[k].before + Height(nest[k], g.msvc) <= m
    BY <1>3, <1>5, ChainWithin DEF Generated
  <2>5. Height(nest[k], g.msvc) \in Nat /\ nest[k].before \in Nat
    BY <1>3, HeightsOk DEF Generated
  <2>6. nest[k].before \in 0 .. m
    <3> HIDE DEF m
    <3> QED
      BY <1>5, <2>4, <2>5
  <2> QED
    BY <2>2, <2>3, <2>6
<1> HIDE DEF t, x, h
<1>7. t[exit] \in 1 .. Len(g.blk)
  <2>1. t.break \in 1 .. Len(g.blk) /\ t.continue \in 1 .. Len(g.blk)
    BY <1>6 DEF LoopSet
  <2> QED
    BY <2>1
<1>8. Left(g, x, m, W) /\ x.cur = g.cur
  BY <1>2, <1>6, <1>7, <1>w, JumpOk DEF x
<1>9. Left(g, h, m, W) /\ h.cur > Len(g.blk) /\ h.blk[h.cur].want.kind # "goto"
  BY <1>2, <1>8, <1>w, ContinueOk DEF h
<1>10. h.cur \notin 1 .. Len(g.blk)
  BY <1>5, <1>9
<1>11. Generated(h, nest) /\ WellFormed(h, 1, W) /\ h.msvc = g.msvc /\ NewPlain(g, h)
  BY <1>1, <1>2, <1>9, <1>10, StaysPut
<1> QED
  BY <1>1, <1>11, StepInv

-----------------------------------------------------------------------------
(* return                                                                  *)

RetTerm == Term("ret", <<>>, <<>>)
WithReturn(f) ==
  IF f.ret # 0 THEN f
  ELSE LET a == AddBlock(f, Block(RetTerm)) IN WithRet(a, Len(a.blk))

(* The ret instruction is a terminator.                                    *)
LEMMA RetTermOk ==
  ASSUME NEW n \in Nat
  PROVE  RetTerm \in TermSet(1, n) /\ RetTerm.op # "switch"
<1>1. <<>> \in Seq(Nat \cup Classes) /\ <<>> \in Seq(1 .. n) /\ "ret" \in Ops
  BY DEF Ops
<1>2. RetTerm \in TermSet(1, n) /\ RetTerm.op = "ret"
  <2>1. 1 \in {0, 1}
    OBVIOUS
  <2> QED
    BY <1>1, <2>1, Terms DEF RetTerm
<1> QED
  BY <1>2

(* With the shared return block created, or found.                         *)
LEMMA ReturnBlockOk ==
  ASSUME NEW W, NEW f, WellFormed(f, 1, W), NoWant \in W
  PROVE  LET h == WithReturn(f) IN
         /\ WellFormed(h, 1, W) /\ Kept(f, h) /\ h.cur = f.cur /\ Len(h.scopes) = Len(f.scopes)
         /\ h.ret \in 1 .. Len(h.blk)
<1> DEFINE a == AddBlock(f, Block(RetTerm))
           n == Len(a.blk)
           h == WithRet(a, n)
<1>1. Len(f.blk) \in Nat /\ f.ret \in 0 .. Len(f.blk) /\ 1 \in {0, 1} /\ Len(f.scopes) \in Nat
  BY Lengths
<1>2. CASE f.ret # 0
  <2>1. WithReturn(f) = f
    BY <1>2 DEF WithReturn
  <2>2. Kept(f, f) /\ f.ret \in 1 .. Len(f.blk)
    BY <1>1, <1>2 DEF Kept
  <2> QED
    BY <2>1, <2>2
<1>3. CASE f.ret = 0
  <2>1. WithReturn(f) = h
    BY <1>3 DEF WithReturn
  <2>2. RetTerm \in TermSet(1, Len(f.blk) + 1) /\ RetTerm.op # "switch"
    BY <1>1, RetTermOk
  <2>3. WellFormed(a, 1, W) /\ Kept(f, a) /\ Rest(f, a) /\ n = Len(f.blk) + 1
    BY <1>1, <2>2, AddBlockOk
  <2>4. n \in 0 .. Len(a.blk) /\ n \in 1 .. Len(a.blk)
    BY <1>1, <2>3
  <2> HIDE DEF a, n, h
  <2>5. /\ WellFormed(h, 1, W)
        /\ h.msvc = a.msvc /\ h.blk = a.blk /\ h.cur = a.cur
        /\ h.scopes = a.scopes /\ h.catches = a.catches /\ h.gotos = a.gotos
        /\ h.labels = a.labels /\ h.loops = a.loops /\ h.plain = a.plain /\ h.ret = n
    BY <1>1, <2>3, <2>4, PutRet DEF h
  <2>6. Kept(f, h)
    BY <2>3, <2>5 DEF Kept
  <2>7. h.cur = f.cur /\ Len(h.scopes) = Len(f.scopes) /\ h.ret \in 1 .. Len(h.blk)
    BY <2>3, <2>4, <2>5 DEF Rest
  <2> QED
    BY <2>1, <2>5, <2>6, <2>7
<1> QED
  BY <1>2, <1>3

(* The scopes down to cursor t left for the return block.                  *)
Returns(f, w, t) ==
  LET f1 == WithReturn(f) IN PopCleanups(Want(RunCleanups(f1, Len(f.scopes), 0, f1.ret), f.cur, w), t)

(* return with cleanups in scope is a jump to the return block.            *)
LEMMA ReturnsOk ==
  ASSUME NEW W, NEW f, WellFormed(f, 1, W), NoWant \in W, NEW w \in W, NEW t \in 0 .. Len(f.scopes)
  PROVE  Left(f, Returns(f, w, t), t, W)
<1> DEFINE e == WithReturn(f)
           m == Len(f.scopes)
           x == Want(RunCleanups(e, m, 0, e.ret), f.cur, w)
           h == PopCleanups(x, t)
<1>1. Len(f.scopes) \in Nat
  BY Lengths
<1>2. /\ WellFormed(e, 1, W) /\ Kept(f, e) /\ e.cur = f.cur /\ m = Len(e.scopes)
      /\ e.ret \in 1 .. Len(e.blk)
  BY ReturnBlockOk
<1>3. 0 \in 0 .. m /\ t \in 0 .. m
  BY <1>1
<1>e. Returns(f, w, t) = h
  BY DEF Returns
<1> HIDE DEF e, m, x, h
<1>4. Left(e, x, m, W) /\ x.cur = e.cur /\ x.gotos = e.gotos
  BY <1>2, <1>3, JumpOk DEF x
<1>5. Left(e, h, t, W)
  BY <1>2, <1>3, <1>4, PopsLeft DEF h
<1> QED
  BY <1>2, <1>5, <1>e, LeftKept

(* Without a scope the function returns at once.                           *)
LEMMA ReturnsAtOnce ==
  ASSUME NEW W, NEW f, WellFormed(f, 1, W)
  PROVE  Left(f, SetTerm(f, f.cur, RetTerm), Len(f.scopes), W)
<1> DEFINE h == SetTerm(f, f.cur, RetTerm)
<1>1. f.cur \in 1 .. Len(f.blk) /\ 1 \in {0, 1} /\ Len(f.blk) \in Nat
  BY Lengths
<1>2. RetTerm \in TermSet(1, Len(f.blk)) /\ RetTerm.op # "switch"
  BY <1>1, RetTermOk
<1>3. WellFormed(h, 1, W) /\ Kept(f, h) /\ Rest(f, h)
  BY <1>1, <1>2, SetTermOk
<1> HIDE DEF h
<1>4. h.gotos = f.gotos /\ Len(h.scopes) = Len(f.scopes)
  BY <1>3 DEF Kept
<1>5. GotosFrom(f, h, Len(f.scopes))
  BY <1>4, SameGotos
<1>6. WantsOf(f, h, (1 .. Len(f.blk)) \ {f.cur})
  BY <1>3 DEF Kept, WantsOf
<1> QED
  BY <1>3, <1>5, <1>6 DEF Left, Kept, h

(* Return, in a full expression or not, keeps the invariant.               *)
LEMMA ReturnInv ==
  ASSUME IInv, Return
  PROVE  IInv'
<1> DEFINE m == Len(g.scopes)
           t == IF InExpression THEN Last(nest).before ELSE m
           w == Jumping(nest, <<>>, WithReturn(g).ret)
           x == IF m # 0 THEN Returns(g, w, t) ELSE SetTerm(g, g.cur, RetTerm)
           h == Continue(x)
<1>1. /\ phase = "visit" /\ nest' = (IF InExpression THEN Front(nest) ELSE nest)
      /\ phase' = phase /\ msvc' = msvc /\ stmts' = stmts + 1 /\ g' = h
  BY DEF Return, CurrentCleanupScope, Visited, Visiting, Unfinished, WithReturn, LastBlock, WithRet,
         Returns, RetTerm
<1>2. PICK W : WellFormed(g, 1, W) /\ {NoWant, w} \subseteq W
  BY <1>1, Ghosts
<1>w. NoWant \in W /\ w \in W
  BY <1>2
<1>3. Generated(g, nest)
  BY <1>1, Visits
<1>4. Len(g.blk) \in Nat /\ m \in Nat
  BY <1>2, Lengths
<1>5. t \in 0 .. m
  <2>1. CASE InExpression
    <3>1. nest # <<>>
      BY <2>1 DEF InExpression
    <3>2. Last(nest).before \in 0 .. m
      BY <1>2, <1>3, <3>1, Innermost
    <3> QED
      BY <2>1, <3>2
  <2>2. CASE ~InExpression
    BY <1>4, <2>2
  <2> QED
    BY <2>1, <2>2
<1>6. t = IF InExpression THEN Last(nest).before ELSE m
  OBVIOUS
<1>7. m = Len(g.scopes)
  OBVIOUS
<1> HIDE DEF w, t, m, x, h
<1>8. Left(g, x, t, W)
  <2>1. CASE m # 0
    BY <1>2, <1>5, <1>7, <1>w, <2>1, ReturnsOk DEF x
  <2>2. CASE m = 0
    <3>1. t = Len(g.scopes)
      BY <1>5, <1>7, <2>2
    <3>2. Left(g, SetTerm(g, g.cur, RetTerm), Len(g.scopes), W)
      BY <1>2, ReturnsAtOnce
    <3> QED
      BY <2>2, <3>1, <3>2 DEF x
  <2> QED
    BY <2>1, <2>2
<1>9. Left(g, h, t, W) /\ h.cur > Len(g.blk) /\ h.blk[h.cur].want.kind # "goto"
  BY <1>2, <1>8, <1>w, ContinueOk DEF h
<1>10. h.cur \notin 1 .. Len(g.blk)
  BY <1>4, <1>9
<1>11. Generated(h, nest') /\ WellFormed(h, 1, W) /\ h.msvc = g.msvc /\ NewPlain(g, h)
  <2>1. CASE InExpression
    <3>1. Left(g, h, Last(nest).before, W)
      BY <1>6, <1>9, <2>1
    <3> QED
      BY <1>1, <1>2, <1>9, <1>10, <2>1, <3>1, LeavesExpression
  <2>2. CASE ~InExpression
    <3>1. Left(g, h, Len(g.scopes), W)
      BY <1>6, <1>7, <1>9, <2>2
    <3> QED
      BY <1>1, <1>2, <1>9, <1>10, <2>2, <3>1, StaysPut
  <2> QED
    BY <2>1, <2>2
<1> QED
  BY <1>1, <1>11, StepInv

-----------------------------------------------------------------------------
(* goto                                                                    *)

(* The elements of a prefix.                                               *)
LEMMA PrefixRange ==
  ASSUME NEW T, NEW s \in Seq(T), NEW U, NEW t \in Seq(U), IsPrefix(s, t)
  PROVE  Range(s) \subseteq Range(t)
<1>1. Len(s) <= Len(t) /\ SubSeq(s, 1, Len(s)) = SubSeq(t, 1, Len(s))
  BY DEF IsPrefix
<1>2. Len(s) \in Nat /\ Len(t) \in Nat /\ DOMAIN s = 1 .. Len(s) /\ DOMAIN t = 1 .. Len(t)
  OBVIOUS
<1> SUFFICES ASSUME NEW i \in 1 .. Len(s) PROVE \E k \in 1 .. Len(t) : s[i] = t[k]
  BY <1>2 DEF Range
<1>3. i \in 1 .. Len(t)
  BY <1>1, <1>2
<1>4. SubSeq(s, 1, Len(s))[i] = s[i]
  BY <1>2
<1>5. SubSeq(t, 1, Len(s))[i] = t[i]
  BY <1>1, <1>2, <1>3
<1> QED
  BY <1>1, <1>3, <1>4, <1>5

(* The visitor goes on in a new block.                                     *)
LEMMA ContinueKept ==
  ASSUME NEW W, NoWant \in W, NEW f, WellFormed(f, 1, W)
  PROVE  LET h == Continue(f) IN
         /\ WellFormed(h, 1, W) /\ Kept(f, h) /\ h.cur = Len(f.blk) + 1
         /\ h.blk[h.cur].want.kind # "goto"
<1> DEFINE x == NewBlock(f)
           n == Len(x.blk)
           h == WithCur(x, n)
<1>1. /\ WellFormed(x, 1, W) /\ Kept(f, x) /\ n = Len(f.blk) + 1
      /\ x.blk[n].want = NoWant
  BY NewBlockFacts
<1>2. Len(f.blk) \in Nat /\ 1 \in {0, 1}
  BY Lengths
<1>3. n \in 1 .. Len(x.blk)
  BY <1>1, <1>2
<1>e. Continue(f) = h
  BY DEF Continue, LastBlock, WithCur
<1> HIDE DEF x, n, h
<1>4. WellFormed(h, 1, W) /\ Kept(x, h) /\ h.cur = n /\ h.blk = x.blk
  BY <1>1, <1>2, <1>3, SetCurOk DEF h
<1>5. Kept(f, h)
  BY <1>1, <1>4 DEF Kept
<1> QED
  BY <1>1, <1>4, <1>5, <1>e, NoWantKind

(* The block of a label exists.                                            *)
LEMMA LabelTarget ==
  ASSUME NEW W, NEW f, WellFormed(f, 1, W), NEW l \in DOMAIN f.labels
  PROVE  f.labels[l].bb \in 1 .. Len(f.blk)
<1> DEFINE n == Len(f.blk)
<1>1. f.labels \in LabelMap(n)
  BY DEF WellFormed, FunctionSet
<1>2. PICK D : f.labels \in [D -> LabelSet(n)]
  BY <1>1 DEF LabelMap
<1>3. f.labels[l] \in LabelSet(n)
  BY <1>2
<1> QED
  BY <1>3 DEF LabelSet

(* A label that was seen: the scopes above it are left.                    *)
LEMMA GotoSeen ==
  ASSUME IInv, NEW l, Goto(l), l \in DOMAIN g.labels
  PROVE  IInv'
<1> DEFINE m == Len(g.scopes)
           t == g.labels[l].scope
           b == g.labels[l].bb
           w == Going(nest, l)
           x == Want(RunCleanups(g, m, t, b), g.cur, w)
           h == Continue(x)
<1>1. /\ phase = "visit" /\ g' = h /\ nest' = nest /\ stmts' = stmts + 1
      /\ phase' = phase /\ msvc' = msvc /\ IsPrefix(g.labels[l].tries, TryBlocks(nest))
  BY DEF Goto, Visiting, Unfinished, Visited, JumpToLabel, CurrentCleanupScope
<1>2. PICK W : WellFormed(g, 1, W) /\ {NoWant, w} \subseteq W
  BY <1>1, Ghosts
<1>w. NoWant \in W /\ w \in W
  BY <1>2
<1>3. Generated(g, nest)
  BY <1>1, Visits
<1>5. Len(g.blk) \in Nat /\ g.cur \in 1 .. Len(g.blk) /\ m \in Nat
  BY <1>2, Lengths
<1>6. t \in 0 .. m
  <2>1. t \in Nat /\ g.labels[l].tries \in Seq(1 .. Len(g.blk))
    BY <1>2, LabelFacts
  <2>2. TryBlocks(nest) \in Seq(1 .. Len(g.blk))
    BY <1>3, TryBlocksOk DEF Generated
  <2>3. ~ Lost(g.labels[l], nest)
    BY <1>1, <2>1, <2>2, PrefixRange DEF Lost
  <2>4. LabelOK(g.labels[l], m, g.msvc, nest)
    BY <1>3 DEF Generated, LabelsOK
  <2>5. t <= m
    BY <2>3, <2>4 DEF LabelOK
  <2> HIDE DEF t, m
  <2> QED
    BY <1>5, <2>1, <2>5
<1>7. b \in 1 .. Len(g.blk)
  BY <1>2, LabelTarget
<1> HIDE DEF w, x, h, t, b
<1>8. Left(g, x, m, W)
  BY <1>2, <1>6, <1>7, <1>w, JumpOk DEF x
<1>9. Left(g, h, m, W) /\ h.cur > Len(g.blk) /\ h.blk[h.cur].want.kind # "goto"
  BY <1>2, <1>8, <1>w, ContinueOk DEF h
<1>10. h.cur \notin 1 .. Len(g.blk)
  BY <1>5, <1>9
<1>11. Generated(h, nest) /\ WellFormed(h, 1, W) /\ h.msvc = g.msvc /\ NewPlain(g, h)
  BY <1>1, <1>2, <1>9, <1>10, StaysPut
<1> QED
  BY <1>1, <1>11, StepInv

(* A goto that has to wait is registered in the innermost scope.           *)
Registers(f, h, l, w, W) ==
  /\ WellFormed(h, 1, W) /\ h.msvc = f.msvc /\ h.catches = f.catches /\ h.labels = f.labels
  /\ h.loops = f.loops /\ h.plain = f.plain /\ Len(h.blk) >= Len(f.blk)
  /\ WantsOf(f, h, (1 .. Len(f.blk)) \ {f.cur}) /\ h.blk[f.cur].want = w
  /\ Len(h.scopes) = Len(f.scopes)
  /\ \A k \in 1 .. Len(f.scopes) : h.gotos[k] = f.gotos[k]
  /\ Range(h.gotos[Len(f.scopes) + 1]) \subseteq
       Range(f.gotos[Len(f.scopes) + 1]) \cup {Waiting(f, l)}

(* A goto whose label was not seen waits, and the visitor goes on in a new *)
(* block.                                                                  *)
LEMMA RegistersOk ==
  ASSUME NEW W, NEW f, WellFormed(f, 1, W), NoWant \in W, NEW l \in Labels, NEW w \in W
  PROVE  LET h == Continue(Want(RegisterUnresolvedGoto(f, l), f.cur, w)) IN
         Registers(f, h, l, w, W) /\ h.cur > Len(f.blk) /\ h.blk[h.cur].want.kind # "goto"
<1> DEFINE e == RegisterUnresolvedGoto(f, l)
           x == Want(e, f.cur, w)
           h == Continue(x)
<1>1. Len(f.blk) \in Nat /\ f.cur \in 1 .. Len(f.blk) /\ 1 \in {0, 1}
  BY Lengths
<1>2. /\ WellFormed(e, 1, W) /\ Carries(f, e) /\ Len(e.scopes) = Len(f.scopes)
      /\ \A k \in 1 .. Len(f.scopes) : e.gotos[k] = f.gotos[k]
      /\ Range(e.gotos[Len(f.scopes) + 1]) \subseteq
           Range(f.gotos[Len(f.scopes) + 1]) \cup {Waiting(f, l)}
  BY RegisterUnresolvedGotoOk
<1> HIDE DEF e, x, h
<1>3. /\ Len(e.blk) \in Nat /\ Len(e.blk) >= Len(f.blk) /\ f.cur \in 1 .. Len(e.blk)
      /\ 1 .. Len(f.blk) \subseteq 1 .. Len(e.blk)
  <2>1. Len(e.blk) \in Nat
    BY <1>1, <1>2, Lengths
  <2> QED
    BY <1>1, <1>2, <2>1 DEF Carries
<1>4. /\ WellFormed(x, 1, W) /\ Rest(e, x) /\ Len(x.blk) = Len(e.blk)
      /\ \A c \in 1 .. Len(e.blk) : x.blk[c].want = IF c = f.cur THEN w ELSE e.blk[c].want
  BY <1>1, <1>2, <1>3, WantOk DEF x
<1>5. /\ WellFormed(h, 1, W) /\ Kept(x, h) /\ h.cur = Len(x.blk) + 1
      /\ h.blk[h.cur].want.kind # "goto"
  BY <1>4, ContinueKept DEF h
<1>6. Len(h.blk) >= Len(f.blk) /\ h.cur > Len(f.blk)
  <2>1. Len(h.blk) \in Nat
    BY <1>1, <1>5, Lengths
  <2> QED
    BY <1>1, <1>3, <1>4, <1>5, <2>1 DEF Kept
<1>7. \A c \in 1 .. Len(f.blk) : h.blk[c].want = IF c = f.cur THEN w ELSE f.blk[c].want
  BY <1>2, <1>3, <1>4, <1>5 DEF Kept, Carries
<1>8. WantsOf(f, h, (1 .. Len(f.blk)) \ {f.cur}) /\ h.blk[f.cur].want = w
  BY <1>1, <1>7 DEF WantsOf
<1>9. h.gotos = e.gotos /\ Len(h.scopes) = Len(e.scopes)
  BY <1>4, <1>5 DEF Kept, Rest
<1>10. /\ h.msvc = f.msvc /\ h.catches = f.catches /\ h.labels = f.labels
       /\ h.loops = f.loops /\ h.plain = f.plain
  BY <1>2, <1>4, <1>5 DEF Kept, Rest, Carries
<1>11. Registers(f, h, l, w, W)
  BY <1>2, <1>5, <1>6, <1>8, <1>9, <1>10 DEF Registers
<1> QED
  BY <1>5, <1>6, <1>11 DEF e, x, h

(* The fields of a goto's ghost.                                           *)
LEMMA GoingOk ==
  ASSUME NEW n, NEW l
  PROVE  LET w == Going(n, l) IN w.kind = "goto" /\ w.label = l /\ w.tries = TryBlocks(n)
BY DEF Going

(* The new goto waits rightly, and those that were there do.               *)
LEMMA RegistersGotos ==
  ASSUME NEW W, NEW f, WellFormed(f, 1, W), NEW n, Generated(f, n), NEW l, l \notin DOMAIN f.labels,
         NEW h, Registers(f, h, l, Going(n, l), W), Changes(f, h)
  PROVE  GotosOK(h, n)
<1> DEFINE m == Len(f.scopes)
<1>1. /\ NestOK(Len(f.blk), n) /\ Chain(m, f.msvc, n) /\ Distinct(f, n) /\ GotosOK(f, n)
  BY DEF Generated
<1>2. /\ Len(f.blk) \in Nat /\ Len(h.blk) \in Nat /\ m \in Nat /\ WellFormed(h, 1, W)
      /\ Len(h.blk) >= Len(f.blk) /\ h.msvc = f.msvc /\ h.labels = f.labels
      /\ Len(h.scopes) = m
  <2>1. WellFormed(h, 1, W) /\ 1 \in {0, 1}
    BY DEF Registers
  <2>2. /\ Len(f.blk) \in Nat /\ Len(h.blk) \in Nat /\ m \in Nat
    BY <2>1, Lengths
  <2> QED
    BY <2>1, <2>2 DEF Registers
<1>3. Len(f.gotos) = m + 1 /\ Len(h.gotos) = m + 1
  BY <1>2, GotoFacts
<1>4. f.blk[f.cur].want.kind # "goto"
  BY <1>1 DEF Distinct
<1>o. Outside(TryBlocks(n), m + 1, f.msvc, n)
  <2>1. \A k \in 1 .. Len(n) : n[k].before + Height(n[k], f.msvc) <= m
    BY <1>1, <1>2, ChainWithin
  <2> HIDE DEF m
  <2> QED
    BY <1>1, <1>2, <2>1, OutsideTop
<1>w. LET w == Going(n, l) IN w.kind = "goto" /\ w.label = l /\ w.tries = TryBlocks(n)
  BY GoingOk
<1>t. TryBlocks(n) \in Seq(1 .. Len(h.blk))
  <2>1. NestOK(Len(h.blk), n)
    BY <1>1, <1>2, NestWidens
  <2> QED
    BY <2>1, TryBlocksOk
<1> SUFFICES ASSUME NEW c \in 1 .. m + 1, NEW j \in Range(h.gotos[c])
             PROVE  Waits(h, n, c, j)
  BY <1>3 DEF GotosOK
<1>5. j \in Range(f.gotos[c]) \/ (c = m + 1 /\ j = Waiting(f, l))
  <2>1. c \in 1 .. m \/ c = m + 1
    BY <1>2
  <2> QED
    BY <2>1 DEF Registers
<1>6. CASE j \in Range(f.gotos[c])
  <2>1. Waits(f, n, c, j)
    BY <1>1, <1>3, <1>6 DEF GotosOK
  <2>2. f.gotos[c] \in Seq(GotoSet(Len(f.blk)))
    BY <1>3, GotoFacts
  <2>3. j \in GotoSet(Len(f.blk))
    BY <1>6, <2>2, RangeWithin
  <2>4. j.src \in 1 .. Len(f.blk)
    BY <2>3 DEF GotoSet
  <2>5. Seeks(h, j) /\ h.blk[j.src].want = f.blk[j.src].want
    BY <1>2, <1>4, <2>1, <2>4, SeeksStay DEF Waits
  <2> QED
    BY <1>2, <2>1, <2>5 DEF Waits
<1>7. CASE c = m + 1 /\ j = Waiting(f, l)
  <2>1. j.src = f.cur /\ j.label = l
    BY <1>7 DEF Waiting
  <2>2. h.blk[j.src].want = Going(n, l)
    BY <2>1 DEF Registers
  <2>3. Seeks(h, j)
    BY <1>2, <1>t, <1>w, <2>1, <2>2 DEF Seeks
  <2> QED
    BY <1>2, <1>7, <1>o, <1>w, <2>2, <2>3 DEF Waits
<1> QED
  BY <1>5, <1>6, <1>7

(* A step that opens and ends no statement, but for the gotos.             *)
LEMMA StayBut ==
  ASSUME NEW W, NEW f, WellFormed(f, 1, W), NEW h, WellFormed(h, 1, W), NEW n, Generated(f, n),
         Changes(f, h), Len(h.scopes) = Len(f.scopes), h.loops = f.loops, h.catches = f.catches,
         Clear(h, n), GotosOK(h, n)
  PROVE  Generated(h, n)
<1>1. /\ NestOK(Len(f.blk), n) /\ Chain(Len(f.scopes), f.msvc, n) /\ Apart(n) /\ Distinct(f, n)
      /\ LoopsOK(f.loops, n) /\ CatchesOK(f.catches, n)
      /\ LabelsOK(f.labels, Len(f.scopes), f.msvc, n)
  BY DEF Generated
<1>2. /\ Len(f.blk) \in Nat /\ Len(h.blk) \in Nat /\ Len(f.scopes) \in Nat
  BY Lengths
<1>3. Len(h.blk) >= Len(f.blk) /\ h.msvc = f.msvc /\ h.labels = f.labels
  BY DEF Changes
<1>4. NestOK(Len(h.blk), n)
  BY <1>1, <1>2, <1>3, NestWidens
<1>6. Distinct(h, n)
  BY <1>1, StayDistinct
<1> QED
  BY <1>1, <1>3, <1>4, <1>6 DEF Generated

(* Goto to a label that was not seen keeps the invariant.                  *)
LEMMA GotoUnseen ==
  ASSUME IInv, NEW l \in Labels, Goto(l), l \notin DOMAIN g.labels
  PROVE  IInv'
<1> DEFINE w == Going(nest, l)
           h == Continue(Want(RegisterUnresolvedGoto(g, l), g.cur, w))
<1>1. /\ phase = "visit" /\ g' = h /\ nest' = nest /\ stmts' = stmts + 1
      /\ phase' = phase /\ msvc' = msvc
  BY DEF Goto, Visiting, Unfinished, Visited, JumpToLabel
<1>2. PICK W : WellFormed(g, 1, W) /\ {NoWant, w} \subseteq W
  BY <1>1, Ghosts
<1>w. NoWant \in W /\ w \in W
  BY <1>2
<1>3. Generated(g, nest)
  BY <1>1, Visits
<1>4. Len(g.blk) \in Nat
  BY <1>2, Lengths
<1>5. Registers(g, h, l, w, W) /\ h.cur > Len(g.blk) /\ h.blk[h.cur].want.kind # "goto"
  <2> HIDE DEF w
  <2> QED
    BY <1>2, <1>w, RegistersOk
<1> HIDE DEF h
<1>6. Changes(g, h) /\ NewPlain(g, h)
  BY <1>5 DEF Registers, Changes, NewPlain
<1>7. h.cur \notin 1 .. Len(g.blk)
  BY <1>4, <1>5
<1>8. Clear(h, nest)
  BY <1>3, <1>7, ClearOk DEF Generated
<1>9. GotosOK(h, nest)
  BY <1>2, <1>3, <1>5, <1>6, RegistersGotos
<1>10. /\ WellFormed(h, 1, W) /\ h.msvc = g.msvc /\ Len(h.scopes) = Len(g.scopes)
       /\ h.loops = g.loops /\ h.catches = g.catches
  BY <1>5 DEF Registers
<1>11. Generated(h, nest)
  BY <1>2, <1>3, <1>6, <1>8, <1>9, <1>10, StayBut
<1> QED
  BY <1>1, <1>6, <1>10, <1>11, StepInv

-----------------------------------------------------------------------------
(* Labels                                                                  *)

(* Bind sets one value and keeps the others.                               *)
LEMMA BindOk ==
  ASSUME NEW S, NEW D, NEW fun \in [D -> S], NEW x, NEW v \in S
  PROVE  LET b == Bind(fun, x, v) IN
         /\ b \in [D \cup {x} -> S] /\ b[x] = v
         /\ \A y \in D : y # x => b[y] = fun[y]
BY DEF Bind

(* A label here is out of reach of the gotos that wait in outer scopes.    *)
LEMMA NotBelow ==
  ASSUME NEW N, NEW n, NestOK(N, n), NoExpression(n), NEW eh, NEW m \in Nat, Chain(m, eh, n),
         NEW c \in 1 .. m, NEW U, NEW tries \in Seq(U), Outside(tries, c, eh, n)
  PROVE  ~ IsPrefix(TryBlocks(n), tries)
<1>1. PICK k \in 1 .. Len(n) : n[k].before < c /\ c <= n[k].before + Height(n[k], eh)
  BY DEF Chain
<1>2. StatementOK(n[k], N) /\ n[k].kind # "expr"
  BY DEF NestOK, NoExpression
<1>3. /\ Height(n[k], eh) \in Nat /\ n[k].before \in Nat /\ Height(n[k], eh) <= 1
      /\ Height(n[k], eh) > 0 => \E x : x \in Ids(n[k])
  BY <1>2, HeightOk
<1>4. n[k].before + 1 >= c /\ Height(n[k], eh) > 0
  BY <1>1, <1>3
<1>5. PICK x : x \in Ids(n[k])
  BY <1>3, <1>4
<1>6. x \notin Range(tries)
  BY <1>4, <1>5 DEF Outside
<1>7. TryBlocks(n) \in Seq(1 .. N) /\ x \in Range(TryBlocks(n))
  BY <1>5, TryBlocksOk
<1> QED
  BY <1>6, <1>7, PrefixRange

(* The label l with the given target is in block bb, a new one, where the  *)
(* visitor goes on; the gotos of this scope that wait for it are resolved. *)
Places(f, h, l, target, W) ==
  /\ WellFormed(h, 1, W) /\ h.msvc = f.msvc /\ h.catches = f.catches
  /\ h.loops = f.loops /\ h.plain = f.plain /\ Len(h.blk) >= Len(f.blk)
  /\ WantsOf(f, h, 1 .. Len(f.blk))
  /\ h.cur = Len(f.blk) + 1 /\ h.blk[h.cur].want.kind # "goto"
  /\ Len(h.scopes) = Len(f.scopes)
  /\ h.labels = Bind(f.labels, l, target)
  /\ \A k \in 1 .. Len(f.scopes) : h.gotos[k] = f.gotos[k]
  /\ \A j \in Range(h.gotos[Len(f.scopes) + 1]) :
       j \in Range(f.gotos[Len(f.scopes) + 1]) /\ j.label # l

Placed(f, l, target, bb) ==
  WithCur(SetTerm(TryResolveGotos(WithLabels(NewBlock(f), Bind(f.labels, l, target)), l, bb),
                  f.cur, Br(bb)), bb)

(* The labels with one more.                                               *)
LEMMA LabelMapBind ==
  ASSUME NEW n, NEW labels \in LabelMap(n), NEW l \in Labels, NEW target \in LabelSet(n)
  PROVE  Bind(labels, l, target) \in LabelMap(n)
<1>1. PICK D \in SUBSET Labels : labels \in [D -> LabelSet(n)]
  BY DEF LabelMap
<1>2. Bind(labels, l, target) \in [D \cup {l} -> LabelSet(n)]
  BY <1>1, BindOk
<1>3. D \cup {l} \in SUBSET Labels
  BY <1>1
<1> QED
  BY <1>2, <1>3 DEF LabelMap

(* Label: the new block, the label, the resolved gotos and the branch to   *)
(* the block.                                                              *)
LEMMA PlacedOk ==
  ASSUME NEW W, NEW f, WellFormed(f, 1, W), NoWant \in W, NEW l \in Labels,
         NEW bb, bb = Len(f.blk) + 1, NEW target \in LabelSet(bb)
  PROVE  Places(f, Placed(f, l, target, bb), l, target, W)
<1> DEFINE x == NewBlock(f)
           L == Bind(f.labels, l, target)
           y == WithLabels(x, L)
           e == TryResolveGotos(y, l, bb)
           v == SetTerm(e, f.cur, Br(bb))
           h == WithCur(v, bb)
           m == Len(f.scopes)
<1>1. Len(f.blk) \in Nat /\ f.cur \in 1 .. Len(f.blk) /\ 1 \in {0, 1} /\ m \in Nat
  BY Lengths
<1>2. /\ WellFormed(x, 1, W) /\ Kept(f, x) /\ Rest(f, x) /\ Len(x.blk) = bb
      /\ x.blk[bb].want = NoWant
  BY NewBlockFacts
<1>3. bb \in 1 .. Len(x.blk) /\ f.cur \in 1 .. Len(x.blk)
  BY <1>1, <1>2
<1>4. L \in LabelMap(Len(x.blk))
  <2>1. x.labels \in LabelMap(Len(x.blk)) /\ x.labels = f.labels
    BY <1>2 DEF WellFormed, FunctionSet, Rest
  <2> HIDE DEF x
  <2> QED
    BY <1>2, <2>1, LabelMapBind
<1>e. Placed(f, l, target, bb) = h
  BY DEF Placed
<1> HIDE DEF x, L, y, e, v, h, m
<1>5. /\ WellFormed(y, 1, W) /\ y.msvc = x.msvc /\ y.blk = x.blk /\ y.cur = x.cur
      /\ y.scopes = x.scopes /\ y.catches = x.catches /\ y.gotos = x.gotos
      /\ y.loops = x.loops /\ y.plain = x.plain /\ y.labels = L
  BY <1>1, <1>2, <1>4, PutLabels DEF y
<1>6. /\ WellFormed(e, 1, W) /\ Carries(y, e) /\ Len(e.scopes) = Len(y.scopes)
      /\ Len(e.blk) = Len(y.blk)
      /\ OnTop(y, e, Others(y.gotos[Len(y.scopes) + 1], l))
  <2>1. bb \in 1 .. Len(y.blk)
    BY <1>3, <1>5
  <2> QED
    BY <1>5, <2>1, TryResolveGotosOk DEF e
<1>7. f.cur \in 1 .. Len(e.blk) /\ bb \in 1 .. Len(e.blk)
  BY <1>3, <1>5, <1>6
<1>8. WellFormed(v, 1, W) /\ Kept(e, v) /\ Rest(e, v) /\ Len(v.blk) = Len(e.blk)
  BY <1>1, <1>6, <1>7, BrOk DEF v
<1>9. /\ WellFormed(h, 1, W) /\ Kept(v, h) /\ h.cur = bb /\ h.blk = v.blk
      /\ h.scopes = v.scopes
  <2>1. bb \in 1 .. Len(v.blk)
    BY <1>7, <1>8
  <2> QED
    BY <1>1, <1>8, <2>1, SetCurOk DEF h
<1>10. \A b \in 1 .. bb : h.blk[b].want = x.blk[b].want
  <2>1. Len(y.blk) = bb /\ Len(e.blk) = bb
    BY <1>2, <1>5, <1>6
  <2> QED
    BY <1>5, <1>6, <1>8, <1>9, <2>1 DEF Carries, Kept
<1>11. WantsOf(f, h, 1 .. Len(f.blk)) /\ h.blk[h.cur].want.kind # "goto"
  <2>1. \A b \in 1 .. Len(f.blk) : b \in 1 .. bb
    BY <1>1
  <2>2. bb \in 1 .. bb
    BY <1>2, <1>3
  <2> QED
    BY <1>2, <1>9, <1>10, <2>1, <2>2, NoWantKind DEF WantsOf, Kept
<1>12. Len(h.blk) >= Len(f.blk)
  <2>1. Len(h.blk) = bb
    BY <1>2, <1>5, <1>6, <1>8, <1>9
  <2> QED
    BY <1>1, <2>1
<1>13. /\ h.msvc = f.msvc /\ h.catches = f.catches /\ h.loops = f.loops /\ h.plain = f.plain
       /\ Len(h.scopes) = m /\ h.labels = L
  BY <1>2, <1>5, <1>6, <1>8, <1>9 DEF Kept, Carries, Rest, m
<1>14. h.gotos = e.gotos /\ y.gotos = f.gotos /\ Len(y.scopes) = m
  BY <1>2, <1>5, <1>8, <1>9 DEF Kept, Rest, m
<1>15. \A k \in 1 .. m : h.gotos[k] = f.gotos[k]
  BY <1>6, <1>14 DEF OnTop
<1>16. h.gotos[m + 1] = Others(f.gotos[m + 1], l)
  BY <1>6, <1>14 DEF OnTop
<1>17. \A j \in Range(h.gotos[m + 1]) : j \in Range(f.gotos[m + 1]) /\ j.label # l
  <2>1. f.gotos[m + 1] \in Seq(GotoSet(Len(f.blk)))
    <3>1. m + 1 \in 1 .. m + 1
      BY <1>1
    <3>2. \A k \in 1 .. m + 1 : f.gotos[k] \in Seq(GotoSet(Len(f.blk)))
      BY GotoFacts DEF m
    <3> QED
      BY <3>1, <3>2
  <2>2. Range(Others(f.gotos[m + 1], l)) \subseteq {j \in Range(f.gotos[m + 1]) : j.label # l}
    BY <2>1, OthersOk
  <2> QED
    BY <1>16, <2>2
<1>18. h.cur = Len(f.blk) + 1
  BY <1>9
<1> QED
  BY <1>9, <1>11, <1>12, <1>13, <1>15, <1>17, <1>18, <1>e DEF Places, L, m

LabelHere(n, bb, m) == [bb |-> bb, scope |-> m, keep |-> InScope(n), tries |-> TryBlocks(n)]

(* The new label is in the scopes around the visitor.                      *)
LEMMA LabelHereOk ==
  ASSUME NEW N, NEW n, NestOK(N, n), NoExpression(n), NEW eh, NEW bb, NEW m \in Nat
  PROVE  LabelOK(LabelHere(n, bb, m), m, eh, n)
<1> DEFINE t == LabelHere(n, bb, m)
<1>1. t.scope = m /\ t.tries = TryBlocks(n)
  BY DEF LabelHere
<1> HIDE DEF t
<1>2. \A k \in 1 .. Len(n) : Ids(n[k]) \subseteq Range(TryBlocks(n))
  BY TryBlocksOk
<1>3. t.scope <= m /\ \A k \in 1 .. Len(n) :
             n[k].before < t.scope /\ Height(n[k], eh) > 0 => Ids(n[k]) \subseteq Range(t.tries)
  BY <1>1, <1>2
<1>4. \A k \in 1 .. Len(n) : n[k].kind = "expr" => Ids(n[k]) \cap Range(t.tries) = {}
  BY DEF NoExpression
<1> QED
  BY <1>3, <1>4 DEF LabelOK, t

(* The labels aside, the step leaves alone what it should.                 *)
LEMMA PlacesChanges ==
  ASSUME NEW W, NEW f, WellFormed(f, 1, W), NEW l, NEW t, NEW h, Places(f, h, l, t, W)
  PROVE  LET u == WithLabels(h, f.labels) IN
         Changes(f, u) /\ u.blk = h.blk /\ u.cur = h.cur /\ u.labels = f.labels
<1> DEFINE u == WithLabels(h, f.labels)
<1>1. WellFormed(h, 1, W) /\ Len(h.blk) >= Len(f.blk) /\ 1 \in {0, 1}
  BY DEF Places
<1>2. Len(f.blk) \in Nat /\ Len(h.blk) \in Nat
  BY <1>1, Lengths
<1>3. f.labels \in LabelMap(Len(h.blk))
  <2>1. f.labels \in LabelMap(Len(f.blk))
    BY DEF WellFormed, FunctionSet
  <2>2. LabelMap(Len(f.blk)) \subseteq LabelMap(Len(h.blk))
    <3> DEFINE a == Len(f.blk)
               b == Len(h.blk)
    <3>1. a \in Nat /\ b \in Nat /\ a <= b
      BY <1>1, <1>2
    <3> HIDE DEF a, b
    <3>2. LabelMap(a) \subseteq LabelMap(b)
      BY <1>1, <3>1, Widen
    <3> QED
      BY <3>2 DEF a, b
  <2> QED
    BY <2>1, <2>2
<1> HIDE DEF u
<1>4. /\ WellFormed(u, 1, W) /\ u.msvc = h.msvc /\ u.blk = h.blk /\ u.cur = h.cur
      /\ u.labels = f.labels
  BY <1>1, <1>3, PutLabels DEF u
<1>5. Changes(f, u)
  BY <1>1, <1>4 DEF Changes, Places, WantsOf
<1> QED
  BY <1>4, <1>5 DEF u

(* A label resolves only gotos it may resolve; those of outer scopes       *)
(* cannot mean it.                                                         *)
LEMMA PlacesGotos ==
  ASSUME NEW W, NEW f, WellFormed(f, 1, W), NEW n, Generated(f, n), NoExpression(n), NEW l,
         NEW bb, NEW h, Places(f, h, l, LabelHere(n, bb, Len(f.scopes)), W)
  PROVE  GotosOK(h, n)
<1> DEFINE m == Len(f.scopes)
           t == LabelHere(n, bb, m)
           u == WithLabels(h, f.labels)
<1>1. /\ NestOK(Len(f.blk), n) /\ Chain(m, f.msvc, n) /\ Distinct(f, n) /\ GotosOK(f, n)
  BY DEF Generated
<1>p. Places(f, h, l, t, W)
  OBVIOUS
<1>t. t.tries = TryBlocks(n)
  BY DEF LabelHere
<1> HIDE DEF t
<1>2. /\ Len(f.blk) \in Nat /\ Len(h.blk) \in Nat /\ m \in Nat /\ WellFormed(h, 1, W)
      /\ Len(h.blk) >= Len(f.blk) /\ h.msvc = f.msvc
      /\ Len(h.scopes) = m
  <2>1. WellFormed(h, 1, W) /\ 1 \in {0, 1}
    BY <1>p DEF Places
  <2>2. /\ Len(f.blk) \in Nat /\ Len(h.blk) \in Nat /\ m \in Nat
    BY <2>1, Lengths
  <2> QED
    BY <1>p, <2>1, <2>2 DEF Places
<1>3. Len(f.gotos) = m + 1 /\ Len(h.gotos) = m + 1
  BY <1>2, GotoFacts
<1>4. f.blk[f.cur].want.kind # "goto"
  BY <1>1 DEF Distinct
<1>u. Changes(f, u) /\ u.blk = h.blk /\ u.labels = f.labels /\ Len(u.blk) \in Nat
  BY <1>2, <1>p, PlacesChanges
<1>b. h.labels[l] = t /\ DOMAIN h.labels = DOMAIN f.labels \cup {l}
      /\ \A x \in DOMAIN f.labels : x # l => h.labels[x] = f.labels[x]
  <2>1. h.labels = Bind(f.labels, l, t)
    BY <1>p DEF Places
  <2> QED
    BY <2>1 DEF Bind
<1> HIDE DEF u
<1> SUFFICES ASSUME NEW c \in 1 .. m + 1, NEW j \in Range(h.gotos[c])
             PROVE  Waits(h, n, c, j)
  BY <1>3 DEF GotosOK
<1>5. j \in Range(f.gotos[c]) /\ (c \in 1 .. m \/ j.label # l)
  <2>1. c \in 1 .. m \/ c = m + 1
    BY <1>2
  <2> QED
    BY <1>p, <2>1 DEF Places
<1>6. Waits(f, n, c, j)
  BY <1>1, <1>3, <1>5 DEF GotosOK
<1>7. j.src \in 1 .. Len(f.blk)
  <2>1. f.gotos[c] \in Seq(GotoSet(Len(f.blk)))
    BY <1>3, GotoFacts
  <2>2. j \in GotoSet(Len(f.blk))
    BY <1>5, <2>1, RangeWithin
  <2> QED
    BY <2>2 DEF GotoSet
<1>8. Seeks(u, j) /\ u.blk[j.src].want = f.blk[j.src].want
  BY <1>2, <1>4, <1>6, <1>7, <1>u, SeeksStay DEF Waits
<1> DEFINE w == h.blk[j.src].want
<1>9. /\ w = f.blk[j.src].want /\ w.kind = "goto" /\ w.label = j.label
      /\ w.tries \in Seq(1 .. Len(h.blk))
      /\ j.label \in DOMAIN f.labels => ~IsPrefix(f.labels[j.label].tries, w.tries)
  BY <1>8, <1>u DEF Seeks
<1>10. Outside(w.tries, c, f.msvc, n)
  BY <1>6, <1>9 DEF Waits
<1> HIDE DEF w, m
<1>11. j.label \in DOMAIN h.labels => ~IsPrefix(h.labels[j.label].tries, w.tries)
  <2>1. CASE j.label # l
    BY <1>9, <1>b, <2>1
  <2>2. CASE j.label = l
    <3>1. c \in 1 .. m
      BY <1>5, <2>2
    <3>2. ~ IsPrefix(TryBlocks(n), w.tries)
      BY <1>1, <1>2, <1>9, <1>10, <3>1, NotBelow
    <3> QED
      BY <1>b, <1>t, <2>2, <3>2
  <2> QED
    BY <2>1, <2>2
<1>12. Seeks(h, j)
  BY <1>9, <1>11 DEF Seeks, w
<1> QED
  BY <1>2, <1>10, <1>12 DEF Waits, w

(* A label keeps Generated.                                                *)
LEMMA PlacesOk ==
  ASSUME NEW W, NEW f, WellFormed(f, 1, W), NEW n, Generated(f, n), NoExpression(n), NEW l,
         NEW bb, NEW h, Places(f, h, l, LabelHere(n, bb, Len(f.scopes)), W)
  PROVE  Generated(h, n)
<1> DEFINE m == Len(f.scopes)
           t == LabelHere(n, bb, m)
           u == WithLabels(h, f.labels)
<1>1. /\ NestOK(Len(f.blk), n) /\ Chain(m, f.msvc, n) /\ Apart(n) /\ Distinct(f, n)
      /\ LoopsOK(f.loops, n) /\ CatchesOK(f.catches, n)
      /\ LabelsOK(f.labels, m, f.msvc, n)
  BY DEF Generated
<1>g. GotosOK(h, n)
  BY PlacesGotos
<1>p. Places(f, h, l, t, W)
  OBVIOUS
<1>2. Len(f.blk) \in Nat /\ m \in Nat /\ 1 \in {0, 1}
  BY Lengths
<1>t. LabelOK(t, m, f.msvc, n)
  BY <1>1, <1>2, LabelHereOk
<1> HIDE DEF t, u, m
<1>3. /\ WellFormed(h, 1, W) /\ Len(h.blk) >= Len(f.blk) /\ h.msvc = f.msvc
      /\ Len(h.scopes) = m /\ h.loops = f.loops /\ h.catches = f.catches
      /\ h.cur = Len(f.blk) + 1 /\ h.labels = Bind(f.labels, l, t)
  BY <1>p DEF Places, m
<1>4. Len(h.blk) \in Nat
  BY <1>2, <1>3, Lengths
<1>5. NestOK(Len(h.blk), n)
  BY <1>1, <1>2, <1>3, <1>4, NestWidens
<1>6. Distinct(h, n)
  <2>1. Changes(f, u) /\ u.blk = h.blk /\ u.cur = h.cur
    BY <1>p, PlacesChanges DEF u
  <2>2. u.cur \notin 1 .. Len(f.blk)
    BY <1>2, <1>3, <2>1
  <2>3. Clear(u, n)
    BY <1>1, <2>2, ClearOk
  <2>4. Distinct(u, n)
    BY <1>1, <2>1, <2>3, StayDistinct
  <2> QED
    BY <2>1, <2>4 DEF Distinct
<1>7. LabelsOK(h.labels, m, f.msvc, n)
  BY <1>1, <1>3, <1>t DEF LabelsOK, Bind
<1> QED
  BY <1>1, <1>3, <1>5, <1>6, <1>7, <1>g DEF Generated, m

(* Label keeps the invariant.                                              *)
LEMMA LabelInv ==
  ASSUME IInv, NEW l \in Labels, Label(l)
  PROVE  IInv'
<1> DEFINE m == Len(g.scopes)
           bb == Len(g.blk) + 1
           x == NewBlock(g)
           t == LabelHere(nest, bb, m)
           h == Placed(g, l, t, bb)
<1>1. phase = "visit" /\ ~InExpression
  BY DEF Label, Unfinished
<1>2. PICK W : WellFormed(g, 1, W) /\ {NoWant} \subseteq W
  BY <1>1, Ghosts
<1>w. NoWant \in W
  BY <1>2
<1>3. Generated(g, nest)
  BY <1>1, Visits
<1>4. Len(g.blk) \in Nat /\ m \in Nat
  BY <1>2, Lengths
<1>5. NestOK(Len(g.blk), nest)
  BY <1>3 DEF Generated
<1>6. NoExpression(nest)
  BY <1>1, <1>5, OutsideExpression
<1>7. WellFormed(x, 1, W) /\ Rest(g, x) /\ Len(x.blk) = bb
  BY <1>2, <1>w, NewBlockFacts
<1>8. /\ g' = h /\ nest' = nest /\ stmts' = stmts + 1 /\ phase' = phase /\ msvc' = msvc
  <2>1. LastBlock(x) = bb
    BY <1>7 DEF LastBlock
  <2>2. /\ g' = [SetTerm(AddLabelTarget(x, l, bb), g.cur, Br(bb)) EXCEPT !.cur = bb]
        /\ nest' = nest /\ stmts' = stmts + 1 /\ phase' = phase /\ msvc' = msvc
    <3>1. /\ g' = [SetTerm(AddLabelTarget(x, l, LastBlock(x)), g.cur, Br(LastBlock(x)))
                     EXCEPT !.cur = LastBlock(x)]
          /\ nest' = nest /\ stmts' = stmts + 1 /\ phase' = phase /\ msvc' = msvc
      BY DEF Label, Visited
    <3> QED
      BY <2>1, <3>1
  <2>3. Len(x.scopes) = m /\ x.labels = g.labels
    BY <1>7 DEF Rest
  <2>4. AddLabelTarget(x, l, bb) = TryResolveGotos(WithLabels(x, Bind(g.labels, l, t)), l, bb)
    <3> HIDE DEF m, bb, x
    <3>1. AddLabelTarget(x, l, bb) =
            TryResolveGotos(WithLabels(x, Bind(x.labels, l, LabelHere(nest, bb, Len(x.scopes)))), l, bb)
      BY DEF AddLabelTarget, WithLabels, LabelHere, CurrentCleanupScope
    <3> QED
      BY <2>3, <3>1 DEF m, bb
  <2>5. WithCur(SetTerm(AddLabelTarget(x, l, bb), g.cur, Br(bb)), bb) = h
    BY <2>4 DEF Placed
  <2> HIDE DEF h
  <2> QED
    BY <2>2, <2>5 DEF WithCur
<1>9. t \in LabelSet(bb)
  <2>1. bb \in Nat /\ bb \in 1 .. bb
    BY <1>4
  <2>2. NestOK(bb, nest)
    BY <1>4, <1>5, <2>1, NestWidens
  <2>3. TryBlocks(nest) \in Seq(1 .. bb) /\ InScope(nest) \in Seq(Nat)
    BY <2>1, <2>2, TryBlocksOk, InScopeOk
  <2> QED
    BY <1>4, <2>1, <2>3 DEF LabelSet, LabelHere
<1>b. bb = Len(g.blk) + 1
  OBVIOUS
<1>10. Places(g, h, l, t, W)
  <2> HIDE DEF t, bb
  <2> QED
    BY <1>2, <1>9, <1>b, <1>w, PlacedOk
<1> HIDE DEF h, bb, x
<1>11. Generated(h, nest)
  BY <1>2, <1>3, <1>6, <1>10, PlacesOk
<1>12. WellFormed(h, 1, W) /\ h.msvc = g.msvc /\ NewPlain(g, h)
  BY <1>10 DEF Places, NewPlain
<1> QED
  BY <1>1, <1>8, <1>11, <1>12, StepInv

-----------------------------------------------------------------------------
(* The end of the function                                                 *)

(* Nothing but the scope of the function itself is open: no try statement. *)
LEMMA FunctionOnly ==
  ASSUME NEW N, NestOK(N, nest), nest = <<>> \/ (Len(nest) = 1 /\ nest[1].kind = "func")
  PROVE  Handlers(nest) = <<>>
<1>1. Handlers(<<>>) = <<>>
  <2>1. <<>> \in Seq({1}) /\ 1 \in {1}
    OBVIOUS
  <2> QED
    BY <2>1, HandlersAppend
<1>2. CASE nest = <<>>
  BY <1>1, <1>2
<1>3. CASE nest # <<>> /\ Len(nest) = 1 /\ nest[1].kind = "func"
  <2> DEFINE n == Front(nest)
             s == Last(nest)
  <2>1. Pushed(n, s, nest) /\ s.kind = "func"
    BY <1>3, FrontPushed DEF Last
  <2> HIDE DEF n, s
  <2>2. Len(nest) = Len(n) + 1 /\ Len(n) \in Nat /\ (n = <<>> <=> Len(n) = 0)
    BY <2>1, PushedFacts
  <2>3. n = <<>>
    <3>1. Len(n) = 0
      <4> DEFINE a == Len(n)
                 b == Len(nest)
      <4>1. b = 1
        BY <1>3
      <4>2. b = a + 1 /\ a \in Nat
        BY <2>2
      <4> HIDE DEF a, b
      <4>3. a = 0
        BY <4>1, <4>2
      <4> QED
        BY <4>3 DEF a
    <3> QED
      BY <2>2, <3>1
  <2>4. Handlers(nest) = Handlers(n)
    <3>1. s.kind # "catch"
      BY <2>1, SMTT(30)
    <3> QED
      BY <2>1, <3>1, HandlersPushed
  <2> QED
    BY <1>1, <2>3, <2>4
<1> QED
  BY <1>2, <1>3

(* A goto that waits at the end is one the front end should have refused.  *)
LEMMA WaitsIllegal ==
  ASSUME NEW W, WellFormed(g, 1, W), Generated(g, nest), Left(g, g', 0, W),
         g'.gotos[1] # <<>>
  PROVE  RejectsOnlyIllegal'
<1>1. /\ Len(g.blk) \in Nat /\ Len(g'.blk) \in Nat /\ Len(g'.blk) >= Len(g.blk)
      /\ 1 .. Len(g.blk) \subseteq 1 .. Len(g'.blk) /\ WellFormed(g', 1, W)
      /\ Len(g'.scopes) = 0
  BY LeftFacts
<1>2. PICK j : j \in Range(g'.gotos[1])
  <2>1. g'.gotos[1] \in Seq(GotoSet(Len(g'.blk)))
    <3>1. \A k \in 1 .. Len(g'.scopes) + 1 : g'.gotos[k] \in Seq(GotoSet(Len(g'.blk)))
      BY <1>1, GotoFacts
    <3>2. 1 \in 1 .. Len(g'.scopes) + 1
      BY <1>1
    <3> QED
      BY <3>1, <3>2
  <2>2. 1 \in DOMAIN g'.gotos[1]
    BY <2>1
  <2> QED
    BY <2>2 DEF Range
<1>3. PICK c \in 1 .. Len(g.gotos) : j \in Range(g.gotos[c])
  <2>1. \A i \in Range(g'.gotos[0 + 1]) : \E c \in 1 .. Len(g.gotos) : c > 0 /\ i \in Range(g.gotos[c])
    BY DEF Left, GotosFrom
  <2>2. 0 + 1 = 1
    OBVIOUS
  <2> QED
    BY <1>2, <2>1, <2>2
<1>4. Seeks(g, j)
  BY <1>3 DEF Generated, GotosOK, Waits
<1>5. j.src \in 1 .. Len(g.blk)
  <2>1. g.gotos[c] \in Seq(GotoSet(Len(g.blk)))
    BY <1>3, GotoFacts
  <2>2. j \in GotoSet(Len(g.blk))
    BY <1>3, <2>1, RangeWithin
  <2> QED
    BY <2>2 DEF GotoSet
<1>6. g'.blk[j.src].want = g.blk[j.src].want /\ g'.labels = g.labels
  <2>1. j.src # g.cur
    BY <1>4 DEF Seeks, Generated, Distinct
  <2> QED
    BY <1>5, <2>1 DEF Left, WantsOf
<1>7. j.src \in DOMAIN g'.blk
  <2>1. DOMAIN g'.blk = 1 .. Len(g'.blk)
    <3>1. 1 \in {0, 1}
      OBVIOUS
    <3> QED
      BY <1>1, <3>1, Lengths
  <2> QED
    BY <1>1, <1>5, <2>1
<1> DEFINE w == g'.blk[j.src].want
<1>8. /\ w.kind = "goto"
      /\ \/ w.label \notin DOMAIN g'.labels
         \/ ~IsPrefix(g'.labels[w.label].tries, w.tries)
  BY <1>4, <1>6 DEF Seeks
<1> HIDE DEF w
<1>9. \E b \in DOMAIN g'.blk : b = j.src
  BY <1>7
<1> QED
  BY <1>7, <1>8 DEF RejectsOnlyIllegal, w

(* EndFunction keeps the invariant, also when the function is rejected.    *)
LEMMA EndFunctionInv ==
  ASSUME IInv, EndFunction
  PROVE  IInv'
<1> DEFINE w == Jumping(nest, <<>>, WithReturn(g).ret)
           h == IF g.scopes = <<>> THEN SetTerm(g, g.cur, RetTerm) ELSE Returns(g, w, 0)
<1>1. /\ phase = "visit" /\ (nest = <<>> \/ (Len(nest) = 1 /\ nest[1].kind = "func"))
      /\ g' = h /\ phase' = (IF g'.gotos[1] = <<>> THEN "done" ELSE "rejected")
      /\ msvc' = msvc /\ stmts' = stmts
  BY DEF EndFunction, CurrentCleanupScope, WithReturn, LastBlock, WithRet, Returns, RetTerm
<1>2. PICK W : WellFormed(g, 1, W) /\ {NoWant, w} \subseteq W
  BY <1>1, Ghosts
<1>w. NoWant \in W /\ w \in W
  BY <1>2
<1>3. Generated(g, nest)
  BY <1>1, Visits
<1>4. Len(g.scopes) \in Nat /\ 0 \in 0 .. Len(g.scopes) /\ (g.scopes = <<>> <=> Len(g.scopes) = 0)
  <2>1. Len(g.scopes) \in Nat /\ g.scopes \in Seq(ScopeSet(Len(g.blk)))
    BY <1>2, Lengths
  <2> QED
    BY <2>1
<1> HIDE DEF w
<1>5. Left(g, h, 0, W)
  <2>1. CASE g.scopes = <<>>
    <3>1. Left(g, SetTerm(g, g.cur, RetTerm), Len(g.scopes), W)
      BY <1>2, ReturnsAtOnce
    <3>2. Len(g.scopes) = 0
      BY <1>4, <2>1
    <3> QED
      BY <2>1, <3>1, <3>2
  <2>2. CASE g.scopes # <<>>
    BY <1>2, <1>4, <1>w, <2>2, ReturnsOk
  <2> QED
    BY <2>1, <2>2
<1> HIDE DEF h
<1>6. Left(g, g', 0, W)
  BY <1>1, <1>5
<1>7. /\ WellFormed(g', 1, W) /\ g'.msvc = g.msvc /\ g'.catches = g.catches /\ g'.plain = g.plain
      /\ Len(g'.scopes) = 0
  BY <1>6 DEF Left, GotosFrom
<1>8. g'.scopes = <<>>
  <2>1. g'.scopes \in Seq(ScopeSet(Len(g'.blk)))
    BY <1>7 DEF WellFormed, FunctionSet
  <2> QED
    BY <1>7, <2>1
<1>9. g'.catches = <<>>
  <2>1. g.catches \in Seq(CatchSet(Len(g.blk)))
    BY <1>2 DEF WellFormed, FunctionSet
  <2>2. Handlers(nest) = <<>>
    BY <1>1, <1>3, FunctionOnly DEF Generated
  <2>3. Len(g.catches) = 0
    BY <1>3, <2>2 DEF Generated, CatchesOK
  <2> QED
    BY <1>7, <2>1, <2>3
<1>10. RejectsOnlyIllegal'
  <2>1. CASE g'.gotos[1] # <<>>
    BY <1>2, <1>3, <1>6, <2>1, WaitsIllegal
  <2>2. CASE g'.gotos[1] = <<>>
    BY <1>1, <2>2 DEF RejectsOnlyIllegal
  <2> QED
    BY <2>1, <2>2
<1>11. phase' \in {"visit", "done", "rejected"} /\ phase' # "visit"
  BY <1>1
<1>12. stmts' \in Nat /\ g'.msvc = msvc' /\ \A x \in g'.plain : Uncaught(x)
  BY <1>1, <1>7 DEF IInv
<1> QED
  BY <1>7, <1>8, <1>9, <1>10, <1>11, <1>12 DEF IInv

(* The invariant depends on the variables only.                            *)
LEMMA StutterInv ==
  ASSUME IInv, UNCHANGED vars
  PROVE  IInv'
<1>1. msvc' = msvc /\ g' = g /\ nest' = nest /\ phase' = phase /\ stmts' = stmts
  BY DEF vars
<1>2. RejectsOnlyIllegal'
  BY <1>1 DEF IInv, RejectsOnlyIllegal
<1>3. phase' = "visit" => Generated(g', nest') /\ (stmts' = 0 => nest' = <<>>)
  BY <1>1 DEF IInv
<1>4. \E W : WellFormed(g', 1, W)
  BY <1>1 DEF IInv
<1>5. /\ stmts' \in Nat /\ phase' \in {"visit", "done", "rejected"} /\ g'.msvc = msvc'
      /\ \A w \in g'.plain : Uncaught(w)
      /\ phase' # "visit" => g'.scopes = <<>> /\ g'.catches = <<>>
  BY <1>1 DEF IInv
<1> QED
  BY <1>2, <1>3, <1>4, <1>5 DEF IInv

-----------------------------------------------------------------------------
(* The theorems                                                            *)

(* The entry block is a block.                                             *)
LEMMA EntryBlocks ==
  ASSUME NEW W, NoWant \in W
  PROVE  <<Block(NoTerm)>> \in Seq(BlockSet(1, 1, W))
<1>1. 1 \in {0, 1} /\ 1 \in Nat
  OBVIOUS
<1>2. NoTerm \in TermSet(1, 1)
  BY <1>1, Terms
<1>3. Block(NoTerm) \in BlockSet(1, 1, W)
  BY <1>1, <1>2, BlockNew
<1> QED
  BY <1>3

(* The state in front of the body is well formed.                          *)
LEMMA EntryOk ==
  ASSUME NEW eh \in BOOLEAN
  PROVE  WellFormed(Entry(eh), 1, {NoWant})
<1> DEFINE f == Entry(eh)
           W == {NoWant}
           b == Block(NoTerm)
<1>1. /\ f.msvc = eh /\ f.blk = <<b>> /\ f.cur = 1 /\ f.start = 0 /\ f.scopes = <<>>
      /\ f.catches = <<>> /\ f.gotos = << <<>> >> /\ f.pads = << <<>> >> /\ f.labels = <<>>
      /\ f.loops = <<>> /\ f.ret = 0 /\ f.resume = 0 /\ f.plain = {}
  BY DEF Entry
<1>2. <<b>> \in Seq(BlockSet(1, 1, W))
  BY EntryBlocks
<1>3. b.stores = <<>> /\ b.term = NoTerm /\ NoTerm.op = "none"
  BY DEF Block, NoTerm
<1>4. <<>> \in LabelMap(1)
  <2>1. <<>> \in [{} -> LabelSet(1)]
    OBVIOUS
  <2>2. {} \in SUBSET Labels
    OBVIOUS
  <2> QED
    BY <2>1, <2>2 DEF LabelMap
<1>5. /\ <<>> \in Seq(ScopeSet(1)) /\ <<>> \in Seq(CatchSet(1)) /\ <<>> \in Seq(LoopSet(1))
      /\ << <<>> >> \in Seq(Seq(GotoSet(1))) /\ << <<>> >> \in Seq(Seq(0 .. 1))
  OBVIOUS
<1>6. Len(<<b>>) = 1 /\ Len(<< <<>> >>) = 1 /\ Len(<<>>) = 0
  OBVIOUS
<1>7. f \in FunctionSet(1, 1, W)
  <2>1. 1 \in 1 .. 1 /\ 0 \in 0 .. 1 /\ {} \in SUBSET W
    OBVIOUS
  <2> HIDE DEF b, W
  <2> QED
    BY <1>2, <1>4, <1>5, <2>1 DEF FunctionSet, Entry, b
<1>8. Len(f.blk) = 1
  BY <1>1, <1>6
<1>9. FuncletBlocks(f)
  <2>1. DOMAIN f.blk = {1} /\ f.blk[1] = b
    <3> HIDE DEF f, b
    <3> QED
      BY <1>1
  <2> HIDE DEF f, b
  <2> QED
    BY <1>3, <2>1 DEF FuncletBlocks
<1>10. ScopesFilled(f)
  <2> HIDE DEF f
  <2> QED
    BY <1>1 DEF ScopesFilled
<1>11. Len(f.gotos) = Len(f.scopes) + 1 /\ Len(f.pads) = Len(f.scopes) + 1
  BY <1>1, <1>6
<1> QED
  BY <1>7, <1>8, <1>9, <1>10, <1>11 DEF WellFormed

(* In front of the body no statement is open and nothing waits.            *)
LEMMA EntryGenerated ==
  ASSUME NEW eh \in BOOLEAN
  PROVE  Generated(Entry(eh), <<>>)
<1> DEFINE f == Entry(eh)
           b == Block(NoTerm)
<1>1. /\ f.msvc = eh /\ f.blk = <<b>> /\ f.cur = 1 /\ f.scopes = <<>>
      /\ f.catches = <<>> /\ f.gotos = << <<>> >> /\ f.labels = <<>> /\ f.loops = <<>>
  BY DEF Entry
<1>2. b.want.kind # "goto"
  BY DEF Block, NoWant
<1>3. Handlers(<<>>) = <<>>
  <2>1. <<>> \in Seq({1}) /\ 1 \in {1}
    OBVIOUS
  <2> QED
    BY <2>1, HandlersAppend
<1> HIDE DEF f, b
<1>4. NestOK(Len(f.blk), <<>>)
  <2>1. <<>> \in Seq({1})
    OBVIOUS
  <2>2. \E U : <<>> \in Seq(U)
    BY <2>1
  <2> QED
    BY <2>2 DEF NestOK
<1>5. Chain(Len(f.scopes), f.msvc, <<>>)
  BY <1>1 DEF Chain
<1>6. Apart(<<>>)
  BY DEF Apart
<1>7. Distinct(f, <<>>)
  <2>1. f.blk[f.cur] = b
    BY <1>1
  <2> QED
    BY <1>2, <2>1 DEF Distinct
<1>8. LoopsOK(f.loops, <<>>)
  BY <1>1 DEF LoopsOK
<1>9. CatchesOK(f.catches, <<>>)
  BY <1>1, <1>3 DEF CatchesOK
<1>10. LabelsOK(f.labels, Len(f.scopes), f.msvc, <<>>)
  BY <1>1 DEF LabelsOK
<1>11. GotosOK(f, <<>>)
  <2>1. Len(f.gotos) = 1 /\ \A c \in 1 .. 1 : f.gotos[c] = <<>>
    BY <1>1
  <2>2. Range(<<>>) = {}
    BY DEF Range
  <2> QED
    BY <2>1, <2>2 DEF GotosOK
<1> QED
  BY <1>4, <1>5, <1>6, <1>7, <1>8, <1>9, <1>10, <1>11 DEF Generated, f

(* The invariant holds in front of every function body.                    *)
THEOREM InitInv == Init => IInv
<1> SUFFICES ASSUME Init PROVE IInv
  OBVIOUS
<1>1. msvc \in BOOLEAN /\ g = Entry(msvc) /\ nest = <<>> /\ phase = "visit" /\ stmts = 0
  BY CleanupAssumption DEF Init
<1>2. WellFormed(g, 1, {NoWant}) /\ Generated(g, nest)
  BY <1>1, EntryOk, EntryGenerated
<1>3. g.msvc = msvc /\ g.plain = {}
  BY <1>1 DEF Entry
<1>4. RejectsOnlyIllegal
  BY <1>1 DEF RejectsOnlyIllegal
<1> QED
  BY <1>1, <1>2, <1>3, <1>4 DEF IInv

(* Every statement the visitor meets preserves the invariant.              *)
THEOREM NextInv == IInv /\ [Next]_vars => IInv'
<1> SUFFICES ASSUME IInv, [Next]_vars PROVE IInv'
  OBVIOUS
<1>1. ASSUME NEW kind \in Bodies, BeginTryFinally(kind) PROVE IInv'
  BY <1>1, BeginTryFinallyInv
<1>2. ASSUME NEW kind \in Bodies, PushTemporary(kind) PROVE IInv'
  BY <1>2, PushTemporaryInv
<1>3. ASSUME NEW l \in CatchLists, BeginTryCatch(l, "throws" \in Bodies) PROVE IInv'
  BY <1>3, BeginTryCatchInv
<1>4. CASE EndTryFinally
  BY <1>4, EndTryFinallyInv
<1>5. CASE EndTryCatch
  BY <1>5, EndTryCatchInv
<1>6. CASE EndExpression
  BY <1>6, EndExpressionInv
<1>7. CASE BeginWhile
  BY <1>7, BeginWhileInv
<1>8. CASE EndWhile
  BY <1>8, EndWhileInv
<1>9. CASE LoopJump("break") \/ LoopJump("continue")
  BY <1>9, LoopJumpInv
<1>10. CASE Return
  BY <1>10, ReturnInv
<1>11. ASSUME NEW isNothrow \in BOOLEAN, Call(isNothrow) PROVE IInv'
  BY <1>11, CallInv
<1>12. ASSUME NEW l \in Labels, Label(l) PROVE IInv'
  BY <1>12, LabelInv
<1>13. ASSUME NEW l \in Labels, Goto(l) PROVE IInv'
  BY <1>13, GotoSeen, GotoUnseen
<1>14. CASE Variadic
  BY <1>14, VariadicInv
<1>15. CASE EndFunction
  BY <1>15, EndFunctionInv
<1>16. CASE UNCHANGED vars
  BY <1>16, StutterInv
<1> QED
  BY <1>1, <1>2, <1>3, <1>4, <1>5, <1>6, <1>7, <1>8, <1>9, <1>10, <1>11, <1>12, <1>13, <1>14,
     <1>15, <1>16 DEF Next, Compiled

(* The invariant holds throughout the compilation of every function.       *)
THEOREM AlwaysIInv == Spec => []IInv
BY InitInv, NextInv, PTL DEF Spec

(* TypeOK for every set of labels, catch lists and bounds: the three       *)
(* stacks of TryCatchFinallyScopes move together, every branch goes to an  *)
(* emitted block, funclets use no branch selector, and nothing is in scope *)
(* at the end.                                                             *)
THEOREM TypeCorrect == Spec => []TypeOK
<1>1. IInv => TypeOK
  <2> SUFFICES ASSUME IInv PROVE TypeOK
    OBVIOUS
  <2>1. PICK W : WellFormed(g, 1, W)
    BY DEF IInv
  <2>2. 1 \in {0, 1}
    OBVIOUS
  <2>3. /\ DOMAIN g.blk = 1 .. Len(g.blk) /\ g.cur \in 1 .. Len(g.blk)
        /\ \A b \in 1 .. Len(g.blk) : g.blk[b] \in BlockSet(1, Len(g.blk), W)
    BY <2>1, <2>2, Lengths
  <2>4. Len(g.gotos) = Len(g.scopes) + 1 /\ Len(g.pads) = Len(g.scopes) + 1
    BY <2>1 DEF WellFormed
  <2>5. ASSUME NEW b \in DOMAIN g.blk
        PROVE  /\ \A k \in DOMAIN g.blk[b].term.to : g.blk[b].term.to[k] \in DOMAIN g.blk
               /\ msvc => g.blk[b].stores = <<>> /\ g.blk[b].term.op # "switch"
    <3>1. g.blk[b].term.to \in Seq(1 .. Len(g.blk))
      BY <2>3, <2>5 DEF BlockSet, TermSet
    <3>2. \A k \in DOMAIN g.blk[b].term.to : g.blk[b].term.to[k] \in DOMAIN g.blk
      BY <2>3, <3>1
    <3>3. msvc => g.blk[b].stores = <<>> /\ g.blk[b].term.op # "switch"
      BY <2>1, <2>5 DEF WellFormed, FuncletBlocks, IInv
    <3> QED
      BY <3>2, <3>3
  <2>6. /\ phase \in {"visit", "done", "rejected"}
        /\ phase # "visit" => g.scopes = <<>> /\ g.catches = <<>>
    BY DEF IInv
  <2> QED
    BY <2>3, <2>4, <2>5, <2>6 DEF TypeOK
<1> QED
  BY <1>1, AlwaysIInv, PTL

(* RejectsOnlyIllegal in general: the destructor of TryCatchFinallyScopes  *)
(* reports a goto only when no label is in a try block that also encloses  *)
(* it, whatever was popped in between.                                     *)
THEOREM RejectsIllegal == Spec => []RejectsOnlyIllegal
<1>1. IInv => RejectsOnlyIllegal
  BY DEF IInv
<1> QED
  BY <1>1, AlwaysIInv, PTL

(* PlainCallsUncaught in general: callOrInvoke emits a call without an     *)
(* unwind edge only where no clause takes what the callee may throw and no *)
(* cleanup is left behind.                                                 *)
THEOREM PlainCallsSafe == Spec => []PlainCallsUncaught
<1>1. IInv => PlainCallsUncaught
  BY DEF IInv, PlainCallsUncaught, Uncaught
<1> QED
  BY <1>1, AlwaysIInv, PTL
=============================================================================
