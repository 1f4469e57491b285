---------------------- MODULE CleanupScopesInvariant -----------------------
(***************************************************************************)
(* The inductive invariant IInv has two halves.  WellFormed says of the    *)
(* generator's state alone that it is typed and that its stacks have equal *)
(* heights; each operation is shown to keep it.  Generated relates that    *)
(* state to the open statements: whose scopes are where in the stack       *)
(* (Chain), which label is in reach (LabelOK), and of a goto that waits in *)
(* a cursor that it is outside every statement above the cursor and that   *)
(* no label seen so far is one it may go to (Waits).                       *)
(***************************************************************************)
EXTENDS CleanupScopes

-----------------------------------------------------------------------------
(* Types.  n is the number of blocks, z the least successor a terminator   *)
(* may have (0 while the placeholder of RedirectGoto is in use), W the set *)
(* of the ghosts.                                                          *)

ExitSet(n) == [to : 1 .. n, src : SUBSET (1 .. n), blocks : Seq(1 .. n)]
ScopeSet(n) ==
  [begin : 1 .. n, end : 1 .. n, exits : Seq(ExitSet(n)), selector : BOOLEAN, blocks : Seq(1 .. n)]
Classes == Thrown \cup {"Throwable"}
Ops == {"none", "br", "cond", "switch", "match", "invoke", "catchswitch", "cleanupret",
        "resume", "ret"}
TermSet(z, n) == [op : Ops, arg : Seq(Nat \cup Classes), to : Seq(z .. n)]
PadSet == [cleanup : BOOLEAN, clauses : Seq(Classes)]
StoreSet == UNION {[D -> Nat] : D \in SUBSET Nat}
BlockSet(z, n, W) ==
  [runs : Nat, stores : StoreSet, pad : PadSet, term : TermSet(z, n), want : W]
ClauseSet(n) == [class : Classes, body : 1 .. n]
CatchSet(n) == [scope : Nat, nonExceptions : BOOLEAN, blocks : Seq(ClauseSet(n))]
GotoSet(n) == [src : 1 .. n, tentative : 1 .. n, label : Labels]
LabelSet(n) == [bb : 1 .. n, scope : Nat, keep : Seq(Nat), tries : Seq(1 .. n)]
LabelMap(n) == UNION {[D -> LabelSet(n)] : D \in SUBSET Labels}
LoopSet(n) == [continue : 1 .. n, break : 1 .. n, scope : Nat]
FunctionSet(z, n, W) ==
  [msvc : BOOLEAN, blk : Seq(BlockSet(z, n, W)), cur : 1 .. n, start : 0 .. n,
   scopes : Seq(ScopeSet(n)), catches : Seq(CatchSet(n)), gotos : Seq(Seq(GotoSet(n))),
   pads : Seq(Seq(0 .. n)), labels : LabelMap(n), loops : Seq(LoopSet(n)),
   ret : 0 .. n, resume : 0 .. n, plain : SUBSET W]

(* With funclets there are no branch selectors, and a copy has blocks.     *)
FuncletBlocks(f) ==
  f.msvc => \A b \in DOMAIN f.blk : f.blk[b].stores = <<>> /\ f.blk[b].term.op # "switch"
ExitsFilled(f, exits) == f.msvc => \A k \in DOMAIN exits : exits[k].blocks # <<>>
ScopeFilled(f, s) == s.blocks # <<>> /\ ExitsFilled(f, s.exits)
ScopesFilled(f) == \A i \in DOMAIN f.scopes : ScopeFilled(f, f.scopes[i])

(* The generator's state is well formed: the types hold, and the three     *)
(* stacks have the same height.                                            *)
WellFormed(f, z, W) ==
  /\ f \in FunctionSet(z, Len(f.blk), W)
  /\ FuncletBlocks(f) /\ ScopesFilled(f)
  /\ Len(f.gotos) = Len(f.scopes) + 1 /\ Len(f.pads) = Len(f.scopes) + 1

(* Nothing catches what the call with the ghost w throws, and no cleanup   *)
(* is left.                                                                *)
Uncaught(w) ==
  /\ \A t \in w.thrown : Catching(w, t) = 0
  /\ w.thrown = Thrown => w.cleanups = <<>>

-----------------------------------------------------------------------------
(* The statements that are open.                                           *)

(* The blocks that identify a statement in TryBlocks.                      *)
Ids(s) == Range(IF s.kind = "catch" THEN s.bodies ELSE s.cleanups)

(* With funclets a try statement is a scope of its own, its catchswitch.   *)
Up(eh) == IF eh THEN 1 ELSE 0

(* The number of cleanup scopes a statement has pushed, and the block the  *)
(* visitor goes on in when it ends.                                        *)
Height(s, eh) == IF s.kind = "catch" THEN Up(eh) ELSE Len(s.cleanups)
Continues(s) == s.kind \in {"finally", "catch", "loop"}
Cont(s) == IF s.kind = "finally" THEN s.success ELSE s.endbb

StatementOK(s, N) ==
  /\ s.kind \in {"finally", "catch", "loop", "expr", "func"}
  /\ s.before \in Nat /\ s.cleanups \in Seq(1 .. N)
  /\ s.kind \in {"finally", "func"} => Len(s.cleanups) = 1
  /\ s.kind = "expr" => s.cleanups # <<>>
  /\ s.kind \in {"catch", "loop"} => s.cleanups = <<>>
  /\ s.kind = "catch" => s.bodies \in Seq(1 .. N) /\ s.bodies # <<>>
  /\ Continues(s) => Cont(s) \in 1 .. N

(* N is the number of blocks.  A full expression is innermost.             *)
NestOK(N, n) ==
  /\ \E U : n \in Seq(U)
  /\ \A k \in 1 .. Len(n) : StatementOK(n[k], N)
  /\ \A k \in 1 .. Len(n) : n[k].kind = "expr" => k = Len(n)

(* Where the scopes of the statements are in the stack, m scopes high:     *)
(* one after the other, without gaps.                                      *)
Chain(m, eh, n) ==
  /\ n = <<>> => m = 0
  /\ \A k \in 1 .. Len(n) :
       n[k].before + Height(n[k], eh) = IF k = Len(n) THEN m ELSE n[k + 1].before
  /\ \A k, l \in 1 .. Len(n) : k < l => n[k].before + Height(n[k], eh) <= n[l].before
  /\ \A i \in 1 .. m : \E k \in 1 .. Len(n) :
       n[k].before < i /\ i <= n[k].before + Height(n[k], eh)

Apart(n) == \A k, l \in 1 .. Len(n) : k # l => Ids(n[k]) \cap Ids(n[l]) = {}

(* The block the visitor is in and those it will go on in differ, and no   *)
(* goto starts in one of them.                                             *)
Distinct(f, n) ==
  /\ \A k, l \in 1 .. Len(n) :
       k # l /\ Continues(n[k]) /\ Continues(n[l]) => Cont(n[k]) # Cont(n[l])
  /\ \A k \in 1 .. Len(n) :
       Continues(n[k]) => Cont(n[k]) # f.cur /\ f.blk[Cont(n[k])].want.kind # "goto"
  /\ f.blk[f.cur].want.kind # "goto"

LoopsOK(loops, n) ==
  /\ Len(loops) <= 1
  /\ \A k, l \in 1 .. Len(n) : n[k].kind = "loop" /\ n[l].kind = "loop" => k = l
  /\ loops # <<>> => \E k \in 1 .. Len(n) : n[k].kind = "loop"
  /\ \A k \in 1 .. Len(n) : n[k].kind = "loop" =>
       loops # <<>> /\ loops[1].break = n[k].endbb /\ loops[1].scope = n[k].before

(* The try statements the generator knows of are those that are open.      *)
NotOnlyExceptions(list) == \E x \in DOMAIN list : list[x] # "Exception"
CatchesOK(catches, n) ==
  /\ Len(catches) = Len(Handlers(n))
  /\ \A i \in 1 .. Len(catches) :
       /\ catches[i].scope = Handlers(n)[i].before
       /\ catches[i].nonExceptions = NotOnlyExceptions(Handlers(n)[i].list)

(* A label out of reach, or in the scopes around the visitor.  No label is *)
(* in a full expression.                                                   *)
Lost(label, n) == ~ (Range(label.tries) \subseteq Range(TryBlocks(n)))
LabelOK(label, m, eh, n) ==
  /\ \/ Lost(label, n)
     \/ /\ label.scope <= m
        /\ \A k \in 1 .. Len(n) :
             n[k].before < label.scope /\ Height(n[k], eh) > 0 => Ids(n[k]) \subseteq Range(label.tries)
  /\ \A k \in 1 .. Len(n) : n[k].kind = "expr" => Ids(n[k]) \cap Range(label.tries) = {}
LabelsOK(labels, m, eh, n) == \A l \in DOMAIN labels : LabelOK(labels[l], m, eh, n)

(* A goto that waits in cursor c is outside the statements above it, and   *)
(* no label that was seen is one it may go to.                             *)
Outside(tries, c, eh, n) ==
  \A k \in 1 .. Len(n) :
    n[k].before + 1 >= c /\ Height(n[k], eh) > 0 => Ids(n[k]) \cap Range(tries) = {}
Seeks(f, j) ==
  LET w == f.blk[j.src].want IN
    /\ w.kind = "goto" /\ w.label = j.label /\ w.tries \in Seq(1 .. Len(f.blk))
    /\ j.label \in DOMAIN f.labels => ~IsPrefix(f.labels[j.label].tries, w.tries)
Waits(f, n, c, j) == Seeks(f, j) /\ Outside(f.blk[j.src].want.tries, c, f.msvc, n)
GotosOK(f, n) ==
  \A c \in 1 .. Len(f.gotos) : \A j \in Range(f.gotos[c]) : Waits(f, n, c, j)

Generated(f, n) ==
  /\ NestOK(Len(f.blk), n) /\ Chain(Len(f.scopes), f.msvc, n) /\ Apart(n) /\ Distinct(f, n)
  /\ LoopsOK(f.loops, n) /\ CatchesOK(f.catches, n)
  /\ LabelsOK(f.labels, Len(f.scopes), f.msvc, n) /\ GotosOK(f, n)

-----------------------------------------------------------------------------
(* The inductive invariant.                                                *)

IInv ==
  /\ stmts \in Nat
  /\ phase \in {"visit", "done", "rejected"}
  /\ \E W : WellFormed(g, 1, W)
  /\ g.msvc = msvc
  /\ \A w \in g.plain : Uncaught(w)
  /\ phase = "visit" => Generated(g, nest) /\ (stmts = 0 => nest = <<>>)
  /\ phase # "visit" => g.scopes = <<>> /\ g.catches = <<>>
  /\ RejectsOnlyIllegal
=============================================================================
