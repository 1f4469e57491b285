--------------------------- MODULE CleanupScopes ---------------------------
(***************************************************************************)
(* How LDC compiles try/finally, try/catch, destructors of temporaries,    *)
(* break, continue, return and goto to basic blocks: the stacks of         *)
(* TryCatchFinallyScopes (gen/trycatchfinally.cpp) and of JumpTargets      *)
(* (gen/funcgenstate.cpp), driven by the statement visitor                 *)
(* (gen/statements.cpp).                                                   *)
(*                                                                         *)
(* A behaviour is the compilation of one function body: every step is the  *)
(* next statement the visitor meets.  The blocks emitted so far are part   *)
(* of the state, so an invariant can follow each path through them and     *)
(* compare the cleanups it runs, and the place where it ends, with what    *)
(* the nesting of the statements says.                                     *)
(*                                                                         *)
(* A cleanup is emitted once; the paths through it are told apart by a     *)
(* branch selector stored in the block a path comes from.  For the MSVC    *)
(* personality it is copied for each continuation instead (useMSVCEH).     *)
(***************************************************************************)
EXTENDS Naturals, SequencesExt, FiniteSets, TLC

CONSTANTS
  MSVC,         \* values of useMSVCEH() to compile for, a subset of BOOLEAN
  Labels,       \* label identifiers of the function
  CatchLists,   \* the class lists a try statement may catch, sequences
  Bodies,       \* the code of cleanups: "quiet", "throws" (a call that may
                \* throw) or "catches" (such a call in a try that catches all)
  MaxStmts,     \* bound: statements visited
  MaxCleanups   \* bound: cleanups in scope at one time

(* Thrown objects are Exceptions or Errors; a clause names one of these    *)
(* classes or their common base.                                           *)
Thrown == {"Exception", "Error"}
Matches(thrown, clause) == clause \in {thrown, "Throwable"}

ASSUME CleanupAssumption ==
  /\ MSVC \subseteq BOOLEAN /\ MSVC # {} /\ Bodies \subseteq {"quiet", "throws", "catches"}
  /\ CatchLists \subseteq Seq(Thrown \cup {"Throwable"}) \ {<<>>}
  /\ MaxStmts \in Nat /\ MaxCleanups \in Nat

VARIABLES
  msvc,   \* useMSVCEH()
  g,      \* the function being generated and the stacks of the generator
  nest,   \* the statements that are open, outermost first
  phase,  \* "visit", "done" or "rejected"
  stmts   \* statements visited

vars == <<msvc, g, nest, phase, stmts>>

-----------------------------------------------------------------------------
(* Basic blocks.  `runs' is the cleanup whose code starts in the block,    *)
(* `stores' the values the block stores to branch selectors, `pad' the     *)
(* landingpad instruction, `want' a ghost: the exit the source program     *)
(* takes from the block.                                                   *)

NoTerm == [op |-> "none", arg |-> <<>>, to |-> <<>>]
NoPad  == [cleanup |-> FALSE, clauses |-> <<>>]
NoWant == [kind |-> "none"]
Block(term) ==
  [runs |-> 0, stores |-> <<>>, pad |-> NoPad, term |-> term, want |-> NoWant]

Term(op, arg, to) == [op |-> op, arg |-> arg, to |-> to]
Br(to) == Term("br", <<>>, <<to>>)

AddBlock(f, b) == [f EXCEPT !.blk = Append(@, b)]
NewBlock(f) == AddBlock(f, Block(NoTerm))
LastBlock(f) == Len(f.blk)
SetTerm(f, b, term) == [f EXCEPT !.blk[b].term = term]

Bind(fun, x, v) == [y \in DOMAIN fun \cup {x} |-> IF y = x THEN v ELSE fun[y]]
EachBlock(f, Changed(_)) ==
  [f EXCEPT !.blk = SubSeq([b \in 1..Len(f.blk) |-> Changed(b)], 1, Len(f.blk))]

(* llvm::Value::replaceAllUsesWith: the uses of a block are the successors *)
(* of terminators; what the generator's own tables hold does not change.   *)
Successors(term, old, new) ==
  [term EXCEPT !.to = [k \in DOMAIN term.to |-> IF term.to[k] \in old THEN new ELSE term.to[k]]]
ReplaceAllUsesWith(f, old, new) ==
  EachBlock(f, LAMBDA b : [f.blk[b] EXCEPT !.term = Successors(f.blk[b].term, old, new)])

(* A store of a value to a branch selector, at the end of each of `bs'.    *)
Store(f, bs, selector, value) ==
  EachBlock(f, LAMBDA b :
    IF b \in bs THEN [f.blk[b] EXCEPT !.stores = Bind(@, selector, value)]
    ELSE f.blk[b])

(* `start' is the block an operation hands back to its caller.             *)
BranchToStart(f, b) == SetTerm(f, b, Br(f.start))
ReplaceByStart(f, old) == ReplaceAllUsesWith(f, {old}, f.start)

CurrentCleanupScope(f) == Len(f.scopes)
IsCatchSwitchBlock(f, b) == f.blk[b].term.op = "catchswitch"
Descending(from, to) == [k \in 1..(from - to) |-> from + 1 - k]
Ascending(from, to) == [k \in 1..(to - from) |-> from + k]

(* SelectSeq, as a fold                                                    *)
Filter(seq, Keep(_)) ==
  FoldLeft(LAMBDA a, x : IF Keep(x) THEN Append(a, x) ELSE a, <<>>, seq)

-----------------------------------------------------------------------------
(* CleanupScope                                                            *)

(* The position of a continuation in the exit targets of a scope, or 0.    *)
ExitTo(s, cont) ==
  IF \E k \in DOMAIN s.exits : s.exits[k].to = cont
  THEN CHOOSE k \in DOMAIN s.exits : s.exits[k].to = cont
  ELSE 0

(* The second target makes a branch selector necessary: 0 is stored on the *)
(* paths to the first one, and the branch becomes a switch.                *)
CreateSelector(f, i) ==
  LET s  == f.scopes[i]
      f1 == Store(f, s.exits[1].src, s.begin, 0)
  IN [SetTerm(f1, s.end, Term("switch", <<s.begin>>, <<s.exits[1].to>>))
        EXCEPT !.scopes[i].selector = TRUE]

(* run() with a branch selector: leave the scope for `cont' on the path    *)
(* that comes from block `src'.  `start' is the block to branch to.        *)
RunSelector(f, i, src, cont) ==
  LET s == f.scopes[i]
      k == ExitTo(s, cont)
      fs == IF s.selector THEN f ELSE CreateSelector(f, i)
      f1 == CASE s.exits = <<>> ->
                   [SetTerm(f, s.end, Br(cont)) EXCEPT
                      !.scopes[i].exits = <<[to |-> cont, src |-> {src}, blocks |-> <<>>]>>]
              [] Len(s.exits) = 1 /\ k = 1 ->
                   [f EXCEPT !.scopes[i].exits[1].src = @ \cup {src}]
              [] s.exits # <<>> /\ k # 0 /\ Len(s.exits) > 1 ->
                   [Store(fs, {src}, s.begin, k - 1) EXCEPT
                      !.scopes[i].exits[k].src = @ \cup {src}]
              [] s.exits # <<>> /\ k = 0 ->
                   [Store(fs, {src}, s.begin, Len(s.exits)) EXCEPT
                      !.blk[s.end].term.to = Append(@, cont),
                      !.scopes[i].exits =
                         Append(@, [to |-> cont, src |-> {src}, blocks |-> <<>>])]
  IN [f1 EXCEPT !.start = s.begin]

(* cloneBlocks: the last branch goes to `cont', and inside a funclet the   *)
(* calls of the copy unwind to `unwindTo' (0: to the caller, no remapping). *)
CloneBlocks(f, blocks, cont, unwindTo) ==
  LET n == Len(f.blk)
      last == f.blk[blocks[Len(blocks)]].term.to
      Remap(b, k, op) ==
        CASE b \in Range(blocks) -> n + SelectInSeq(blocks, LAMBDA x : x = b)
          [] unwindTo # 0 /\ op = "invoke" /\ k = 2 -> unwindTo
          [] OTHER -> IF b \in Range(last) THEN cont ELSE b
      Copy(b) == [f.blk[b] EXCEPT !.term.to =
                    [k \in DOMAIN @ |-> Remap(@[k], k, f.blk[b].term.op)]]
  IN [f EXCEPT !.blk = @ \o [k \in DOMAIN blocks |-> Copy(blocks[k])]]

(* runCopying: one copy of the cleanup for each continuation; the original *)
(* blocks serve the first one that is not an unwind.                       *)
RunCopying(f, i, src, cont, unwindTo, funclet) ==
  LET s  == f.scopes[i]
      k  == ExitTo(s, cont)
      f0 == IF s.exits = <<>> /\ f.blk[s.end].term = NoTerm
            THEN SetTerm(f, s.end, Br(cont)) ELSE f
      useOriginal == ~funclet /\ \A x \in DOMAIN s.exits : s.exits[x].blocks[1] # s.begin
      f1 == IF useOriginal THEN SetTerm(f0, s.end, Br(cont))
                           ELSE CloneBlocks(f0, s.blocks, cont, unwindTo)
      copy == IF useOriginal THEN s.blocks
              ELSE [x \in DOMAIN s.blocks |-> Len(f.blk) + x]
  IN CASE IsCatchSwitchBlock(f, s.begin) -> [f EXCEPT !.start = cont]
       [] ~IsCatchSwitchBlock(f, s.begin) /\ k # 0 ->
            [f EXCEPT !.scopes[i].exits[k].src = @ \cup {src},
                      !.start = s.exits[k].blocks[1]]
       [] ~IsCatchSwitchBlock(f, s.begin) /\ k = 0 ->
            [f1 EXCEPT !.scopes[i].exits =
                          Append(@, [to |-> cont, src |-> {src}, blocks |-> copy]),
                       !.start = copy[1]]

Run(f, i, src, cont) ==
  IF f.msvc THEN RunCopying(f, i, src, cont, 0, FALSE)
            ELSE RunSelector(f, i, src, cont)

-----------------------------------------------------------------------------
(* TryCatchFinallyScopes: cleanups                                         *)

(* findSuccessors: the blocks of a cleanup from begin to end; calls that   *)
(* may throw are what splits them here.                                    *)
BlocksOf(begin, end) == IF begin = end THEN <<begin>> ELSE <<begin, end>>

PushCleanup(f, begin, end) ==
  [f EXCEPT
     !.scopes = Append(@, [begin |-> begin, end |-> end, exits |-> <<>>, selector |-> FALSE,
                           blocks |-> BlocksOf(begin, end)]),
     !.gotos = Append(@, <<>>),
     !.pads = Append(@, <<>>)]

(* runCleanups: terminate the current block with a branch that runs the    *)
(* cleanups from cursor `source' down to `target' and ends in `cont'.      *)
RunCleanups(f, source, target, cont) ==
  LET Copies == FoldLeft(LAMBDA a, i : RunCopying(a, i, a.cur, a.start, 0, FALSE),
                         [f EXCEPT !.start = cont], Ascending(target, source))
      NextBlock(i) == IF i - 1 > target THEN f.scopes[i - 1].begin ELSE cont
      f1 == SetTerm(f, f.cur, Br(f.scopes[source].begin))
  IN IF f.msvc THEN BranchToStart(Copies, f.cur)
     ELSE IF target = source THEN SetTerm(f, f.cur, Br(cont))
     ELSE FoldLeft(LAMBDA a, i : RunSelector(a, i, a.cur, NextBlock(i)),
                   f1, Descending(source, target))

(* Mutant: an unresolved goto leaves the scope without its cleanup.        *)
LeaveGoto(f, i, jump) == f

(* A goto that is still unresolved when a scope is popped leaves it: its   *)
(* branches are redirected to the cleanup, which continues at the          *)
(* tentative target (0 is the placeholder block).                          *)
RedirectGoto(f, i, jump) ==
  ReplaceByStart(Run(ReplaceAllUsesWith(f, {jump.tentative}, 0), i, jump.src, jump.tentative), 0)

(* Mutant: the landing pads of the scope are not popped.                   *)
PopCleanupKeepPads(f, i) ==
  LET f1 == FoldLeft(LAMBDA a, j : RedirectGoto(a, i, j), f, f.gotos[i + 1])
  IN [f1 EXCEPT !.scopes = Front(f1.scopes),
                !.gotos = [Front(f1.gotos) EXCEPT ![i] = f1.gotos[i] \o f.gotos[i + 1]]]

PopCleanup(f, i) ==
  LET f1 == FoldLeft(LAMBDA a, j : RedirectGoto(a, i, j), f, f.gotos[i + 1])
  IN [f1 EXCEPT !.scopes = Front(f1.scopes),
                !.gotos = [Front(f1.gotos) EXCEPT ![i] = f1.gotos[i] \o f.gotos[i + 1]],
                !.pads = Front(f1.pads)]

PopCleanups(f, target) ==
  FoldLeft(LAMBDA a, i : PopCleanup(a, i), f, Descending(CurrentCleanupScope(f), target))

RegisterUnresolvedGoto(f, label) ==
  LET f1 == NewBlock(f)
      t  == LastBlock(f1)
      c  == Len(f.gotos)
  IN [SetTerm(f1, f.cur, Br(t)) EXCEPT
        !.gotos[c] = Append(@, [src |-> f.cur, tentative |-> t, label |-> label])]

(* Mutant: only the first goto that waits for the label is resolved.       *)
TryResolveFirstGoto(f, label, target) ==
  LET c == Len(f.gotos)
      k == SelectInSeq(f.gotos[c], LAMBDA j : j.label = label)
  IN IF k = 0 THEN f
     ELSE [ReplaceAllUsesWith(f, {f.gotos[c][k].tentative}, target)
             EXCEPT !.gotos[c] = RemoveAt(@, k)]

TryResolveGotos(f, label, target) ==
  LET c == Len(f.gotos)
      mine == {j \in Range(f.gotos[c]) : j.label = label}
      f1 == ReplaceAllUsesWith(f, {j.tentative : j \in mine}, target)
  IN [f1 EXCEPT !.gotos[c] = Filter(@, LAMBDA j : j.label # label)]

-----------------------------------------------------------------------------
(* TryCatchFinallyScopes: landing pads                                     *)

(* Add one catch clause: the pad's selector is compared with the class,    *)
(* a mismatch goes on with the next clause.                                *)
AddCatch(f, pad, cb) ==
  LET f1 == NewBlock(f)
      mismatch == LastBlock(f1)
  IN [SetTerm(f1, f.cur, Term("match", <<cb.class>>, <<cb.body, mismatch>>)) EXCEPT
        !.blk[pad].pad.clauses = Append(@, cb.class), !.cur = mismatch]

(* Mutant: the landing pad is not marked as a cleanup.                     *)
CleanupsUnmarked(f, pad, last, new) ==
  LET f1 == NewBlock(f)
  IN [RunCleanups(f1, last, new, LastBlock(f1)) EXCEPT !.cur = LastBlock(f1)]

CleanupsBefore(f, pad, last, new) ==
  LET f1 == NewBlock([f EXCEPT !.blk[pad].pad.cleanup = TRUE])
      after == LastBlock(f1)
  IN [RunCleanups(f1, last, new, after) EXCEPT !.cur = after]

(* One try-catch scope of the chain: the cleanups between it and the       *)
(* previous, inner one, then its clauses.                                  *)
AddTryCatch(a, pad, tc) ==
  LET f1 == IF a.last > tc.scope THEN CleanupsBefore(a.f, pad, a.last, tc.scope) ELSE a.f
  IN [f |-> FoldLeft(LAMBDA x, cb : AddCatch(x, pad, cb), f1, tc.blocks), last |-> tc.scope]

GetOrCreateResumeUnwindBlock(f) ==
  IF f.resume # 0 THEN f
  ELSE LET f1 == AddBlock(f, Block(Term("resume", <<>>, <<>>)))
       IN [f1 EXCEPT !.resume = LastBlock(f1)]

(* Behind the last clause: the cleanups that are left, then resume.        *)
ResumeUnwind(f, pad, last) ==
  CASE last > 0 -> RunCleanups([f EXCEPT !.blk[pad].pad.cleanup = TRUE], last, 0, f.resume)
    [] last = 0 /\ f.catches # <<>> -> ReplaceAllUsesWith(f, {f.cur}, f.resume)
    [] last = 0 /\ f.catches = <<>> -> SetTerm(f, f.cur, Br(f.resume))

EmitLandingPad(f) ==
  LET f1  == NewBlock(f)
      pad == LastBlock(f1)
      Finish(a) == ResumeUnwind(GetOrCreateResumeUnwindBlock(a.f), pad, a.last)
  IN [Finish(FoldLeft(LAMBDA x, tc : AddTryCatch(x, pad, tc),
                      [f |-> [f1 EXCEPT !.cur = pad], last |-> CurrentCleanupScope(f)],
                      Reverse(f.catches)))
        EXCEPT !.cur = f.cur, !.start = pad]

(* runCleanupPad: a copy of the cleanup between cleanuppad and cleanupret. *)
(* (_d_enter_cleanup always returns true.)                                 *)
RunCleanupPad(f, i, unwindTo) ==
  IF IsCatchSwitchBlock(f, f.scopes[i].begin)
  THEN [f EXCEPT !.start = f.scopes[i].begin]
  ELSE LET ret == Term("cleanupret", <<>>, IF unwindTo = 0 THEN <<>> ELSE <<unwindTo>>)
           f1 == AddBlock(NewBlock(f), Block(ret))
           bb == LastBlock(f1) - 1
       IN [BranchToStart(RunCopying(f1, i, bb, LastBlock(f1), unwindTo, TRUE), bb)
             EXCEPT !.start = bb]

(* The pad of one cursor, 0 when there is none yet; getLandingPadRef       *)
PadRef(f, c) == IF f.pads[c + 1] = <<>> THEN 0 ELSE Last(f.pads[c + 1])
SetPadRef(f, c) ==
  [f EXCEPT !.pads[c + 1] = IF @ = <<>> THEN <<f.start>> ELSE Append(Front(@), f.start)]

(* emitLandingPadMSVC: the pads of the outer cursors first, each the       *)
(* unwind target of the next; then the one asked for.                      *)
EmitPadOf(f, c) ==
  IF PadRef(f, c) # 0 THEN f
  ELSE SetPadRef(RunCleanupPad(f, c, IF c = 1 THEN 0 ELSE PadRef(f, c - 1)), c)

GetLandingPad(f) ==
  LET c == CurrentCleanupScope(f)
      Cached(f1) == [f1 EXCEPT !.start = PadRef(f1, c)]
  IN Cached(IF f.msvc THEN FoldLeft(LAMBDA a, k : EmitPadOf(a, k), f, Ascending(0, c))
            ELSE IF PadRef(f, c) # 0 THEN f
            ELSE SetPadRef(EmitLandingPad(f), c))

(* Mutant: only the innermost try statement is asked.                      *)
InnermostCatchesNonExceptions(f) ==
  f.catches # <<>> /\ Last(f.catches).nonExceptions

IsCatchingNonExceptions(f) ==
  \E i \in DOMAIN f.catches : f.catches[i].nonExceptions

Invoke(f, want) ==
  LET post == LastBlock(f) + 1
  IN [SetTerm(NewBlock(f), f.cur, Term("invoke", <<>>, <<post, f.start>>)) EXCEPT
        !.blk[f.cur].want = want, !.cur = post]

(* callOrInvoke: a call that may throw ends its block and unwinds to the   *)
(* landing pad; one that may not, or with no scope around it, does not.    *)
CallOrInvoke(f, isNothrow, want) ==
  IF (isNothrow /\ ~IsCatchingNonExceptions(f)) \/ (f.scopes = <<>> /\ f.catches = <<>>)
  THEN [f EXCEPT !.plain = @ \cup {want}]
  ELSE Invoke(GetLandingPad(f), want)

-----------------------------------------------------------------------------
(* What the source program asks for, from the nesting of the statements    *)
(* alone: the cleanups in scope and the catch clauses around a point.      *)

InScope(n) == FoldLeft(LAMBDA a, s : a \o s.cleanups, <<>>, n)
Handlers(n) == Filter(n, LAMBDA s : s.kind = "catch")
TryBlocks(n) ==
  FoldLeft(LAMBDA a, s : a \o (IF s.kind = "catch" THEN s.bodies ELSE s.cleanups), <<>>, n)

Jumping(n, keep, to) == [kind |-> "jump", cleanups |-> InScope(n), keep |-> keep, to |-> to]
Going(n, label) ==
  [kind |-> "goto", cleanups |-> InScope(n), tries |-> TryBlocks(n), label |-> label]
Throwing(n, thrown, nested) ==
  [kind |-> "throw", nested |-> nested, cleanups |-> InScope(n), thrown |-> thrown,
   handlers |-> [k \in DOMAIN Handlers(n) |->
                   [list |-> Handlers(n)[k].list, bodies |-> Handlers(n)[k].bodies,
                    keep |-> Handlers(n)[k].keep]]]

Want(f, b, want) == [f EXCEPT !.blk[b].want = want]

(* Bounds: the number of statements, and only a label or a call follows a  *)
(* jump, that is, stands in a block nothing branches to.                   *)
Live == g.cur = 1 \/ \E b \in DOMAIN g.blk : g.cur \in Range(g.blk[b].term.to)
Unfinished == phase = "visit" /\ stmts < MaxStmts
Visiting == Unfinished /\ Live
Visited == stmts' = stmts + 1 /\ UNCHANGED <<msvc, phase>>
InExpression == nest # <<>> /\ Last(nest).kind = "expr"
HasRoom == Len(InScope(nest)) < MaxCleanups
Open(s) == nest' = Append(nest, s)

(* The code of a cleanup or of a catch body: a new block, with a call that *)
(* may throw when `throws'.  It is emitted before its scope is pushed.     *)
EmitBody(f, throws) ==
  LET f1 == NewBlock(f)
      f2 == [f1 EXCEPT !.cur = LastBlock(f1)]
  IN IF throws THEN CallOrInvoke(f2, FALSE, Throwing(nest, Thrown, FALSE)) ELSE f2

-----------------------------------------------------------------------------
(* Statements                                                              *)

(* The bodies of a try statement's catches.  They are emitted before the   *)
(* scope is registered, so what they throw does not reach its own clauses. *)
EmitCatchBodies(f, list, endbb, throws) ==
  LET Close(b) == SetTerm(b, b.cur, Br(endbb))
  IN FoldLeft(LAMBDA a, c : [f |-> Close(EmitBody(a.f, throws)),
                             bodies |-> Append(a.bodies, LastBlock(a.f) + 1)],
              [f |-> f, bodies |-> <<>>], list)

(* With funclets a catchswitch block dispatches to the bodies or unwinds   *)
(* to the pad around it; it is pushed as a cleanup scope of its own.       *)
EmitCatchBodiesMSVC(f, list, endbb, throws) ==
  LET CatchSwitch(h) ==
        AddBlock(h, Block(Term("catchswitch", list, IF h.start = 0 THEN <<>> ELSE <<h.start>>)))
      Dispatch(done, b) ==
        [done EXCEPT !.f = PushCleanup([done.f EXCEPT !.blk[b].term.to = done.bodies \o @], b, b)]
      Emit(h) == Dispatch(EmitCatchBodies(h, list, endbb, throws), LastBlock(h))
  IN Emit(CatchSwitch(IF f.scopes # <<>> THEN GetLandingPad(f) ELSE [f EXCEPT !.start = 0]))

TryCatchScope(cursor, list, bodies) ==
  [scope |-> cursor,
   nonExceptions |-> \E k \in DOMAIN list : list[k] # "Exception",
   blocks |-> [k \in DOMAIN list |-> [class |-> list[k], body |-> bodies[k]]]]

PushTryCatch(f, list, endbb, throws) ==
  LET c == CurrentCleanupScope(f)
      Register(done) ==
        [done EXCEPT !.f.pads = IF f.msvc THEN done.f.pads
                                ELSE [done.f.pads EXCEPT ![c + 1] = Append(@, 0)],
                     !.f.catches = Append(@, TryCatchScope(c, list, done.bodies))]
  IN Register(IF f.msvc THEN EmitCatchBodiesMSVC(f, list, endbb, throws)
                        ELSE EmitCatchBodies(f, list, endbb, throws))

PopTryCatch(f) ==
  LET f1 == [f EXCEPT !.catches = Front(@)]
      c  == CurrentCleanupScope(f)
  IN IF f.msvc THEN PopCleanups(f1, c - 1)
     ELSE [f1 EXCEPT !.pads[c + 1] = Front(@)]

(* The code of a finally block.  A try statement in it (outside funclets)  *)
(* has a landing pad and a handler of its own.                             *)
EmitCleanup(f, kind) ==
  LET f1 == NewBlock(NewBlock(f))
      body == LastBlock(f) + 1
      endbb == LastBlock(f) + 2
      Inner(try) == [kind |-> "catch", cleanups |-> <<>>, list |-> <<"Throwable">>,
                     bodies |-> try.bodies, keep |-> InScope(nest)]
      Try(try) == CallOrInvoke([try.f EXCEPT !.cur = body], FALSE,
                               Throwing(Append(nest, Inner(try)), Thrown, TRUE))
      End(f2) == [PopTryCatch(SetTerm(f2, f2.cur, Br(endbb))) EXCEPT !.cur = endbb]
  IN IF kind # "catches" THEN EmitBody(f, kind = "throws")
     ELSE End(Try(PushTryCatch([f1 EXCEPT !.cur = body], <<"Throwable">>, endbb, FALSE)))

(* The code just emitted, from `body' to the current block, is a cleanup;  *)
(* the visitor goes on in block `back'.                                    *)
PushBody(f, body, back) ==
  [PushCleanup([f EXCEPT !.blk[body].runs = body], body, f.cur) EXCEPT !.cur = back]

(* try { ... } finally { body }: the finally block is emitted first and    *)
(* pushed as a cleanup, then the try block goes to the current block.      *)
BeginTryFinally(kind) ==
  LET f1 == NewBlock(g)                                  \* try.success
      body == LastBlock(f1) + 1
  IN /\ Visiting /\ ~InExpression /\ HasRoom
     /\ msvc => kind # "catches"
     /\ g' = PushBody(EmitCleanup(f1, kind), body, g.cur)
     /\ Open([kind |-> "finally", cleanups |-> <<body>>,
              before |-> CurrentCleanupScope(g), success |-> LastBlock(f1)])
     /\ Visited

EndTryFinally ==
  LET s == Last(nest)
      f1 == RunCleanups(g, CurrentCleanupScope(g), s.before, s.success)
      f2 == Want(f1, g.cur, Jumping(nest, InScope(Front(nest)), s.success))
  IN /\ phase = "visit" /\ nest # <<>> /\ Last(nest).kind = "finally"
     /\ g' = PopCleanups([f2 EXCEPT !.cur = s.success], s.before)
     /\ nest' = Front(nest)
     /\ UNCHANGED <<msvc, phase, stmts>>

BeginTryCatch(list, throws) ==
  LET f1 == NewBlock(g)                                  \* try.success.or.caught
      endbb == LastBlock(f1)
      Enter(scope) ==
        /\ g' = [scope.f EXCEPT !.cur = g.cur]
        /\ Open([kind |-> "catch", cleanups |-> <<>>, list |-> list, bodies |-> scope.bodies,
                 keep |-> InScope(nest), before |-> CurrentCleanupScope(g), endbb |-> endbb])
  IN /\ Visiting /\ ~InExpression
     /\ Len(Handlers(nest)) < MaxCleanups
     /\ Enter(PushTryCatch(f1, list, endbb, throws))
     /\ Visited

EndTryCatch ==
  LET endbb == Last(nest).endbb
  IN /\ phase = "visit" /\ nest # <<>> /\ Last(nest).kind = "catch"
     /\ g' = [PopTryCatch(SetTerm(g, g.cur, Br(endbb))) EXCEPT !.cur = endbb]
     /\ nest' = Front(nest)
     /\ UNCHANGED <<msvc, phase, stmts>>

(* Mutant: the targets do not remember where the loop stands.              *)
PushLoopTargetAtTop(f, continueTarget, breakTarget) ==
  [f EXCEPT !.loops = Append(@, [continue |-> continueTarget, break |-> breakTarget,
                                 scope |-> 0])]

(* Break and continue targets remember the cursor of their loop.           *)
PushLoopTarget(f, continueTarget, breakTarget) ==
  [f EXCEPT !.loops = Append(@, [continue |-> continueTarget, break |-> breakTarget,
                                 scope |-> CurrentCleanupScope(f)])]

BeginWhile ==
  LET f1 == NewBlock(NewBlock(NewBlock(g)))
      whilebb == LastBlock(g) + 1
      bodybb == whilebb + 1
      endbb == whilebb + 2
      f2 == SetTerm(SetTerm(f1, g.cur, Br(whilebb)), whilebb, Term("cond", <<>>, <<bodybb, endbb>>))
  IN /\ Visiting /\ ~InExpression
     /\ ~ \E k \in DOMAIN nest : nest[k].kind = "loop"
     /\ g' = [PushLoopTarget(f2, whilebb, endbb) EXCEPT !.cur = bodybb]
     /\ Open([kind |-> "loop", cleanups |-> <<>>, keep |-> InScope(nest),
              before |-> CurrentCleanupScope(g), endbb |-> endbb])
     /\ Visited

EndWhile ==
  LET loop == Last(g.loops)
  IN /\ phase = "visit" /\ nest # <<>> /\ Last(nest).kind = "loop"
     /\ g' = [SetTerm(g, g.cur, Br(loop.continue)) EXCEPT
                !.cur = loop.break, !.loops = Front(@)]
     /\ nest' = Front(nest)
     /\ UNCHANGED <<msvc, phase, stmts>>

(* A jump ends its block; the visitor goes on in a new one.                *)
Continue(f) == LET f1 == NewBlock(f) IN [f1 EXCEPT !.cur = LastBlock(f1)]

JumpToClosest(f, exit) ==
  LET t == Last(f.loops) IN RunCleanups(f, CurrentCleanupScope(f), t.scope, t[exit])

(* break and continue of the enclosing loop                                *)
LoopJump(exit) ==
  LET stmt == CHOOSE k \in DOMAIN nest : nest[k].kind = "loop"
      f1 == JumpToClosest(g, exit)
  IN /\ Visiting /\ ~InExpression /\ g.loops # <<>>
     /\ g' = Continue(Want(f1, g.cur, Jumping(nest, nest[stmt].keep, Last(g.loops)[exit])))
     /\ Visited
     /\ UNCHANGED nest

(* return: with cleanups in scope the return block is shared; temporaries  *)
(* of the return expression are popped once their cleanups are run.        *)
Return ==
  LET before == IF InExpression THEN Last(nest).before ELSE CurrentCleanupScope(g)
      f1 == IF g.ret # 0 THEN g
            ELSE LET a == AddBlock(g, Block(Term("ret", <<>>, <<>>)))
                 IN [a EXCEPT !.ret = LastBlock(a)]
      f2 == RunCleanups(f1, CurrentCleanupScope(g), 0, f1.ret)
      f3 == PopCleanups(Want(f2, g.cur, Jumping(nest, <<>>, f1.ret)), before)
  IN /\ Visiting
     /\ g' = Continue(IF CurrentCleanupScope(g) # 0 THEN f3
                      ELSE SetTerm(g, g.cur, Term("ret", <<>>, <<>>)))
     /\ nest' = IF InExpression THEN Front(nest) ELSE nest
     /\ Visited

(* A call; the callee may throw anything, or only Errors if it is nothrow. *)
Call(isNothrow) ==
  /\ Unfinished
  /\ g' = CallOrInvoke(g, isNothrow, Throwing(nest, IF isNothrow THEN {"Error"} ELSE Thrown, FALSE))
  /\ Visited
  /\ UNCHANGED nest

(* pushVarDtorCleanup: a temporary whose destructor runs at the end of the *)
(* full expression; getResult: its end, the temporaries popped at once.    *)
PushTemporary(kind) ==
  LET body == LastBlock(g) + 1
      earlier == IF InExpression THEN Last(nest).cleanups ELSE <<>>
      before == IF InExpression THEN Last(nest).before ELSE CurrentCleanupScope(g)
      outer == IF InExpression THEN Front(nest) ELSE nest
  IN /\ Visiting /\ HasRoom /\ kind # "catches"
     /\ g' = PushBody(EmitBody(g, kind = "throws"), body, g.cur)
     /\ nest' = Append(outer, [kind |-> "expr", cleanups |-> Append(earlier, body), before |-> before])
     /\ Visited

EndExpression ==
  LET s == Last(nest)
      f1 == NewBlock(g)
      endbb == LastBlock(f1)
      f2 == RunCleanups(f1, CurrentCleanupScope(g), s.before, endbb)
      f3 == Want(f2, g.cur, Jumping(nest, InScope(Front(nest)), endbb))
  IN /\ phase = "visit" /\ InExpression
     /\ g' = [PopCleanups(f3, s.before) EXCEPT !.cur = endbb]
     /\ nest' = Front(nest)
     /\ UNCHANGED <<msvc, phase, stmts>>

(* A label: the gotos of this cleanup scope that wait for it are resolved. *)
AddLabelTarget(f, l, bb) ==
  LET target == [bb |-> bb, scope |-> CurrentCleanupScope(f),
                 keep |-> InScope(nest), tries |-> TryBlocks(nest)]
  IN TryResolveGotos([f EXCEPT !.labels = Bind(@, l, target)], l, bb)

Label(l) ==
  LET f1 == NewBlock(g)
      bb == LastBlock(f1)
  IN /\ Unfinished /\ ~InExpression /\ l \notin DOMAIN g.labels
     /\ g' = [SetTerm(AddLabelTarget(f1, l, bb), g.cur, Br(bb)) EXCEPT !.cur = bb]
     /\ Visited
     /\ UNCHANGED nest

(* goto: to a label already seen it runs the cleanups at once, any other   *)
(* is registered.                                                          *)
JumpToLabel(f, l) ==
  IF l \in DOMAIN f.labels
  THEN RunCleanups(f, CurrentCleanupScope(f), f.labels[l].scope, f.labels[l].bb)
  ELSE RegisterUnresolvedGoto(f, l)

(* The front end lets no goto into a try block through; what it guarantees *)
(* is used for labels that were seen.                                      *)
Goto(l) ==
  /\ Visiting /\ ~InExpression
  /\ l \in DOMAIN g.labels => IsPrefix(g.labels[l].tries, TryBlocks(nest))
  /\ g' = Continue(Want(JumpToLabel(g, l), g.cur, Going(nest, l)))
  /\ Visited
  /\ UNCHANGED nest

(* A variadic function starts with a cleanup that calls va_end.            *)
Variadic ==
  LET f1 == NewBlock(g)
      vaend == LastBlock(f1)
  IN /\ Visiting /\ stmts = 0
     /\ g' = PushCleanup([f1 EXCEPT !.blk[vaend].runs = vaend], vaend, vaend)
     /\ Open([kind |-> "func", cleanups |-> <<vaend>>, before |-> 0])
     /\ Visited

(* The end of the body: the cleanups of the function itself (va_end), then *)
(* the destructor of the scopes, which rejects gotos nothing resolved.     *)
EndFunction ==
  LET f1 == IF g.ret # 0 THEN g
            ELSE LET a == AddBlock(g, Block(Term("ret", <<>>, <<>>)))
                 IN [a EXCEPT !.ret = LastBlock(a)]
      f2 == RunCleanups(f1, CurrentCleanupScope(g), 0, f1.ret)
      f3 == IF g.scopes = <<>> THEN SetTerm(g, g.cur, Term("ret", <<>>, <<>>))
            ELSE PopCleanups(Want(f2, g.cur, Jumping(nest, <<>>, f1.ret)), 0)
  IN /\ phase = "visit"
     /\ nest = <<>> \/ (Len(nest) = 1 /\ nest[1].kind = "func")
     /\ g' = f3
     /\ phase' = IF g'.gotos[1] = <<>> THEN "done" ELSE "rejected"
     /\ nest' = <<>>
     /\ UNCHANGED <<msvc, stmts>>

Compiled == phase # "visit" /\ UNCHANGED vars

-----------------------------------------------------------------------------
(* A function body to compile.                                             *)
Entry(eh) ==
  [msvc |-> eh, blk |-> <<Block(NoTerm)>>, cur |-> 1, start |-> 0, scopes |-> <<>>,
   catches |-> <<>>, gotos |-> <<<<>>>>, pads |-> <<<<>>>>, labels |-> <<>>,
   loops |-> <<>>, ret |-> 0, resume |-> 0,
   plain |-> {}]
Init ==
  /\ msvc \in MSVC
  /\ g = Entry(msvc)
  /\ nest = <<>>
  /\ phase = "visit"
  /\ stmts = 0

Next ==
  \/ \E kind \in Bodies : BeginTryFinally(kind) \/ PushTemporary(kind)
  \/ \E l \in CatchLists : BeginTryCatch(l, "throws" \in Bodies)
  \/ EndTryFinally \/ EndTryCatch \/ EndExpression
  \/ BeginWhile \/ EndWhile \/ LoopJump("break") \/ LoopJump("continue")
  \/ Return
  \/ \E isNothrow \in BOOLEAN : Call(isNothrow)
  \/ \E l \in Labels : Label(l) \/ Goto(l)
  \/ Variadic \/ EndFunction
  \/ Compiled

Spec == Init /\ [][Next]_vars

-----------------------------------------------------------------------------
(* Following a path through the emitted blocks                             *)

(* The clause with which the unwinder enters a pad, "none" for a cleanup.  *)
Clause(pad, t) ==
  LET cs == g.blk[pad].pad.clauses
      c == SelectInSeq(cs, LAMBDA x : Matches(t, x))
  IN IF c = 0 THEN "none" ELSE cs[c]

(* One step of the machine: w.at is the block entered, w.mem the selectors *)
(* stored on this path, w.sel and w.ptr the stack slots eh.selector and    *)
(* eh.ptr, w.runs the cleanups entered.  A selector that was not stored    *)
(* leads nowhere.  With w.nested a call in a cleanup that catches throws:  *)
(* its landing pad stores to the same two slots.                           *)
Step(w) ==
  LET b == g.blk[w.at]
      mem == b.stores @@ w.mem
      t == b.term
      handler == SelectInSeq(t.arg, LAMBDA c : Matches(w.sel, c))
      throws == t.op = "invoke" /\ w.nested /\ b.want.nested
      next ==
        CASE throws -> t.to[2]
          [] ~throws /\ t.op \in {"br", "invoke", "cleanupret"} -> IF t.to = <<>> THEN 0 ELSE t.to[1]
          [] t.op = "switch" ->
               IF t.arg[1] \notin DOMAIN mem THEN 0
               ELSE IF mem[t.arg[1]] + 1 \in DOMAIN t.to THEN t.to[mem[t.arg[1]] + 1]
               ELSE t.to[1]
          [] t.op = "match" -> IF w.sel = t.arg[1] THEN t.to[1] ELSE t.to[2]
          [] t.op = "catchswitch" ->
               IF handler # 0 THEN t.to[handler]
               ELSE IF Len(t.to) > Len(t.arg) THEN Last(t.to) ELSE 0
          [] OTHER -> 0
  IN [w EXCEPT !.at = next, !.mem = mem, !.last = w.at,
               !.sel = IF throws THEN Clause(t.to[2], "Exception") ELSE @,
               !.ptr = IF throws THEN "nested" ELSE @,
               !.runs = IF b.runs = 0 THEN @ ELSE Append(@, b.runs)]

(* A path enters no block twice on the way to its goal.                    *)
Onward(v) == IF v.at \in {0, v.goal} THEN v ELSE Step(v)
Follow(w) ==
  LET follow[n \in 0..Len(g.blk)] == IF n = 0 THEN w ELSE Onward(follow[n - 1])
  IN follow[Len(g.blk)]

Path(from, goal) ==
  [at |-> from, mem |-> <<>>, sel |-> "none", ptr |-> "thrown", nested |-> FALSE,
   runs |-> <<>>, last |-> 0, goal |-> goal]

(* The cleanups a path runs that leaves `inner' for the point where        *)
(* `outer' is in scope, innermost first.                                   *)
Leaving(inner, outer) == Reverse(SubSeq(inner, Len(outer) + 1, Len(inner)))

(* A path from the branch at the end of a block: the block's stores have   *)
(* been executed, whatever ran in the block before them does not count.    *)
FromBranch(b, goal) == [Step(Path(b, 0)) EXCEPT !.runs = <<>>, !.goal = goal]

(* Where an object thrown at a call goes: the innermost try statement with *)
(* a clause for it, or 0 when it leaves the function.                      *)
Catching(w, t) ==
  LET trys == {k \in DOMAIN w.handlers : \E i \in DOMAIN w.handlers[k].list :
                 Matches(t, w.handlers[k].list[i])}
  IN IF trys = {} THEN 0 ELSE CHOOSE k \in trys : \A x \in trys : x <= k

(* The unwinder enters a landing pad with the first clause that matches,   *)
(* or without one when the pad is marked as a cleanup; otherwise it passes *)
(* the frame by.  A funclet pad is entered as it is.                       *)
Unwind(pad, t, goal, nested) ==
  LET start == [Path(pad, goal) EXCEPT !.sel = IF msvc THEN t ELSE Clause(pad, t),
                                       !.nested = nested]
  IN IF msvc \/ start.sel # "none" \/ g.blk[pad].pad.cleanup THEN Follow(start)
     ELSE [start EXCEPT !.at = g.resume]

-----------------------------------------------------------------------------
(* Properties                                                              *)

(* The three stacks of TryCatchFinallyScopes move together, every branch   *)
(* goes to an emitted block, and with funclets no selector is used.        *)
TypeOK ==
  /\ phase \in {"visit", "done", "rejected"}
  /\ Len(g.gotos) = Len(g.scopes) + 1
  /\ Len(g.pads) = Len(g.scopes) + 1
  /\ g.cur \in DOMAIN g.blk
  /\ \A b \in DOMAIN g.blk :
       /\ \A k \in DOMAIN g.blk[b].term.to : g.blk[b].term.to[k] \in DOMAIN g.blk
       /\ msvc => g.blk[b].stores = <<>> /\ g.blk[b].term.op # "switch"
  /\ phase # "visit" => g.scopes = <<>> /\ g.catches = <<>>

(* Every way out of a scope that is not a goto (its end, break, continue,  *)
(* return, the end of a full expression) runs exactly the cleanups it      *)
(* leaves, innermost first, and then reaches its own target: neither the   *)
(* target of another path through a shared cleanup (run() with its branch  *)
(* selector) nor a cleanup of a copy made for another one (runCopying).    *)
ExitsRunCleanups ==
  \A b \in DOMAIN g.blk :
    LET w == g.blk[b].want
        p == Follow(FromBranch(b, w.to))
    IN w.kind = "jump" => p.at = w.to /\ p.runs = Leaving(w.cleanups, w.keep)

Pending(b) ==
  {j \in UNION {Range(g.gotos[c]) : c \in DOMAIN g.gotos} : j.src = b}

(* A goto runs the cleanups it leaves and arrives at its label, also when  *)
(* the label comes later: until then (popCleanups) it has run those of the *)
(* scopes popped since and waits at its tentative target.  A goto is never *)
(* resolved to a label in a scope that does not enclose it.                *)
GotosRunCleanups ==
  \A b \in DOMAIN g.blk :
    LET w == g.blk[b].want
        left == Reverse(SelectSeq(w.cleanups, LAMBDA c : c \notin Range(InScope(nest))))
    IN w.kind = "goto" =>
         IF Pending(b) # {}
         THEN \A j \in Pending(b) :
                LET p == Follow(FromBranch(b, j.tentative))
                IN p.at = j.tentative /\ p.runs = left
         ELSE LET l == g.labels[w.label]
                  p == Follow(FromBranch(b, l.bb))
              IN /\ w.label \in DOMAIN g.labels
                 /\ IsPrefix(l.keep, w.cleanups)
                 /\ p.at = l.bb /\ p.runs = Leaving(w.cleanups, l.keep)

(* The error of the destructor is never raised against a legal program:    *)
(* a function is rejected only if a goto has no label in a try block that  *)
(* also encloses the goto.                                                 *)
RejectsOnlyIllegal ==
  phase = "rejected" =>
    \E b \in DOMAIN g.blk :
      LET w == g.blk[b].want
      IN /\ w.kind = "goto"
         /\ \/ w.label \notin DOMAIN g.labels
            \/ ~IsPrefix(g.labels[w.label].tries, w.tries)

(* The object t thrown at the call that ends block b reaches the handler   *)
(* of the innermost try statement that catches it, after the cleanups      *)
(* between the two and no others; if nothing catches it, all cleanups run  *)
(* before it leaves the function.                                          *)
Delivered(b, t, nested) ==
  LET w == g.blk[b].want
      k == Catching(w, t)
      h == w.handlers[k]
      body == h.bodies[SelectInSeq(h.list, LAMBDA c : Matches(t, c))]
      p == Unwind(g.blk[b].term.to[2], t, IF k # 0 THEN body ELSE g.resume, nested)
  IN /\ p.ptr = "thrown"
     /\ IF k # 0 THEN p.at = body /\ p.runs = Leaving(w.cleanups, h.keep)
        ELSE /\ p.runs = Reverse(w.cleanups)
             /\ IF msvc THEN p.at = 0 /\ g.blk[p.last].term.op \in {"cleanupret", "catchswitch"}
                ELSE p.at = g.resume

(* What a call throws, in a body, a cleanup, a copy of one or a catch      *)
(* body, is delivered: to the right handler, by the right cleanups.        *)
(* (Landing pads are cached per scope: getLandingPad.)                     *)
UnwindsRunCleanups ==
  \A b \in DOMAIN g.blk :
    g.blk[b].want.kind = "throw" => \A t \in g.blk[b].want.thrown : Delivered(b, t, FALSE)

(* The same when a cleanup on the way throws and catches an exception of   *)
(* its own: the landing pad's comparison after the cleanup is about the    *)
(* object in flight, not about the one the cleanup has dealt with          *)
(* (emitLandingPad, eh.ptr and eh.selector).                               *)
UnwindsSurviveNested ==
  \A b \in DOMAIN g.blk :
    g.blk[b].want.kind = "throw" => \A t \in g.blk[b].want.thrown : Delivered(b, t, TRUE)

(* A call emitted without an unwind edge (callOrInvoke) has nothing to     *)
(* unwind to: no catch clause around it takes what it may throw, Errors of *)
(* nothrow functions included, and a throwing one leaves no cleanup.       *)
PlainCallsUncaught ==
  \A w \in g.plain :
    /\ \A t \in w.thrown : Catching(w, t) = 0
    /\ w.thrown = Thrown => w.cleanups = <<>>

-----------------------------------------------------------------------------
=============================================================================
