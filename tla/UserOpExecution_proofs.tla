----------------------- MODULE UserOpExecution_proofs -----------------------
(***************************************************************************)
(* Machine-checked theorems about UserOpExecution, for every set of        *)
(* accounts, owners, plugins and channels, every limit on sequences, calls *)
(* and nesting, and every batch.                                           *)
(*                                                                         *)
(* The inductive invariant, Running, has three ideas.  What a frame still  *)
(* has to do is well bracketed (Paired): a context it opens it also        *)
(* closes, and it calls out only inside one.  A frame is an operation that *)
(* holds the lock to its end, a batch that holds nothing, or maintenance,  *)
(* which can only be the oldest frame because it starts when nothing is    *)
(* open (Stacked); so contexts set and frames that will close them match   *)
(* one to one (Balanced), and a nonce is ahead of what has run exactly     *)
(* while its operation waits to run (Consumed).  And what a try has saved  *)
(* satisfies all this for the frames below it (SavedBelow), so unwinding   *)
(* to it preserves the invariant.                                          *)
(***************************************************************************)
EXTENDS UserOpExecution, SequenceTheorems, FiniteSetTheorems, TLAPS

(* The brackets of a todo: from its k-th step on, f is closed before        *)
(* anything opens it.                                                       *)
Enters(step, f) == step.do = "enter" /\ step.field = f

OpenAt(todo, k, f) ==
  \E l \in k .. Len(todo) :
    /\ todo[l] = Exit(f)
    /\ \A j \in k .. l - 1 : ~Enters(todo[j], f)

(* Every context opened is closed and every one closed was opened, and      *)
(* contracts are called only inside one.                                    *)
Paired(todo) ==
  \A k \in DOMAIN todo :
    /\ \A f \in ContextField :
         /\ Enters(todo[k], f) => OpenAt(todo, k + 1, f)
         /\ todo[k] = Exit(f) => ~OpenAt(todo, k + 1, f)
    /\ todo[k].do = "call" => \E f \in ContextField : OpenAt(todo, k, f)

(* Contexts of maintenance; the others are those of operations.             *)
Config == {"verifierConfig", "hookConfig"}

OperationStep ==
       [do: {"enter"}, field: {"verify", "hookExecution"}, value: Contract]
  \cup [do: {"exit"}, field: ContextField \ Config]
  \cup [do: {"call"}, contract: Contract]
BatchStep == [do: {"execute"}, nonce: Nonce, target: Target]
MaintenanceStep ==
       [do: {"enter"}, field: Config, value: Contract]
  \cup [do: {"exit"}, field: Config]
  \cup [do: {"call"}, contract: Contract]
  \cup [do: {"store"}, state: AccountState]
  \cup [do: {"forget"}, fields: SUBSET {"verifier", "hook"}]
  \cup [do: {"release"}]

(* An operation holds the lock to its last step and runs its target once.   *)
Operation(todo) ==
  /\ todo \in Seq(OperationStep)
  /\ Paired(todo)
  /\ \A k \in DOMAIN todo : OpenAt(todo, k, "lock")
  /\ \A j, k \in DOMAIN todo :
       Enters(todo[j], "verify") /\ Enters(todo[k], "verify") => j = k
ToRun(todo) == \E k \in DOMAIN todo : Enters(todo[k], "verify")

(* The other kinds of frame.                                                *)
Batch(frame) == ~IsUserOp(frame) /\ frame.todo \in Seq(BatchStep)
Maintaining(frame) ==
  ~IsUserOp(frame) /\ frame.todo \in Seq(MaintenanceStep) /\ Paired(frame.todo)

(* Frames on accounts that exist.                                           *)
Frames ==
  [account: Account, nonce: Nonce \cup {None}, todo: Seq(Step),
   saved: Snapshots \cup {None}]

Typed(accounts, stk) ==
  /\ stk \in Seq(Frames)
  /\ Len(stk) <= MaxDepth
  /\ \A i \in DOMAIN stk : accounts[stk[i].account] \in AccountState

(* Frames below the newest are calling out, or are a batch whose operation  *)
(* runs; maintenance is the oldest.                                         *)
Stacked(stk) ==
  \A i \in DOMAIN stk :
    /\ IsUserOp(stk[i]) => Operation(stk[i].todo)
    /\ \/ IsUserOp(stk[i])
       \/ Batch(stk[i])
       \/ i = 1 /\ Maintaining(stk[i])
    /\ i < Len(stk) => Calling(stk[i]) \/ Batch(stk[i])

(* Contexts set and frames that will close them match one to one.           *)
Opened(con) == {set \in Account \X ContextField : con[set[1]][set[2]] # None}
Balanced(con, d, stk) ==
  /\ \A a \in Account, f \in ContextField :
       con[a][f] # None
         <=> \E i \in DOMAIN stk : stk[i].account = a /\ HasOpen(stk[i], f)
  /\ \A i, j \in DOMAIN stk, f \in ContextField :
       stk[i].account = stk[j].account /\ HasOpen(stk[i], f) /\ HasOpen(stk[j], f)
         => i = j
  /\ IsFiniteSet(Opened(con))
  /\ d = Cardinality(Opened(con))

(* No operation on an account in escrow.                                    *)
NotHeld(held, stk) ==
  \A i \in DOMAIN stk : IsUserOp(stk[i]) => stk[i].account \notin held

(* A channel's operations have run in order, all whose nonce is consumed    *)
(* but for one that is still waiting to run.                                *)
Waiting(frame, a, c) ==
  /\ IsUserOp(frame) /\ frame.account = a
  /\ frame.nonce.channel = c /\ ToRun(frame.todo)
ConsumedAt(next, runs, stk, a, c) ==
  /\ Replay!InOrder(runs)
  /\ \A i \in DOMAIN stk : Waiting(stk[i], a, c) =>
       Len(runs) = stk[i].nonce.sequence /\ next = stk[i].nonce.sequence + 1
  /\ (\A i \in DOMAIN stk : ~Waiting(stk[i], a, c)) => Len(runs) = next
Consumed(cur, done, stk) ==
  \A a \in Account, c \in Channel : ConsumedAt(cur[a][c], done[a][c], stk, a, c)

(* Storage and frames that agree, in the present or in a snapshot.          *)
Execution(sn, stk) ==
  /\ sn \in Snapshots
  /\ Typed(sn.account, stk)
  /\ Stacked(stk)
  /\ Balanced(sn.context, sn.depth, stk)
  /\ NotHeld(sn.escrow, stk)
  /\ Consumed(sn.cursor, sn.ran, stk)

(* Two snapshots in which nobody's owner, plugins, staged replacements or   *)
(* escrow differ.                                                           *)
SameAuthority(s, t) ==
  /\ s.pending = t.pending
  /\ s.escrow = t.escrow
  /\ \A a \in Account :
       \/ s.account[a] = t.account[a]
       \/ /\ s.account[a] \in AccountState /\ t.account[a] \in AccountState
          /\ s.account[a].verifier = t.account[a].verifier
          /\ s.account[a].hook = t.account[a].hook
          /\ s.account[a].backupOwner = t.account[a].backupOwner
(* What has run is not forgotten.                                           *)
NoShorter(old, new) ==
  \A a \in Account, c \in Channel : Len(old[a][c]) <= Len(new[a][c])

(* Each try has saved storage that agrees with the frames below it.         *)
SavedBelow(base, sn, stk) ==
  \A i \in DOMAIN stk : stk[i].saved # None =>
    /\ Execution(stk[i].saved, SubSeq(stk, 1, i - 1))
    /\ NoShorter(base, stk[i].saved.ran)
    /\ i > 1 => Calling(stk[i - 1]) /\ SameAuthority(stk[i].saved, sn)

(* The inductive invariant.                                                 *)
Running ==
  /\ Execution(Snapshot, stack)
  /\ Idle => stack = <<>>
  /\ ~Idle => /\ tx \in Transactions
              /\ Execution(tx.saved, <<>>)
              /\ NoShorter(tx.saved.ran, ran)
              /\ SavedBelow(tx.saved.ran, Snapshot, stack)
-----------------------------------------------------------------------------
LEMMA Kinds ==
  ASSUME NEW x \in Step
  PROVE  /\ \A f \in ContextField : x = Exit(f) <=> x.do = "exit" /\ x.field = f
         /\ \A f : x = Exit(f) => ~Enters(x, f)
         /\ x.do = "enter" => x.field \in ContextField /\ x.value \in Contract
         /\ x.do = "exit" => x.field \in ContextField /\ x = Exit(x.field)
         /\ x.do = "store" => x.state \in AccountState
         /\ x.do = "execute" => x.nonce \in Nonce /\ x.target \in Target
  BY DEF Step, Exit, Enters

LEMMA StepKinds ==
  /\ OperationStep \subseteq Step
  /\ BatchStep \subseteq Step
  /\ MaintenanceStep \subseteq Step
  BY DEF OperationStep, BatchStep, MaintenanceStep, Step, Config, ContextField

LEMMA NextOpen ==
  ASSUME NEW todo \in Seq(Step), NEW k \in DOMAIN todo, NEW f \in ContextField
  PROVE  OpenAt(todo, k, f)
           <=> todo[k] = Exit(f) \/ (~Enters(todo[k], f) /\ OpenAt(todo, k + 1, f))
<1>0. Len(todo) \in Nat /\ DOMAIN todo = 1 .. Len(todo) /\ k \in 1 .. Len(todo)
  BY LenProperties
<1>1. ASSUME OpenAt(todo, k, f), todo[k] # Exit(f)
      PROVE  ~Enters(todo[k], f) /\ OpenAt(todo, k + 1, f)
  <2>1. PICK l \in k .. Len(todo) :
          todo[l] = Exit(f) /\ \A j \in k .. l - 1 : ~Enters(todo[j], f)
    BY <1>1 DEF OpenAt
  <2>2. l # k
    BY <1>1, <2>1
  <2> QED
    BY <1>0, <2>1, <2>2 DEF OpenAt
<1>2. ASSUME todo[k] = Exit(f)
      PROVE  OpenAt(todo, k, f)
  BY <1>0, <1>2 DEF OpenAt
<1>3. ASSUME ~Enters(todo[k], f), OpenAt(todo, k + 1, f)
      PROVE  OpenAt(todo, k, f)
  <2>1. PICK l \in k + 1 .. Len(todo) :
          todo[l] = Exit(f) /\ \A j \in k + 1 .. l - 1 : ~Enters(todo[j], f)
    BY <1>3 DEF OpenAt
  <2> QED
    BY <1>0, <1>3, <2>1 DEF OpenAt
<1> QED
  BY <1>1, <1>2, <1>3

LEMMA TailOpen ==
  ASSUME NEW todo \in Seq(Step), todo # <<>>, NEW k \in Nat \ {0}, NEW f
  PROVE  OpenAt(Tail(todo), k, f) <=> OpenAt(todo, k + 1, f)
<1>0. /\ Len(todo) \in Nat /\ Len(Tail(todo)) = Len(todo) - 1
      /\ \A i \in 1 .. Len(todo) - 1 : Tail(todo)[i] = todo[i + 1]
  BY LenProperties, HeadTailProperties
<1>1. ASSUME OpenAt(Tail(todo), k, f)
      PROVE  OpenAt(todo, k + 1, f)
  <2>1. PICK l \in k .. Len(Tail(todo)) :
          /\ Tail(todo)[l] = Exit(f)
          /\ \A j \in k .. l - 1 : ~Enters(Tail(todo)[j], f)
    BY <1>1 DEF OpenAt
  <2>2. l + 1 \in k + 1 .. Len(todo) /\ todo[l + 1] = Exit(f)
    BY <1>0, <2>1
  <2>3. ASSUME NEW j \in k + 1 .. (l + 1) - 1
        PROVE  ~Enters(todo[j], f)
    <3>1. j - 1 \in k .. l - 1 /\ Tail(todo)[j - 1] = todo[j]
      BY <1>0, <2>1
    <3> QED
      BY <2>1, <3>1
  <2> QED
    BY <2>2, <2>3 DEF OpenAt
<1>2. ASSUME OpenAt(todo, k + 1, f)
      PROVE  OpenAt(Tail(todo), k, f)
  <2>1. PICK l \in k + 1 .. Len(todo) :
          todo[l] = Exit(f) /\ \A j \in k + 1 .. l - 1 : ~Enters(todo[j], f)
    BY <1>2 DEF OpenAt
  <2>2. l - 1 \in k .. Len(Tail(todo)) /\ Tail(todo)[l - 1] = Exit(f)
    BY <1>0, <2>1
  <2>3. ASSUME NEW j \in k .. (l - 1) - 1
        PROVE  ~Enters(Tail(todo)[j], f)
    <3>1. j + 1 \in k + 1 .. l - 1 /\ Tail(todo)[j] = todo[j + 1]
      BY <1>0, <2>1
    <3> QED
      BY <2>1, <3>1
  <2> QED
    BY <2>2, <2>3 DEF OpenAt
<1> QED
  BY <1>1, <1>2

LEMMA FirstOpen ==
  ASSUME NEW frame, frame.todo \in Seq(Step), NEW f
  PROVE  HasOpen(frame, f) <=> OpenAt(frame.todo, 1, f)
  BY LenProperties DEF HasOpen, OpenAt, Enters

LEMMA Opening ==
  ASSUME NEW todo \in Seq(Step), todo # <<>>, Paired(todo), NEW f \in ContextField
  PROVE  /\ Head(todo) = todo[1] /\ 1 \in DOMAIN todo
         /\ Enters(todo[1], f) => ~OpenAt(todo, 1, f) /\ OpenAt(Tail(todo), 1, f)
         /\ todo[1] = Exit(f) => OpenAt(todo, 1, f) /\ ~OpenAt(Tail(todo), 1, f)
         /\ ~Enters(todo[1], f) /\ todo[1] # Exit(f)
              => (OpenAt(Tail(todo), 1, f) <=> OpenAt(todo, 1, f))
<1>1. 1 \in DOMAIN todo /\ Head(todo) = todo[1] /\ todo[1] \in Step
  BY EmptySeq, LenProperties
<1>2. OpenAt(Tail(todo), 1, f) <=> OpenAt(todo, 1 + 1, f)
  BY TailOpen
<1>3. OpenAt(todo, 1, f)
        <=> todo[1] = Exit(f) \/ (~Enters(todo[1], f) /\ OpenAt(todo, 1 + 1, f))
  BY <1>1, NextOpen
<1>4. /\ Enters(todo[1], f) => OpenAt(todo, 1 + 1, f)
      /\ todo[1] = Exit(f) => ~OpenAt(todo, 1 + 1, f)
  BY <1>1 DEF Paired
<1>5. ~(Enters(todo[1], f) /\ todo[1] = Exit(f))
  BY <1>1, Kinds
<1> QED
  BY <1>1, <1>2, <1>3, <1>4, <1>5

LEMMA PairedTail ==
  ASSUME NEW todo \in Seq(Step), todo # <<>>, Paired(todo)
  PROVE  Paired(Tail(todo))
<1>0. /\ Len(todo) \in Nat /\ DOMAIN todo = 1 .. Len(todo)
      /\ Tail(todo) \in Seq(Step) /\ Len(Tail(todo)) = Len(todo) - 1
      /\ DOMAIN Tail(todo) = 1 .. Len(todo) - 1
      /\ \A i \in 1 .. Len(todo) - 1 : Tail(todo)[i] = todo[i + 1]
  BY LenProperties, HeadTailProperties
<1>1. SUFFICES ASSUME NEW k \in 1 .. Len(todo) - 1
               PROVE  /\ \A f \in ContextField :
                           /\ Enters(Tail(todo)[k], f) => OpenAt(Tail(todo), k + 1, f)
                           /\ Tail(todo)[k] = Exit(f) => ~OpenAt(Tail(todo), k + 1, f)
                      /\ Tail(todo)[k].do = "call"
                           => \E f \in ContextField : OpenAt(Tail(todo), k, f)
  BY <1>0 DEF Paired
<1>2. /\ k + 1 \in DOMAIN todo /\ Tail(todo)[k] = todo[k + 1]
      /\ k \in Nat \ {0} /\ k + 1 \in Nat \ {0}
  BY <1>0
<1>3. \A f : /\ OpenAt(Tail(todo), k, f) <=> OpenAt(todo, k + 1, f)
             /\ OpenAt(Tail(todo), k + 1, f) <=> OpenAt(todo, (k + 1) + 1, f)
  BY <1>2, TailOpen
<1> QED
  BY <1>2, <1>3 DEF Paired

LEMMA OperationTail ==
  ASSUME NEW todo, todo # <<>>, Operation(todo)
  PROVE  /\ Operation(Tail(todo))
         /\ ToRun(Tail(todo)) <=> ToRun(todo) /\ ~Enters(todo[1], "verify")
<1>0. /\ todo \in Seq(OperationStep) /\ todo \in Seq(Step)
      /\ Len(todo) \in Nat /\ DOMAIN todo = 1 .. Len(todo) /\ 1 \in DOMAIN todo
      /\ Tail(todo) \in Seq(OperationStep) /\ Len(Tail(todo)) = Len(todo) - 1
      /\ DOMAIN Tail(todo) = 1 .. Len(todo) - 1
      /\ \A i \in 1 .. Len(todo) - 1 : Tail(todo)[i] = todo[i + 1]
  BY StepKinds, SeqMonotonic, EmptySeq, LenProperties, HeadTailProperties DEF Operation
<1>1. Paired(Tail(todo))
  BY <1>0, PairedTail DEF Operation
<1>2. ASSUME NEW k \in DOMAIN Tail(todo)
      PROVE  OpenAt(Tail(todo), k, "lock")
  <2>1. k + 1 \in DOMAIN todo /\ k \in Nat \ {0}
    BY <1>0
  <2>2. OpenAt(todo, k + 1, "lock")
    BY <2>1 DEF Operation
  <2> QED
    BY <1>0, <2>1, <2>2, TailOpen
<1>3. ASSUME NEW j \in DOMAIN Tail(todo), NEW k \in DOMAIN Tail(todo),
             Enters(Tail(todo)[j], "verify"), Enters(Tail(todo)[k], "verify")
      PROVE  j = k
  <2>1. /\ j + 1 \in DOMAIN todo /\ Enters(todo[j + 1], "verify")
        /\ k + 1 \in DOMAIN todo /\ Enters(todo[k + 1], "verify")
    BY <1>0, <1>3
  <2>2. j + 1 = k + 1
    BY <2>1 DEF Operation
  <2> QED
    BY <1>0, <2>2
<1>4. ASSUME ToRun(Tail(todo))
      PROVE  ToRun(todo) /\ ~Enters(todo[1], "verify")
  <2>1. PICK k \in DOMAIN Tail(todo) : Enters(Tail(todo)[k], "verify")
    BY <1>4 DEF ToRun
  <2>2. k + 1 \in DOMAIN todo /\ Enters(todo[k + 1], "verify") /\ k + 1 # 1
    BY <1>0, <2>1
  <2> QED
    BY <1>0, <2>2 DEF ToRun, Operation
<1>5. ASSUME ToRun(todo), ~Enters(todo[1], "verify")
      PROVE  ToRun(Tail(todo))
  <2>1. PICK k \in DOMAIN todo : Enters(todo[k], "verify")
    BY <1>5 DEF ToRun
  <2>2. k - 1 \in DOMAIN Tail(todo) /\ Enters(Tail(todo)[k - 1], "verify")
    BY <1>0, <1>5, <2>1
  <2> QED
    BY <2>2 DEF ToRun
<1> QED
  BY <1>0, <1>1, <1>2, <1>3, <1>4, <1>5 DEF Operation

LEMMA ConcatOpen ==
  ASSUME NEW s \in Seq(Step), NEW t \in Seq(Step), NEW k \in 1 .. Len(s) + 1,
         NEW f \in ContextField, ~OpenAt(t, 1, f)
  PROVE  OpenAt(s \o t, k, f) <=> OpenAt(s, k, f)
<1>0. /\ Len(s) \in Nat /\ Len(t) \in Nat /\ Len(s \o t) = Len(s) + Len(t)
      /\ \A i \in 1 .. Len(s) + Len(t) :
           (s \o t)[i] = IF i <= Len(s) THEN s[i] ELSE t[i - Len(s)]
  BY LenProperties, ConcatProperties
<1>1. ASSUME OpenAt(s, k, f)
      PROVE  OpenAt(s \o t, k, f)
  <2>1. PICK l \in k .. Len(s) :
          s[l] = Exit(f) /\ \A j \in k .. l - 1 : ~Enters(s[j], f)
    BY <1>1 DEF OpenAt
  <2>2. l \in k .. Len(s \o t) /\ \A j \in k .. l : (s \o t)[j] = s[j]
    BY <1>0, <2>1
  <2>3. (s \o t)[l] = Exit(f) /\ \A j \in k .. l - 1 : ~Enters((s \o t)[j], f)
    BY <1>0, <2>1, <2>2
  <2> QED
    BY <2>2, <2>3 DEF OpenAt
<1>2. ASSUME OpenAt(s \o t, k, f)
      PROVE  OpenAt(s, k, f)
  <2>1. PICK l \in k .. Len(s \o t) :
          /\ (s \o t)[l] = Exit(f)
          /\ \A j \in k .. l - 1 : ~Enters((s \o t)[j], f)
    BY <1>2 DEF OpenAt
  <2>2. CASE l <= Len(s)
    <3>1. s[l] = Exit(f) /\ \A j \in k .. l - 1 : ~Enters(s[j], f)
      BY <1>0, <2>1, <2>2
    <3> QED
      BY <1>0, <2>1, <2>2, <3>1 DEF OpenAt
  <2>3. CASE l > Len(s)
    <3>1. l - Len(s) \in 1 .. Len(t) /\ t[l - Len(s)] = Exit(f)
      BY <1>0, <2>1, <2>3
    <3>2. ASSUME NEW j \in 1 .. (l - Len(s)) - 1
          PROVE  ~Enters(t[j], f)
      <4>1. j + Len(s) \in k .. l - 1 /\ (s \o t)[j + Len(s)] = t[j]
        BY <1>0, <2>1, <2>3
      <4> QED
        BY <2>1, <4>1
    <3> QED
      BY <3>1, <3>2 DEF OpenAt
  <2> QED
    BY <1>0, <2>1, <2>2, <2>3
<1> QED
  BY <1>1, <1>2

LEMMA ConcatOpenAfter ==
  ASSUME NEW s \in Seq(Step), NEW t \in Seq(Step), NEW k \in 1 .. Len(t) + 1, NEW f
  PROVE  OpenAt(s \o t, Len(s) + k, f) <=> OpenAt(t, k, f)
<1>0. /\ Len(s) \in Nat /\ Len(t) \in Nat /\ Len(s \o t) = Len(s) + Len(t)
      /\ \A i \in 1 .. Len(t) : (s \o t)[Len(s) + i] = t[i]
  BY LenProperties, ConcatProperties
<1>1. ASSUME OpenAt(t, k, f)
      PROVE  OpenAt(s \o t, Len(s) + k, f)
  <2>1. PICK l \in k .. Len(t) :
          t[l] = Exit(f) /\ \A j \in k .. l - 1 : ~Enters(t[j], f)
    BY <1>1 DEF OpenAt
  <2>2. Len(s) + l \in Len(s) + k .. Len(s \o t) /\ (s \o t)[Len(s) + l] = Exit(f)
    BY <1>0, <2>1
  <2>3. ASSUME NEW j \in Len(s) + k .. (Len(s) + l) - 1
        PROVE  ~Enters((s \o t)[j], f)
    <3>1. j - Len(s) \in k .. l - 1 /\ (s \o t)[Len(s) + (j - Len(s))] = t[j - Len(s)]
          /\ Len(s) + (j - Len(s)) = j
      BY <1>0, <2>1
    <3> QED
      BY <2>1, <3>1
  <2> QED
    BY <2>2, <2>3 DEF OpenAt
<1>2. ASSUME OpenAt(s \o t, Len(s) + k, f)
      PROVE  OpenAt(t, k, f)
  <2>1. PICK l \in Len(s) + k .. Len(s \o t) :
          /\ (s \o t)[l] = Exit(f)
          /\ \A j \in Len(s) + k .. l - 1 : ~Enters((s \o t)[j], f)
    BY <1>2 DEF OpenAt
  <2>2. l - Len(s) \in k .. Len(t) /\ Len(s) + (l - Len(s)) = l
    BY <1>0, <2>1
  <2>3. t[l - Len(s)] = Exit(f)
    BY <1>0, <2>1, <2>2
  <2>4. ASSUME NEW j \in k .. (l - Len(s)) - 1
        PROVE  ~Enters(t[j], f)
    <3>1. Len(s) + j \in Len(s) + k .. l - 1 /\ (s \o t)[Len(s) + j] = t[j]
      BY <1>0, <2>1
    <3> QED
      BY <2>1, <3>1
  <2> QED
    BY <2>2, <2>3, <2>4 DEF OpenAt
<1> QED
  BY <1>1, <1>2
-----------------------------------------------------------------------------
Closed(todo) ==
  /\ todo \in Seq(MaintenanceStep)
  /\ Paired(todo)
  /\ \A f \in ContextField : ~OpenAt(todo, 1, f)

QuietStep ==
       [do: {"store"}, state: AccountState]
  \cup [do: {"forget"}, fields: SUBSET {"verifier", "hook"}]
  \cup [do: {"release"}]

LEMMA ClosedQuiet ==
  ASSUME NEW todo \in Seq(QuietStep)
  PROVE  Closed(todo)
<1>1. todo \in Seq(MaintenanceStep)
  <2>1. QuietStep \subseteq MaintenanceStep
    BY DEF QuietStep, MaintenanceStep
  <2> QED
    BY <2>1, SeqMonotonic
<1>2. DOMAIN todo = 1 .. Len(todo) /\ Len(todo) \in Nat
  BY LenProperties
<1>3. ASSUME NEW k \in 1 .. Len(todo)
      PROVE  todo[k].do \notin {"enter", "exit", "call"}
  <2>1. todo[k] \in QuietStep
    BY <1>3, ElementOfSeq
  <2> QED
    BY <2>1 DEF QuietStep
<1>4. \A f : \A k \in 1 .. Len(todo) : ~Enters(todo[k], f) /\ todo[k] # Exit(f)
  BY <1>3 DEF Enters, Exit
<1>5. \A f : ~OpenAt(todo, 1, f)
  BY <1>2, <1>4 DEF OpenAt
<1>6. Paired(todo)
  BY <1>2, <1>3, <1>4 DEF Paired
<1> QED
  BY <1>1, <1>5, <1>6 DEF Closed

LEMMA ClosedConcat ==
  ASSUME NEW s, NEW t, Closed(s), Closed(t)
  PROVE  Closed(s \o t)
<1>0. /\ s \in Seq(MaintenanceStep) /\ t \in Seq(MaintenanceStep)
      /\ s \in Seq(Step) /\ t \in Seq(Step)
  BY StepKinds, SeqMonotonic DEF Closed
<1>1. s \o t \in Seq(MaintenanceStep)
  BY <1>0, ConcatProperties
<1>2. /\ Len(s) \in Nat /\ Len(t) \in Nat /\ Len(s \o t) = Len(s) + Len(t)
      /\ DOMAIN s = 1 .. Len(s) /\ DOMAIN t = 1 .. Len(t)
      /\ DOMAIN (s \o t) = 1 .. Len(s) + Len(t)
      /\ \A i \in 1 .. Len(s) + Len(t) :
           (s \o t)[i] = IF i <= Len(s) THEN s[i] ELSE t[i - Len(s)]
  BY <1>0, <1>1, LenProperties, ConcatProperties
<1>3. \A f \in ContextField : \A k \in 1 .. Len(s) + 1 :
        OpenAt(s \o t, k, f) <=> OpenAt(s, k, f)
  BY <1>0, ConcatOpen DEF Closed
<1>4. \A f \in ContextField : ~OpenAt(s \o t, 1, f)
  BY <1>2, <1>3 DEF Closed
<1>5. ASSUME NEW k \in 1 .. Len(s) + Len(t)
      PROVE  /\ \A f \in ContextField :
                  /\ Enters((s \o t)[k], f) => OpenAt(s \o t, k + 1, f)
                  /\ (s \o t)[k] = Exit(f) => ~OpenAt(s \o t, k + 1, f)
             /\ (s \o t)[k].do = "call" => \E f \in ContextField : OpenAt(s \o t, k, f)
  <2>1. CASE k <= Len(s)
    <3>1. /\ k \in DOMAIN s /\ (s \o t)[k] = s[k]
          /\ k \in 1 .. Len(s) + 1 /\ k + 1 \in 1 .. Len(s) + 1
      BY <1>2, <2>1
    <3> QED
      BY <1>3, <3>1 DEF Closed, Paired
  <2>2. CASE k > Len(s)
    <3> DEFINE m == k - Len(s)
    <3>1. /\ m \in DOMAIN t /\ (s \o t)[k] = t[m]
          /\ m \in 1 .. Len(t) + 1 /\ m + 1 \in 1 .. Len(t) + 1
          /\ Len(s) + m = k /\ Len(s) + (m + 1) = k + 1
      BY <1>2, <2>2
    <3> HIDE DEF m
    <3>2. \A f : /\ OpenAt(s \o t, k, f) <=> OpenAt(t, m, f)
                 /\ OpenAt(s \o t, k + 1, f) <=> OpenAt(t, m + 1, f)
      BY <1>0, <3>1, ConcatOpenAfter
    <3> QED
      BY <3>1, <3>2 DEF Closed, Paired
  <2> QED
    BY <1>2, <2>1, <2>2
<1>6. Paired(s \o t)
  BY <1>2, <1>5 DEF Paired
<1> QED
  BY <1>1, <1>4, <1>6 DEF Closed

LEMMA ClosedContext ==
  ASSUME NEW field \in Config, NEW module \in Contract
  PROVE  Closed(Within(field, module, <<CallOut(module)>>))
<1> DEFINE todo == Within(field, module, <<CallOut(module)>>)
<1>1. /\ <<Enter(field, module)>> \in Seq(MaintenanceStep)
      /\ <<CallOut(module)>> \in Seq(MaintenanceStep)
      /\ <<Exit(field)>> \in Seq(MaintenanceStep)
  BY DEF Enter, CallOut, Exit, MaintenanceStep
<1>2. todo \in Seq(MaintenanceStep) /\ todo \in Seq(Step)
  BY <1>1, ConcatProperties, StepKinds, SeqMonotonic DEF Within
<1>3. /\ Len(todo) = 3 /\ DOMAIN todo = 1 .. 3
      /\ todo[1] = Enter(field, module)
      /\ todo[2] = CallOut(module)
      /\ todo[3] = Exit(field)
  BY <1>1, <1>2, ConcatProperties, LenProperties DEF Within
<1> HIDE DEF todo
<1>4. /\ \A f : Enters(todo[1], f) <=> f = field
      /\ \A f : todo[1] # Exit(f) /\ todo[2] # Exit(f)
      /\ \A f : ~Enters(todo[2], f) /\ ~Enters(todo[3], f)
      /\ \A f : todo[3] = Exit(f) <=> f = field
      /\ todo[1].do # "call" /\ todo[2].do = "call" /\ todo[3].do # "call"
  BY <1>3 DEF Enter, CallOut, Exit, Enters
<1>5. /\ OpenAt(todo, 2, field) /\ OpenAt(todo, 3, field)
      /\ \A f : ~OpenAt(todo, 4, f)
      /\ \A f : ~OpenAt(todo, 1, f)
  BY <1>3, <1>4 DEF OpenAt
<1>6. field \in ContextField
  BY DEF Config, ContextField
<1>7. Paired(todo)
  <2>1. ASSUME NEW k \in 1 .. 3
        PROVE  /\ \A f \in ContextField :
                    /\ Enters(todo[k], f) => OpenAt(todo, k + 1, f)
                    /\ todo[k] = Exit(f) => ~OpenAt(todo, k + 1, f)
               /\ todo[k].do = "call" => \E f \in ContextField : OpenAt(todo, k, f)
    <3>1. CASE k = 1
      BY <1>4, <1>5, <3>1
    <3>2. CASE k = 2
      BY <1>4, <1>5, <1>6, <3>2
    <3>3. CASE k = 3
      BY <1>4, <1>5, <3>3
    <3> QED
      BY <3>1, <3>2, <3>3
  <2> QED
    BY <1>3, <2>1 DEF Paired
<1>8. Closed(todo)
  BY <1>2, <1>5, <1>7 DEF Closed
<1> QED
  BY <1>8 DEF todo

LEMMA ClosedClearing ==
  ASSUME NEW state, state.verifier \in Verifier \cup {Zero}, state.hook \in Hook \cup {Zero}
  PROVE  Closed(ClearAccount(state))
<1>1. Closed(<<>>)
  BY ClosedQuiet, EmptySeq
<1>2. Closed(Unless(state.verifier, Within("verifierConfig", state.verifier,
                                           <<CallOut(state.verifier)>>)))
  BY <1>1, ClosedContext DEF Unless, Config, Contract
<1>3. Closed(Unless(state.hook, Within("hookConfig", state.hook, <<CallOut(state.hook)>>)))
  BY <1>1, ClosedContext DEF Unless, Config, Contract
<1> QED
  BY <1>2, <1>3, ClosedConcat DEF ClearAccount

LEMMA ClosedParameters ==
  ASSUME NEW v \in Verifier \cup {Zero, None}, v # None, NEW params
  PROVE  Closed(SetPublicKey(v, params))
<1>1. Closed(<<>>)
  BY ClosedQuiet, EmptySeq
<1> QED
  BY <1>1, ClosedContext DEF SetPublicKey, Unless, Config, Contract

-----------------------------------------------------------------------------
OperationShape(todo, v) ==
  /\ Operation(todo)
  /\ ToRun(todo)
  /\ \A f \in ContextField :
       OpenAt(todo, 1, f) <=> f = "lock" \/ (f = "verifierExecution" /\ v # Zero)

LEMMA UserOpShape ==
  ASSUME NEW v \in Verifier \cup {Zero}, NEW h \in Hook \cup {Zero}, NEW target \in Target
  PROVE  OperationShape(UserOpSteps(v, h, target), v)
<1> DEFINE S == OperationStep
           before == Unless(h, <<Enter("hookExecution", h), CallOut(h)>>)
           hook == Unless(h, <<CallOut(h)>>)
           verify == Unless(v, <<CallOut(v)>>)
           during == <<CallOut(target)>> \o hook \o verify
           run == Within("verify", target, during)
           closeHook == Unless(h, <<Exit("hookExecution")>>)
           closeVerifier == Unless(v, <<Exit("verifierExecution")>>)
           todo == UserOpSteps(v, h, target)
<1>1. /\ v # Zero => CallOut(v) \in S
      /\ h # Zero => CallOut(h) \in S /\ Enter("hookExecution", h) \in S
      /\ CallOut(target) \in S /\ Enter("verify", target) \in S
      /\ Exit("verify") \in S /\ Exit("hookExecution") \in S
      /\ Exit("verifierExecution") \in S /\ Exit("lock") \in S
  BY DEF CallOut, Enter, Exit, OperationStep, Contract, ContextField, Config
<1> DEFINE lockStep == Exit("lock")
           vStep == Exit("verifierExecution")
           hStep == Exit("hookExecution")
           rStep == Exit("verify")
           enterR == Enter("verify", target)
           enterH == Enter("hookExecution", h)
           callH == CallOut(h)
           callV == CallOut(v)
           callT == CallOut(target)
<1> HIDE DEF S, lockStep, vStep, hStep, rStep, enterR, enterH, callH, callV, callT
<1>2. /\ v # Zero => callV \in S
      /\ h # Zero => callH \in S /\ enterH \in S
      /\ callT \in S /\ enterR \in S
      /\ rStep \in S /\ hStep \in S /\ vStep \in S /\ lockStep \in S
  BY <1>1 DEF S, lockStep, vStep, hStep, rStep, enterR, enterH, callH, callV, callT
<1>3. /\ before = IF h = Zero THEN <<>> ELSE <<enterH, callH>>
      /\ hook = IF h = Zero THEN <<>> ELSE <<callH>>
      /\ verify = IF v = Zero THEN <<>> ELSE <<callV>>
      /\ during = <<callT>> \o hook \o verify
      /\ run = <<enterR>> \o during \o <<rStep>>
      /\ closeHook = IF h = Zero THEN <<>> ELSE <<hStep>>
      /\ closeVerifier = IF v = Zero THEN <<>> ELSE <<vStep>>
      /\ todo = before \o run \o closeHook \o closeVerifier \o <<lockStep>>
  BY DEF Unless, Within, UserOpSteps, lockStep, vStep, hStep, rStep, enterR, enterH,
         callH, callV, callT
<1> HIDE DEF before, hook, verify, during, run, closeHook, closeVerifier, todo
<1>4. /\ before \in Seq(S) /\ Len(before) = IF h = Zero THEN 0 ELSE 2
      /\ h # Zero => before[1] = enterH /\ before[2] = callH
      /\ hook \in Seq(S) /\ Len(hook) = IF h = Zero THEN 0 ELSE 1
      /\ h # Zero => hook[1] = callH
      /\ verify \in Seq(S) /\ Len(verify) = IF v = Zero THEN 0 ELSE 1
      /\ v # Zero => verify[1] = callV
      /\ closeHook \in Seq(S) /\ Len(closeHook) = IF h = Zero THEN 0 ELSE 1
      /\ h # Zero => closeHook[1] = hStep
      /\ closeVerifier \in Seq(S) /\ Len(closeVerifier) = IF v = Zero THEN 0 ELSE 1
      /\ v # Zero => closeVerifier[1] = vStep
  <2>1. \A x \in S : <<x>> \in Seq(S) /\ Len(<<x>>) = 1 /\ <<x>>[1] = x
    OBVIOUS
  <2>2. \A x, y \in S : /\ <<x, y>> \in Seq(S) /\ Len(<<x, y>>) = 2
                        /\ <<x, y>>[1] = x /\ <<x, y>>[2] = y
    OBVIOUS
  <2>3. <<>> \in Seq(S) /\ Len(<<>>) = 0
    OBVIOUS
  <2>4. /\ before \in Seq(S) /\ Len(before) = IF h = Zero THEN 0 ELSE 2
        /\ h # Zero => before[1] = enterH /\ before[2] = callH
        /\ hook \in Seq(S) /\ Len(hook) = IF h = Zero THEN 0 ELSE 1
        /\ h # Zero => hook[1] = callH
        /\ closeHook \in Seq(S) /\ Len(closeHook) = IF h = Zero THEN 0 ELSE 1
        /\ h # Zero => closeHook[1] = hStep
    <3>1. CASE h = Zero
      <4>1. before = <<>> /\ hook = <<>> /\ closeHook = <<>>
        BY ONLY <1>3, <3>1
      <4> QED BY ONLY <2>3, <3>1, <4>1
    <3>2. CASE h # Zero
      <4>1. before = <<enterH, callH>> /\ hook = <<callH>> /\ closeHook = <<hStep>>
        BY ONLY <1>3, <3>2
      <4>2. callH \in S /\ enterH \in S /\ hStep \in S
        BY ONLY <1>2, <3>2
      <4>3. before \in Seq(S) /\ Len(before) = 2 /\ before[1] = enterH /\ before[2] = callH
        BY ONLY <2>2, <4>1, <4>2
      <4>4. /\ hook \in Seq(S) /\ Len(hook) = 1 /\ hook[1] = callH
            /\ closeHook \in Seq(S) /\ Len(closeHook) = 1 /\ closeHook[1] = hStep
        BY ONLY <2>1, <4>1, <4>2
      <4> QED BY ONLY <3>2, <4>3, <4>4
    <3> QED BY <3>1, <3>2
  <2>5. /\ verify \in Seq(S) /\ Len(verify) = IF v = Zero THEN 0 ELSE 1
        /\ v # Zero => verify[1] = callV
        /\ closeVerifier \in Seq(S) /\ Len(closeVerifier) = IF v = Zero THEN 0 ELSE 1
        /\ v # Zero => closeVerifier[1] = vStep
    <3>1. CASE v = Zero
      <4>1. verify = <<>> /\ closeVerifier = <<>>
        BY ONLY <1>3, <3>1
      <4> QED BY ONLY <2>3, <3>1, <4>1
    <3>2. CASE v # Zero
      <4>1. verify = <<callV>> /\ closeVerifier = <<vStep>> /\ callV \in S /\ vStep \in S
        BY ONLY <1>2, <1>3, <3>2
      <4>2. /\ verify \in Seq(S) /\ Len(verify) = 1 /\ verify[1] = callV
            /\ closeVerifier \in Seq(S) /\ Len(closeVerifier) = 1 /\ closeVerifier[1] = vStep
        BY ONLY <2>1, <4>1
      <4> QED BY ONLY <3>2, <4>2
    <3> QED BY <3>1, <3>2
  <2> QED BY <2>4, <2>5, Zenon
<1> DEFINE nh == IF h = Zero THEN 0 ELSE 1
           nv == IF v = Zero THEN 0 ELSE 1
<1>5. nh \in 0 .. 1 /\ nv \in 0 .. 1 /\ (nh = 0 <=> h = Zero) /\ (nv = 0 <=> v = Zero)
  OBVIOUS
<1>6. /\ <<callT>> \o hook \in Seq(S) /\ Len(<<callT>> \o hook) = 1 + nh
      /\ (<<callT>> \o hook)[1] = callT
      /\ h # Zero => (<<callT>> \o hook)[2] = callH
  <2>1. PICK one : one = <<callT>>
    OBVIOUS
  <2>2. one \in Seq(S) /\ Len(one) = 1 /\ one[1] = callT
    BY ONLY <1>2, <2>1
  <2>3. /\ hook \in Seq(S) /\ Len(hook) = nh /\ nh \in 0 .. 1
        /\ h # Zero => nh = 1 /\ hook[1] = callH
    BY <1>4
  <2> HIDE DEF nh
  <2>4. /\ one \o hook \in Seq(S) /\ Len(one \o hook) = Len(one) + Len(hook)
        /\ \A i \in 1 .. Len(one) + Len(hook) :
             (one \o hook)[i] = IF i <= Len(one) THEN one[i] ELSE hook[i - Len(one)]
    BY ONLY <2>2, <2>3, ConcatProperties
  <2>5. (one \o hook)[1] = callT /\ (h # Zero => (one \o hook)[2] = callH)
    <3>1. 1 \in 1 .. 1 + nh /\ (nh = 1 => 2 \in 1 .. 1 + nh /\ 2 - 1 = 1 /\ ~(2 <= 1))
      BY ONLY <2>3
    <3> QED BY ONLY <2>2, <2>3, <2>4, <3>1
  <2> QED BY ONLY <2>1, <2>2, <2>3, <2>4, <2>5
<1>7. /\ during \in Seq(S) /\ Len(during) = 1 + nh + nv
      /\ during[1] = callT
      /\ h # Zero => during[2] = callH
      /\ v # Zero => during[2 + nh] = callV
  BY <1>3, <1>4, <1>5, <1>6, ConcatProperties
<1> HIDE DEF nh, nv
<1>8. /\ <<enterR>> \o during \in Seq(S) /\ Len(<<enterR>> \o during) = 2 + nh + nv
      /\ (<<enterR>> \o during)[1] = enterR
      /\ \A i \in 1 .. 1 + nh + nv : (<<enterR>> \o during)[i + 1] = during[i]
  BY <1>2, <1>5, <1>7, ConcatProperties
<1>9. /\ run \in Seq(S) /\ Len(run) = 3 + nh + nv
      /\ run[1] = enterR
      /\ \A i \in 1 .. 1 + nh + nv : run[i + 1] = during[i]
      /\ run[3 + nh + nv] = rStep
  <2> DEFINE opened == <<enterR>> \o during
             n == 2 + nh + nv
  <2>1. /\ opened \in Seq(S) /\ <<rStep>> \in Seq(S) /\ Len(<<rStep>>) = 1
        /\ <<rStep>>[1] = rStep /\ run = opened \o <<rStep>>
        /\ Len(opened) = n
    BY <1>2, <1>3, <1>8
  <2>2. n \in Nat /\ n >= 2
    BY <1>5
  <2>a. opened[1] = enterR /\ \A i \in 1 .. n - 1 : opened[i + 1] = during[i]
    BY <1>5, <1>8
  <2>5. 3 + nh + nv = n + 1 /\ 1 + nh + nv = n - 1
    BY <1>5
  <2> HIDE DEF opened, n
  <2>3. /\ run \in Seq(S) /\ Len(run) = n + 1
        /\ \A i \in 1 .. n + 1 :
             run[i] = IF i <= n THEN opened[i] ELSE <<rStep>>[i - n]
    BY <2>1, ConcatProperties
  <2>4. run[n + 1] = rStep /\ \A i \in 1 .. n : run[i] = opened[i]
    BY <2>1, <2>2, <2>3
  <2>6. run[1] = enterR /\ \A i \in 1 .. n - 1 : run[i + 1] = during[i]
    BY <2>2, <2>4, <2>a
  <2> QED
    BY <2>3, <2>4, <2>5, <2>6
<1>10. /\ before \o run \in Seq(S) /\ Len(before \o run) = 3 + 3 * nh + nv
       /\ h # Zero => (before \o run)[1] = enterH /\ (before \o run)[2] = callH
       /\ \A i \in 1 .. 3 + nh + nv : (before \o run)[2 * nh + i] = run[i]
  <2>1. Len(before) = 2 * nh /\ nh \in Nat /\ nv \in Nat
    BY <1>4, <1>5
  <2> QED
    BY <1>4, <1>5, <1>9, <2>1, ConcatProperties, SMTT(30)
<1> DEFINE upToRun == before \o run
           upToHook == upToRun \o closeHook
           upToVerifier == upToHook \o closeVerifier
<1>11. todo = upToVerifier \o <<lockStep>>
  BY <1>3
<1> HIDE DEF upToRun
<1>12. /\ upToHook \in Seq(S) /\ Len(upToHook) = 3 + 4 * nh + nv
       /\ \A i \in 1 .. 3 + 3 * nh + nv : upToHook[i] = upToRun[i]
       /\ h # Zero => upToHook[4 + 3 * nh + nv] = hStep
  <2>1. upToRun \in Seq(S) /\ Len(upToRun) = 3 + 3 * nh + nv
    BY <1>10 DEF upToRun
  <2>2. CASE h = Zero
    BY <1>4, <1>5, <2>1, <2>2, ConcatProperties
  <2>3. CASE h # Zero
    <3> DEFINE n == 6 + nv
    <3>0. nh = 1 /\ n + 1 = 4 + 3 * nh + nv
      BY <1>5, <2>1, <2>3
    <3>1. n \in Nat /\ upToRun \in Seq(S) /\ Len(upToRun) = n
      BY <1>5, <2>1, <3>0
    <3>2. closeHook \in Seq(S) /\ Len(closeHook) = 1 /\ closeHook[1] = hStep
      BY <1>4, <2>3
    <3> HIDE DEF n
    <3>c. /\ upToHook \in Seq(S) /\ Len(upToHook) = Len(upToRun) + Len(closeHook)
          /\ \A i \in 1 .. Len(upToRun) + Len(closeHook) : upToHook[i] =
               IF i <= Len(upToRun) THEN upToRun[i] ELSE closeHook[i - Len(upToRun)]
      BY <3>1, <3>2, ConcatProperties, Zenon
    <3>3. /\ upToHook \in Seq(S) /\ Len(upToHook) = n + 1
          /\ \A i \in 1 .. n + 1 :
               upToHook[i] = IF i <= n THEN upToRun[i] ELSE closeHook[i - n]
      <4> HIDE DEF upToHook
      <4> QED
        BY <3>1, <3>2, <3>c
    <3> HIDE DEF upToHook
    <3>4. upToHook[n + 1] = hStep /\ \A i \in 1 .. n : upToHook[i] = upToRun[i]
      BY <3>1, <3>2, <3>3
    <3>5. n = 3 + 3 * nh + nv /\ n + 1 = 3 + 4 * nh + nv
      BY <3>0 DEF n
    <3> QED
      BY <3>0, <3>1, <3>3, <3>4, <3>5
  <2> QED
    BY <2>2, <2>3
<1> HIDE DEF upToHook
<1>13. /\ upToVerifier \in Seq(S) /\ Len(upToVerifier) = 3 + 4 * nh + 2 * nv
       /\ \A i \in 1 .. 3 + 4 * nh + nv : upToVerifier[i] = upToHook[i]
       /\ v # Zero => upToVerifier[4 + 4 * nh + nv] = vStep
  <2>2. CASE v = Zero
    BY <1>4, <1>5, <1>12, <2>2, ConcatProperties
  <2>3. CASE v # Zero
    BY <1>4, <1>5, <1>12, <2>3, ConcatProperties, SMTT(30)
  <2> QED
    BY <2>2, <2>3
<1> HIDE DEF upToVerifier
<1>14. /\ todo \in Seq(S) /\ Len(todo) = 4 + 4 * nh + 2 * nv
       /\ \A i \in 1 .. 3 + 4 * nh + 2 * nv : todo[i] = upToVerifier[i]
       /\ todo[4 + 4 * nh + 2 * nv] = lockStep
  <2> DEFINE n == 3 + 4 * nh + 2 * nv
  <2>1. n \in Nat /\ Len(upToVerifier) = n /\ n + 1 = 4 + 4 * nh + 2 * nv
    BY <1>5, <1>13
  <2>2. <<lockStep>> \in Seq(S) /\ Len(<<lockStep>>) = 1 /\ <<lockStep>>[1] = lockStep
    BY <1>2
  <2> HIDE DEF n
  <2>3. /\ todo \in Seq(S) /\ Len(todo) = n + 1
        /\ \A i \in 1 .. n + 1 :
             todo[i] = IF i <= n THEN upToVerifier[i] ELSE <<lockStep>>[i - n]
    BY <1>11, <1>13, <2>1, <2>2, ConcatProperties
  <2>4. todo[n + 1] = lockStep /\ \A i \in 1 .. n : todo[i] = upToVerifier[i]
    BY <2>1, <2>2, <2>3
  <2> QED
    BY <2>1, <2>3, <2>4 DEF n
<1>15. /\ h # Zero => todo[1] = enterH /\ todo[2] = callH
       /\ todo[1 + 2 * nh] = enterR
       /\ todo[2 + 2 * nh] = callT
       /\ h # Zero => todo[3 + 2 * nh] = callH
       /\ v # Zero => todo[3 + 3 * nh] = callV
       /\ todo[3 + 3 * nh + nv] = rStep
       /\ h # Zero => todo[4 + 3 * nh + nv] = hStep
       /\ v # Zero => todo[4 + 4 * nh + nv] = vStep
  <2>0. \A i \in 1 .. 3 + 3 * nh + nv : todo[i] = upToRun[i]
    BY <1>5, <1>12, <1>13, <1>14
  <2>1. \A i \in 1 .. 3 + nh + nv : todo[2 * nh + i] = run[i]
    <3>1. ASSUME NEW i \in 1 .. 3 + nh + nv
          PROVE  todo[2 * nh + i] = run[i]
      <4>1. 2 * nh + i \in 1 .. 3 + 3 * nh + nv
        BY <1>5
      <4>2. upToRun[2 * nh + i] = run[i]
        BY <1>10 DEF upToRun
      <4> QED
        BY <2>0, <4>1, <4>2
    <3> QED
      BY <3>1
  <2>2. /\ run[2] = callT
        /\ h # Zero => run[3] = callH
        /\ v # Zero => run[3 + nh] = callV
    BY <1>5, <1>7, <1>9
  <2>3. h # Zero => nh = 1
    BY <1>5
  <2>4. h # Zero => todo[1] = enterH /\ todo[2] = callH
    BY <1>5, <1>10, <2>0 DEF upToRun
  <2>5. todo[2 * nh + 1] = enterR /\ todo[2 * nh + 2] = callT
    BY <1>5, <1>9, <2>1, <2>2
  <2>6. /\ h # Zero => todo[2 * nh + 3] = callH
        /\ v # Zero => todo[2 * nh + (3 + nh)] = callV
        /\ todo[2 * nh + (3 + nh + nv)] = rStep
    BY <1>5, <1>9, <2>1, <2>2, <2>3
  <2>7. h # Zero => todo[4 + 3 * nh + nv] = hStep
    BY <1>5, <1>12, <1>13, <1>14, <2>3
  <2>8. v # Zero => todo[4 + 4 * nh + nv] = vStep
    BY <1>5, <1>13, <1>14
  <2> QED
    BY <1>5, <2>4, <2>5, <2>6, <2>7, <2>8
<1> DEFINE size == 4 + 4 * nh + 2 * nv
           Entry(i, f) == \/ f = "verify" /\ i = 1 + 2 * nh
                          \/ f = "hookExecution" /\ h # Zero /\ i = 1
           Closing(i, f) == \/ f = "lock" /\ i = size
                            \/ f = "verifierExecution" /\ v # Zero /\ i = size - 1
                            \/ f = "hookExecution" /\ h # Zero /\ i = 4 + 3 * nh + nv
                            \/ f = "verify" /\ i = 3 + 3 * nh + nv
<1>16. /\ \A f : /\ Enters(enterR, f) <=> f = "verify"
                 /\ Enters(enterH, f) <=> f = "hookExecution"
                 /\ ~Enters(callT, f) /\ ~Enters(callH, f) /\ ~Enters(callV, f)
                 /\ ~Enters(rStep, f) /\ ~Enters(hStep, f)
                 /\ ~Enters(vStep, f) /\ ~Enters(lockStep, f)
                 /\ rStep = Exit(f) <=> f = "verify"
                 /\ hStep = Exit(f) <=> f = "hookExecution"
                 /\ vStep = Exit(f) <=> f = "verifierExecution"
                 /\ lockStep = Exit(f) <=> f = "lock"
                 /\ enterR # Exit(f) /\ enterH # Exit(f)
                 /\ callT # Exit(f) /\ callH # Exit(f) /\ callV # Exit(f)
  BY DEF lockStep, vStep, hStep, rStep, enterR, enterH, callH, callV, callT, Enters,
         Enter, Exit, CallOut
<1>17. ASSUME NEW i \in 1 .. size, NEW f
       PROVE  /\ Enters(todo[i], f) <=> Entry(i, f)
              /\ todo[i] = Exit(f) <=> Closing(i, f)
  <2>1. CASE nh = 0 /\ nv = 0
    <3>1. i \in 1 .. 4 /\ h = Zero /\ v = Zero
      BY <1>5, <2>1
    <3>2. /\ todo[1] = enterR /\ todo[2] = callT /\ todo[3] = rStep
          /\ todo[4] = lockStep
      BY <1>14, <1>15, <2>1
    <3> QED
      BY <1>16, <2>1, <3>1, <3>2
  <2>2. CASE nh = 0 /\ nv = 1
    <3>1. i \in 1 .. 6 /\ h = Zero /\ v # Zero
      BY <1>5, <2>2
    <3>2. /\ todo[1] = enterR /\ todo[2] = callT /\ todo[3] = callV
          /\ todo[4] = rStep /\ todo[5] = vStep /\ todo[6] = lockStep
      BY <1>14, <1>15, <2>2, <3>1
    <3> QED
      BY <1>16, <2>2, <3>1, <3>2
  <2>3. CASE nh = 1 /\ nv = 0
    <3>1. i \in 1 .. 8 /\ h # Zero /\ v = Zero
      BY <1>5, <2>3
    <3>2. /\ todo[1] = enterH /\ todo[2] = callH /\ todo[3] = enterR
          /\ todo[4] = callT /\ todo[5] = callH /\ todo[6] = rStep
          /\ todo[7] = hStep /\ todo[8] = lockStep
      BY <1>14, <1>15, <2>3, <3>1
    <3> QED
      BY <1>16, <2>3, <3>1, <3>2
  <2>4. CASE nh = 1 /\ nv = 1
    <3>1. i \in 1 .. 10 /\ h # Zero /\ v # Zero
      BY <1>5, <2>4
    <3>2. /\ todo[1] = enterH /\ todo[2] = callH /\ todo[3] = enterR
          /\ todo[4] = callT /\ todo[5] = callH /\ todo[6] = callV
          /\ todo[7] = rStep /\ todo[8] = hStep /\ todo[9] = vStep
          /\ todo[10] = lockStep
      BY <1>14, <1>15, <2>4, <3>1
    <3> QED
      BY <1>16, <2>4, <3>1, <3>2
  <2> QED
    BY <1>5, <2>1, <2>2, <2>3, <2>4
<1>18. /\ DOMAIN todo = 1 .. size /\ Len(todo) = size /\ todo \in Seq(Step)
       /\ size \in Nat /\ size > 3 + 3 * nh + nv /\ size > 4 + 3 * nh + nv - 1
       /\ h # Zero => 4 + 3 * nh + nv < size
  BY <1>5, <1>14, StepKinds, LenProperties, SeqMonotonic DEF S
<1>19. /\ h # Zero => 4 + 3 * nh + nv < size /\ nh = 1
       /\ v # Zero => size - 1 > 1 /\ nv = 1
       /\ 1 + 2 * nh \in 1 .. size /\ 3 + 3 * nh + nv \in 1 + 2 * nh + 1 .. size
  BY <1>5
<1> HIDE DEF todo
<1>21. ASSUME NEW k \in 1 .. size
       PROVE  OpenAt(todo, k, "lock")
  <2>1. todo[size] = Exit("lock") /\ size \in k .. Len(todo)
    BY <1>17, <1>18
  <2>2. \A j \in k .. size - 1 : ~Enters(todo[j], "lock")
    BY <1>17, <1>18
  <2> QED
    BY <2>1, <2>2 DEF OpenAt
<1>22. OpenAt(todo, 1 + 2 * nh + 1, "verify")
  <2> DEFINE l == 3 + 3 * nh + nv
  <2>1. l \in 1 + 2 * nh + 1 .. Len(todo) /\ todo[l] = Exit("verify")
    BY <1>5, <1>17, <1>18, <1>19
  <2>2. \A j \in 1 + 2 * nh + 1 .. l - 1 : ~Enters(todo[j], "verify")
    BY <1>5, <1>17, <1>18, <1>19
  <2> QED
    BY <2>1, <2>2 DEF OpenAt
<1>23. h # Zero => OpenAt(todo, 2, "hookExecution")
  <2> SUFFICES ASSUME h # Zero PROVE OpenAt(todo, 2, "hookExecution")
    OBVIOUS
  <2> DEFINE l == 4 + 3 * nh + nv
  <2>1. l \in 2 .. Len(todo) /\ todo[l] = Exit("hookExecution")
    BY <1>5, <1>17, <1>18, <1>19
  <2>2. \A j \in 2 .. l - 1 : ~Enters(todo[j], "hookExecution")
    BY <1>5, <1>17, <1>18, <1>19
  <2> QED
    BY <2>1, <2>2 DEF OpenAt
<1>24. ASSUME NEW k \in 1 .. size, NEW f \in ContextField, todo[k] = Exit(f)
       PROVE  ~OpenAt(todo, k + 1, f)
  <2>1. Closing(k, f)
    BY <1>17, <1>24
  <2>2. \A l \in k + 1 .. size : ~Closing(l, f)
    BY <1>5, <2>1
  <2>3. \A l \in k + 1 .. size : todo[l] # Exit(f)
    BY <1>17, <1>18, <2>2
  <2> QED
    BY <1>18, <2>3 DEF OpenAt
<1>25. Paired(todo)
  <2>1. ASSUME NEW k \in 1 .. size, NEW f \in ContextField, Enters(todo[k], f)
        PROVE  OpenAt(todo, k + 1, f)
    <3>1. Entry(k, f)
      BY <1>17, <2>1
    <3> QED
      BY <1>22, <1>23, <3>1
  <2>2. "lock" \in ContextField
    BY DEF ContextField
  <2> QED
    BY <1>18, <1>21, <1>24, <2>1, <2>2 DEF Paired
<1>26. ASSUME NEW f \in ContextField
       PROVE  OpenAt(todo, 1, f) <=> f = "lock" \/ (f = "verifierExecution" /\ v # Zero)
  <2>1. OpenAt(todo, 1, "lock")
    <3>1. 1 \in 1 .. size
      BY <1>5
    <3> QED
      BY <1>21, <3>1
  <2>2. ASSUME v # Zero
        PROVE  OpenAt(todo, 1, "verifierExecution")
    <3>1. todo[size - 1] = Exit("verifierExecution") /\ size - 1 \in 1 .. Len(todo)
      BY <1>17, <1>18, <1>19, <2>2
    <3>2. \A j \in 1 .. (size - 1) - 1 : ~Enters(todo[j], "verifierExecution")
      BY <1>17, <1>18
    <3> QED
      BY <3>1, <3>2 DEF OpenAt
  <2>3. ASSUME OpenAt(todo, 1, f)
        PROVE  f = "lock" \/ (f = "verifierExecution" /\ v # Zero)
    <3>1. PICK l \in 1 .. size :
            todo[l] = Exit(f) /\ \A j \in 1 .. l - 1 : ~Enters(todo[j], f)
      BY <1>18, <2>3 DEF OpenAt
    <3>2. Closing(l, f)
      BY <1>17, <3>1
    <3>3. ASSUME f = "verify" PROVE FALSE
      <4>1. 1 + 2 * nh \in 1 .. l - 1 /\ 1 + 2 * nh \in 1 .. size
        BY <1>5, <1>19, <3>2, <3>3
      <4>2. Enters(todo[1 + 2 * nh], "verify")
        BY <1>17, <4>1
      <4> QED
        BY <3>1, <3>3, <4>1, <4>2
    <3>4. ASSUME f = "hookExecution" PROVE FALSE
      <4>1. h # Zero /\ 1 \in 1 .. l - 1 /\ 1 \in 1 .. size
        BY <1>5, <1>19, <3>2, <3>4
      <4>2. Enters(todo[1], "hookExecution")
        BY <1>17, <4>1
      <4> QED
        BY <3>1, <3>4, <4>1, <4>2
    <3> QED
      BY <3>2, <3>3, <3>4
  <2> QED
    BY <2>1, <2>2, <2>3
<1>27. ToRun(todo)
  BY <1>17, <1>18, <1>19 DEF ToRun
<1>28. \A j, k \in DOMAIN todo :
         Enters(todo[j], "verify") /\ Enters(todo[k], "verify") => j = k
  BY <1>17, <1>18
<1>29. Operation(todo)
  BY <1>14, <1>18, <1>21, <1>25, <1>28 DEF Operation, S
<1> QED
  BY <1>26, <1>27, <1>29 DEF OperationShape, todo
-----------------------------------------------------------------------------
Forward(stk) == [stk EXCEPT ![Len(stk)].todo = Tail(@)]
Moving(stk) == stk # <<>> /\ stk[Len(stk)].todo # <<>>

LEMMA FrameFields ==
  ASSUME NEW frame \in Frames
  PROVE  /\ frame.account \in Account /\ frame.nonce \in Nonce \cup {None}
         /\ frame.todo \in Seq(Step) /\ frame.saved \in Snapshots \cup {None}
         /\ IsUserOp(frame) => frame.nonce \in Nonce
  BY SMTT(30) DEF Frames, IsUserOp

LEMMA ForwardFrames ==
  ASSUME NEW stk \in Seq(Frames), Moving(stk)
  PROVE  /\ Forward(stk) \in Seq(Frames)
         /\ Len(stk) \in Nat \ {0} /\ Len(Forward(stk)) = Len(stk)
         /\ DOMAIN stk = 1 .. Len(stk) /\ DOMAIN Forward(stk) = 1 .. Len(stk)
         /\ \A i \in 1 .. Len(stk) :
              /\ Forward(stk)[i].account = stk[i].account
              /\ Forward(stk)[i].nonce = stk[i].nonce
              /\ Forward(stk)[i].saved = stk[i].saved
              /\ i < Len(stk) => Forward(stk)[i] = stk[i]
         /\ Forward(stk)[Len(stk)].todo = Tail(stk[Len(stk)].todo)
<1>1. Len(stk) \in Nat \ {0} /\ DOMAIN stk = 1 .. Len(stk)
  BY EmptySeq, LenProperties DEF Moving
<1> DEFINE n == Len(stk)
           frame == [stk[n] EXCEPT !.todo = Tail(@)]
<1>2. stk[n] \in Frames
  BY <1>1, ElementOfSeq
<1>3. Tail(stk[n].todo) \in Seq(Step)
  BY <1>2, FrameFields, HeadTailProperties DEF Moving
<1>4. /\ frame \in Frames /\ frame.todo = Tail(stk[n].todo)
      /\ frame.account = stk[n].account /\ frame.nonce = stk[n].nonce
      /\ frame.saved = stk[n].saved
  BY <1>2, <1>3 DEF Frames
<1>5. Forward(stk) = [stk EXCEPT ![n] = frame]
  BY DEF Forward
<1>6. /\ Forward(stk) \in Seq(Frames) /\ Len(Forward(stk)) = n
      /\ \A j \in 1 .. n : Forward(stk)[j] = IF j = n THEN frame ELSE stk[j]
  BY <1>1, <1>4, <1>5, ExceptSeq
<1> HIDE DEF frame
<1>7. DOMAIN Forward(stk) = 1 .. n
  BY <1>6, LenProperties
<1>8. n \in 1 .. n
  BY <1>1
<1>9. Forward(stk)[n] = frame /\ \A i \in 1 .. n : i < n => Forward(stk)[i] = stk[i]
  <2>0. n \in Nat
    BY <1>1
  <2> HIDE DEF n
  <2>1. \A i \in 1 .. n : i < n => i # n
    BY <2>0
  <2> QED
    BY <1>6, <1>8, <2>1
<1>10. \A i \in 1 .. n : i < n \/ i = n
  <2>1. n \in Nat
    BY <1>1
  <2> HIDE DEF n
  <2> QED
    BY <2>1
<1> HIDE DEF n
<1>11. /\ \A i \in 1 .. n : /\ Forward(stk)[i].account = stk[i].account
                           /\ Forward(stk)[i].nonce = stk[i].nonce
                           /\ Forward(stk)[i].saved = stk[i].saved
       /\ Forward(stk)[n].todo = Tail(stk[n].todo)
  BY <1>4, <1>9, <1>10
<1> QED
  BY <1>1, <1>6, <1>7, <1>9, <1>11 DEF n

LEMMA PushFrames ==
  ASSUME NEW stk \in Seq(Frames), NEW frame \in Frames
  PROVE  /\ Append(stk, frame) \in Seq(Frames)
         /\ Len(stk) \in Nat /\ Len(Append(stk, frame)) = Len(stk) + 1
         /\ DOMAIN stk = 1 .. Len(stk)
         /\ DOMAIN Append(stk, frame) = 1 .. Len(stk) + 1
         /\ \A i \in 1 .. Len(stk) : Append(stk, frame)[i] = stk[i]
         /\ Append(stk, frame)[Len(stk) + 1] = frame
  BY AppendProperties, LenProperties

LEMMA PrefixFrames ==
  ASSUME NEW stk \in Seq(Frames), NEW m \in 0 .. Len(stk)
  PROVE  /\ SubSeq(stk, 1, m) \in Seq(Frames)
         /\ Len(SubSeq(stk, 1, m)) = m
         /\ DOMAIN SubSeq(stk, 1, m) = 1 .. m
         /\ DOMAIN stk = 1 .. Len(stk) /\ Len(stk) \in Nat
         /\ \A i \in 1 .. m : SubSeq(stk, 1, m)[i] = stk[i]
<1>1. Len(stk) \in Nat /\ DOMAIN stk = 1 .. Len(stk) /\ m \in Nat
  BY LenProperties
<1>2. \A i \in 1 .. m : stk[i] \in Frames
  BY <1>1, ElementOfSeq
<1>3. /\ SubSeq(stk, 1, m) \in Seq(Frames)
      /\ Len(SubSeq(stk, 1, m)) = IF 1 <= m THEN m - 1 + 1 ELSE 0
      /\ \A i \in 1 .. m - 1 + 1 : SubSeq(stk, 1, m)[i] = stk[1 + i - 1]
  BY <1>1, <1>2, SubSeqProperties
<1>4. Len(SubSeq(stk, 1, m)) = m
  BY <1>1, <1>3
<1>5. \A i \in 1 .. m : SubSeq(stk, 1, m)[i] = stk[i]
  <2>1. \A i \in 1 .. m : i \in 1 .. m - 1 + 1 /\ 1 + i - 1 = i
    BY <1>1
  <2> QED
    BY <1>3, <2>1
<1>6. DOMAIN SubSeq(stk, 1, m) = 1 .. m
  BY <1>3, <1>4, LenProperties
<1> QED
  BY <1>1, <1>3, <1>4, <1>5, <1>6

LEMMA PrefixOfPrefix ==
  ASSUME NEW stk \in Seq(Frames), NEW m \in 0 .. Len(stk), NEW k \in 0 .. m
  PROVE  SubSeq(SubSeq(stk, 1, m), 1, k) = SubSeq(stk, 1, k)
<1>1. m \in Nat /\ Len(stk) \in Nat /\ k \in 0 .. Len(stk)
  BY LenProperties
<1>2. /\ SubSeq(stk, 1, m) \in Seq(Frames) /\ Len(SubSeq(stk, 1, m)) = m
      /\ \A i \in 1 .. m : SubSeq(stk, 1, m)[i] = stk[i]
  BY PrefixFrames
<1> DEFINE p == SubSeq(stk, 1, m)
<1> HIDE DEF p
<1>3. /\ SubSeq(p, 1, k) \in Seq(Frames) /\ Len(SubSeq(p, 1, k)) = k
      /\ \A i \in 1 .. k : SubSeq(p, 1, k)[i] = p[i]
  BY <1>2, PrefixFrames DEF p
<1>4. /\ SubSeq(stk, 1, k) \in Seq(Frames) /\ Len(SubSeq(stk, 1, k)) = k
      /\ \A i \in 1 .. k : SubSeq(stk, 1, k)[i] = stk[i]
  BY <1>1, PrefixFrames
<1>5. \A i \in 1 .. k : SubSeq(p, 1, k)[i] = SubSeq(stk, 1, k)[i]
  BY <1>1, <1>2, <1>3, <1>4 DEF p
<1>6. SubSeq(p, 1, k) = SubSeq(stk, 1, k)
  BY <1>3, <1>4, <1>5, SeqEqual
<1> QED
  BY <1>6 DEF p

(* Which frames may hold which contexts.                                    *)
LEMMA FrameShape ==
  ASSUME NEW stk \in Seq(Frames), Stacked(stk), NEW i \in DOMAIN stk
  PROVE  /\ stk[i].todo \in Seq(Step) /\ stk[i].account \in Account
         /\ Paired(stk[i].todo)
         /\ \A f \in ContextField : HasOpen(stk[i], f) =>
              /\ stk[i].todo # <<>>
              /\ IsUserOp(stk[i]) <=> f \notin Config
              /\ ~IsUserOp(stk[i]) => i = 1
         /\ IsUserOp(stk[i]) /\ stk[i].todo # <<>> => HasOpen(stk[i], "lock")
<1>1. DOMAIN stk = 1 .. Len(stk) /\ stk[i] \in Frames
  BY LenProperties, ElementOfSeq
<1> DEFINE todo == stk[i].todo
<1>2. todo \in Seq(Step) /\ stk[i].account \in Account
  BY <1>1, FrameFields
<1>3. DOMAIN todo = 1 .. Len(todo) /\ Len(todo) \in Nat
  BY <1>2, LenProperties
<1>4. /\ IsUserOp(stk[i]) => Operation(todo)
      /\ IsUserOp(stk[i]) \/ Batch(stk[i]) \/ (i = 1 /\ Maintaining(stk[i]))
  BY DEF Stacked
<1>5. CASE IsUserOp(stk[i])
  <2>1. Operation(todo)
    BY <1>4, <1>5
  <2>2. \A k \in DOMAIN todo, f \in ContextField : todo[k] = Exit(f) => f \notin Config
    <3>1. \A k \in DOMAIN todo : todo[k] \in OperationStep
      BY <1>3, <2>1, ElementOfSeq DEF Operation
    <3> QED
      BY <3>1 DEF OperationStep, Exit, Config
  <2>3. \A f \in ContextField : HasOpen(stk[i], f) => todo # <<>> /\ f \notin Config
    BY <2>2 DEF HasOpen
  <2>4. todo # <<>> => HasOpen(stk[i], "lock")
    <3>1. ASSUME todo # <<>> PROVE 1 \in DOMAIN todo
      BY <1>2, <1>3, <3>1, EmptySeq
    <3> QED
      BY <1>2, <2>1, <3>1, FirstOpen DEF Operation
  <2> QED
    BY <1>2, <1>5, <2>1, <2>3, <2>4 DEF Operation
<1>6. CASE Batch(stk[i])
  <2>1. \A k \in DOMAIN todo : todo[k].do = "execute"
    <3>1. \A k \in DOMAIN todo : todo[k] \in BatchStep
      BY <1>3, <1>6, ElementOfSeq DEF Batch
    <3> QED
      BY <3>1 DEF BatchStep
  <2>2. \A f : \A k \in DOMAIN todo : todo[k] # Exit(f) /\ ~Enters(todo[k], f)
    BY <2>1 DEF Exit, Enters
  <2>3. \A f : ~HasOpen(stk[i], f)
    BY <2>2 DEF HasOpen
  <2>4. Paired(todo)
    BY <2>1, <2>2 DEF Paired
  <2> QED
    BY <1>2, <1>6, <2>3, <2>4 DEF Batch
<1>7. CASE i = 1 /\ Maintaining(stk[i])
  <2>1. \A k \in DOMAIN todo, f \in ContextField : todo[k] = Exit(f) => f \in Config
    <3>1. \A k \in DOMAIN todo : todo[k] \in MaintenanceStep
      BY <1>3, <1>7, ElementOfSeq DEF Maintaining
    <3> QED
      BY <3>1 DEF MaintenanceStep, Exit
  <2>2. \A f \in ContextField : HasOpen(stk[i], f) => todo # <<>> /\ f \in Config
    BY <2>1 DEF HasOpen
  <2> QED
    BY <1>2, <1>7, <2>2 DEF Maintaining
<1> QED
  BY <1>4, <1>5, <1>6, <1>7

LEMMA OpenedDrops ==
  ASSUME NEW con \in [Account -> [ContextField -> Contract \cup {None}]],
         NEW a \in Account, NEW f \in ContextField
  PROVE  Opened([con EXCEPT ![a][f] = None]) = Opened(con) \ {<<a, f>>}
  BY DEF Opened

LEMMA InOpened ==
  ASSUME NEW con, NEW a \in Account, NEW f \in ContextField
  PROVE  <<a, f>> \in Opened(con) <=> con[a][f] # None
  BY DEF Opened
-----------------------------------------------------------------------------
LEMMA ForwardOpens ==
  ASSUME NEW stk \in Seq(Frames), Stacked(stk), Moving(stk), NEW f \in ContextField
  PROVE  LET n == Len(stk)
             x == Head(stk[n].todo)
         IN /\ \A i \in 1 .. n : i < n => (HasOpen(Forward(stk)[i], f) <=> HasOpen(stk[i], f))
            /\ Enters(x, f) => ~HasOpen(stk[n], f) /\ HasOpen(Forward(stk)[n], f)
            /\ x = Exit(f) => HasOpen(stk[n], f) /\ ~HasOpen(Forward(stk)[n], f)
            /\ ~Enters(x, f) /\ x # Exit(f)
                 => (HasOpen(Forward(stk)[n], f) <=> HasOpen(stk[n], f))
<1> DEFINE n == Len(stk)
<1>1. /\ \A i \in 1 .. n : i < n => Forward(stk)[i] = stk[i]
      /\ n \in DOMAIN stk /\ n \in 1 .. n
      /\ Forward(stk)[n].todo = Tail(stk[n].todo) /\ Forward(stk)[n] \in Frames
  BY ForwardFrames, ElementOfSeq
<1>2. /\ stk[n].todo \in Seq(Step) /\ Paired(stk[n].todo) /\ stk[n].todo # <<>>
      /\ Forward(stk)[n].todo \in Seq(Step)
  BY <1>1, FrameShape, FrameFields DEF Moving
<1> DEFINE todo == stk[n].todo
<1>3. /\ Head(todo) = todo[1]
      /\ Enters(todo[1], f) => ~OpenAt(todo, 1, f) /\ OpenAt(Tail(todo), 1, f)
      /\ todo[1] = Exit(f) => OpenAt(todo, 1, f) /\ ~OpenAt(Tail(todo), 1, f)
      /\ ~Enters(todo[1], f) /\ todo[1] # Exit(f)
           => (OpenAt(Tail(todo), 1, f) <=> OpenAt(todo, 1, f))
  BY <1>2, Opening
<1>4. /\ HasOpen(stk[n], f) <=> OpenAt(todo, 1, f)
      /\ HasOpen(Forward(stk)[n], f) <=> OpenAt(Tail(todo), 1, f)
  BY <1>1, <1>2, FirstOpen
<1> QED
  BY <1>1, <1>3, <1>4

LEMMA ForwardStacked ==
  ASSUME NEW stk \in Seq(Frames), Stacked(stk), Moving(stk)
  PROVE  Stacked(Forward(stk))
<1> DEFINE n == Len(stk)
           s == Forward(stk)
<1>1. /\ n \in Nat /\ n \in 1 .. n /\ Len(s) = n
      /\ DOMAIN stk = 1 .. n /\ DOMAIN s = 1 .. n
      /\ \A i \in 1 .. n : s[i].nonce = stk[i].nonce
      /\ \A i \in 1 .. n : i < n => s[i] = stk[i]
      /\ s[n].todo = Tail(stk[n].todo)
  BY ForwardFrames
<1>2. stk[n].todo # <<>> /\ stk[n].todo \in Seq(Step)
  BY <1>1, FrameShape DEF Moving
<1>3. IsUserOp(s[n]) <=> IsUserOp(stk[n])
  BY <1>1 DEF IsUserOp
<1>4. IsUserOp(stk[n]) => Operation(s[n].todo)
  BY <1>1, <1>2, OperationTail DEF Stacked
<1>5. Batch(stk[n]) => Batch(s[n])
  BY <1>1, <1>2, <1>3, HeadTailProperties DEF Batch
<1>6. Maintaining(stk[n]) => Maintaining(s[n])
  BY <1>1, <1>2, <1>3, HeadTailProperties, PairedTail DEF Maintaining
<1> HIDE DEF s, n
<1>7. ASSUME NEW i \in 1 .. n
      PROVE  /\ IsUserOp(s[i]) => Operation(s[i].todo)
             /\ IsUserOp(s[i]) \/ Batch(s[i]) \/ (i = 1 /\ Maintaining(s[i]))
             /\ i < n => Calling(s[i]) \/ Batch(s[i])
  <2>1. CASE i = n
    BY <1>1, <1>3, <1>4, <1>5, <1>6, <2>1 DEF Stacked
  <2>2. CASE i < n
    BY <1>1, <2>2 DEF Stacked, n
  <2> QED
    BY <1>1, <2>1, <2>2
<1> QED
  BY <1>1, <1>7 DEF Stacked, s

ContextType(con) == con \in [Account -> [ContextField -> Contract \cup {None}]]

LEMMA QuietBalanced ==
  ASSUME NEW stk \in Seq(Frames), Stacked(stk), Moving(stk),
         NEW con, NEW d, Balanced(con, d, stk),
         Head(stk[Len(stk)].todo).do \notin {"enter", "exit"}
  PROVE  Balanced(con, d, Forward(stk))
<1> DEFINE n == Len(stk)
           s == Forward(stk)
<1>1. /\ n \in Nat /\ n \in 1 .. n /\ DOMAIN stk = 1 .. n /\ DOMAIN s = 1 .. n
      /\ \A i \in 1 .. n : s[i].account = stk[i].account
  BY ForwardFrames
<1>2. \A f : ~Enters(Head(stk[n].todo), f) /\ Head(stk[n].todo) # Exit(f)
  BY DEF Enters, Exit
<1>3. ASSUME NEW f \in ContextField, NEW i \in 1 .. n
      PROVE  HasOpen(s[i], f) <=> HasOpen(stk[i], f)
  <2>1. /\ \A j \in 1 .. n : j < n => (HasOpen(s[j], f) <=> HasOpen(stk[j], f))
        /\ HasOpen(s[n], f) <=> HasOpen(stk[n], f)
    BY <1>2, ForwardOpens
  <2>2. i < n \/ i = n
    <3> HIDE DEF n
    <3> QED
      BY <1>1
  <2> QED
    BY <2>1, <2>2
<1> HIDE DEF n, s
<1> QED
  BY <1>1, <1>3 DEF Balanced, s

LEMMA EnterBalanced ==
  ASSUME NEW stk \in Seq(Frames), Stacked(stk), Moving(stk),
         NEW con, ContextType(con), NEW d, Balanced(con, d, stk),
         NEW f \in ContextField, Enters(Head(stk[Len(stk)].todo), f),
         NEW value, value # None
  PROVE  Balanced([con EXCEPT ![stk[Len(stk)].account][f] = value], d + 1, Forward(stk))
<1> DEFINE n == Len(stk)
           s == Forward(stk)
           a == stk[n].account
           new == [con EXCEPT ![a][f] = value]
<1>1. /\ n \in Nat /\ n \in 1 .. n /\ DOMAIN stk = 1 .. n /\ DOMAIN s = 1 .. n
      /\ \A i \in 1 .. n : s[i].account = stk[i].account
  BY ForwardFrames
<1>2. /\ a \in Account /\ stk[n].todo \in Seq(Step) /\ stk[n].todo # <<>>
      /\ Head(stk[n].todo) = stk[n].todo[1] /\ 1 \in 1 .. Len(stk[n].todo)
  BY <1>1, FrameShape, EmptySeq DEF Moving
<1>3. /\ ~HasOpen(stk[n], f) /\ HasOpen(s[n], f)
      /\ \A i \in 1 .. n : i < n => (HasOpen(s[i], f) <=> HasOpen(stk[i], f))
  BY ForwardOpens
<1>4. ASSUME NEW g \in ContextField, g # f, NEW i \in 1 .. n
      PROVE  HasOpen(s[i], g) <=> HasOpen(stk[i], g)
  <2>1. ~Enters(Head(stk[n].todo), g) /\ Head(stk[n].todo) # Exit(g)
    BY <1>4 DEF Enters, Exit
  <2>2. /\ \A j \in 1 .. n : j < n => (HasOpen(s[j], g) <=> HasOpen(stk[j], g))
        /\ HasOpen(s[n], g) <=> HasOpen(stk[n], g)
    BY <2>1, ForwardOpens
  <2>3. i < n \/ i = n
    <3> HIDE DEF n
    <3> QED
      BY <1>1
  <2> QED
    BY <2>2, <2>3
<1>5. ASSUME NEW i \in 1 .. n, i < n, stk[i].account = a, HasOpen(stk[i], f)
      PROVE  FALSE
  <2>1. CASE IsUserOp(stk[n])
    <3>1. stk[n].todo[1] \in OperationStep
      BY <1>1, <1>2, <2>1, ElementOfSeq DEF Stacked, Operation
    <3>2. f \notin Config
      BY <1>2, <3>1 DEF OperationStep, Enters, Config
    <3>3. HasOpen(stk[i], "lock") /\ HasOpen(stk[n], "lock") /\ "lock" \in ContextField
      BY <1>1, <1>2, <1>5, <2>1, <3>2, FrameShape DEF ContextField
    <3> QED
      BY <1>1, <1>5, <3>3 DEF Balanced
  <2>2. CASE Batch(stk[n])
    <3>1. stk[n].todo[1] \in BatchStep
      BY <1>2, <2>2, ElementOfSeq DEF Batch
    <3> QED
      BY <1>2, <3>1 DEF BatchStep, Enters
  <2>3. CASE n = 1
    BY <1>1, <1>5, <2>3
  <2> QED
    BY <1>1, <2>1, <2>2, <2>3 DEF Stacked
<1>6. con[a][f] = None
  <2>1. ASSUME NEW i \in 1 .. n, stk[i].account = a PROVE ~HasOpen(stk[i], f)
    <3>1. i < n \/ i = n
      <4> HIDE DEF n
      <4> QED
        BY <1>1
    <3> QED
      BY <1>3, <1>5, <2>1, <3>1
  <2> QED
    BY <1>1, <1>2, <2>1 DEF Balanced
<1>7. /\ IsFiniteSet(Opened(new)) /\ d + 1 = Cardinality(Opened(new))
  <2>1. a \in Account /\ con[a][f] = None
    BY <1>2, <1>6
  <2> HIDE DEF a
  <2>2. Opened(new) = Opened(con) \cup {<<a, f>>}
    <3>1. \A b \in Account, g \in ContextField :
            new[b][g] # None <=> con[b][g] # None \/ (b = a /\ g = f)
      BY <2>1 DEF ContextType
    <3> HIDE DEF new
    <3> QED
      BY <2>1, <3>1 DEF Opened
  <2>3. <<a, f>> \notin Opened(con)
    BY <2>1, InOpened
  <2>4. IsFiniteSet(Opened(con)) /\ d = Cardinality(Opened(con))
    BY DEF Balanced
  <2> HIDE DEF new
  <2> QED
    BY <2>2, <2>3, <2>4, FS_AddElement
<1>8. \A b \in Account, g \in ContextField :
        new[b][g] = IF b = a /\ g = f THEN value ELSE con[b][g]
  BY <1>2 DEF ContextType
<1> HIDE DEF n, s, a, new
<1>9. ASSUME NEW b \in Account, NEW g \in ContextField
      PROVE  new[b][g] # None <=> \E i \in 1 .. n : s[i].account = b /\ HasOpen(s[i], g)
  <2>1. CASE b = a /\ g = f
    BY <1>1, <1>3, <1>8, <2>1 DEF a
  <2>2. CASE g # f
    BY <1>1, <1>4, <1>8, <2>2 DEF Balanced
  <2>3. CASE b # a /\ g = f
    <3>1. ASSUME NEW i \in 1 .. n, s[i].account = b
          PROVE  HasOpen(s[i], f) <=> HasOpen(stk[i], f)
      <4>1. i < n
        BY <1>1, <2>3, <3>1 DEF a
      <4> QED
        BY <1>3, <4>1
    <3> QED
      BY <1>1, <1>8, <2>3, <3>1 DEF Balanced
  <2> QED
    BY <2>1, <2>2, <2>3
<1>10. ASSUME NEW i \in 1 .. n, NEW j \in 1 .. n, NEW g \in ContextField,
              s[i].account = s[j].account, HasOpen(s[i], g), HasOpen(s[j], g)
       PROVE  i = j
  <2>0. stk[i].account = stk[j].account
    BY <1>1, <1>10
  <2>1. CASE g # f
    BY <1>1, <1>4, <1>10, <2>0, <2>1 DEF Balanced
  <2>2. CASE g = f /\ i < n /\ j < n
    BY <1>1, <1>3, <1>10, <2>0, <2>2 DEF Balanced
  <2>3. CASE g = f /\ i = n /\ j < n
    BY <1>3, <1>5, <1>10, <2>0, <2>3 DEF a
  <2>4. CASE g = f /\ i < n /\ j = n
    BY <1>3, <1>5, <1>10, <2>0, <2>4 DEF a
  <2> QED
    BY <1>1, <2>1, <2>2, <2>3, <2>4
<1>11. Balanced(new, d + 1, s)
  BY <1>1, <1>7, <1>9, <1>10 DEF Balanced
<1> QED
  BY <1>11 DEF new, s, a, n

LEMMA ExitBalanced ==
  ASSUME NEW stk \in Seq(Frames), Stacked(stk), Moving(stk),
         NEW con, ContextType(con), NEW d, Balanced(con, d, stk),
         NEW f \in ContextField, Head(stk[Len(stk)].todo) = Exit(f)
  PROVE  Balanced([con EXCEPT ![stk[Len(stk)].account][f] = None], d - 1, Forward(stk))
<1> DEFINE n == Len(stk)
           s == Forward(stk)
           a == stk[n].account
           new == [con EXCEPT ![a][f] = None]
<1>1. /\ n \in Nat /\ n \in 1 .. n /\ DOMAIN stk = 1 .. n /\ DOMAIN s = 1 .. n
      /\ \A i \in 1 .. n : s[i].account = stk[i].account
  BY ForwardFrames
<1>2. a \in Account
  BY <1>1, FrameShape
<1>3. /\ HasOpen(stk[n], f) /\ ~HasOpen(s[n], f)
      /\ \A i \in 1 .. n : i < n => (HasOpen(s[i], f) <=> HasOpen(stk[i], f))
  BY ForwardOpens
<1>4. ASSUME NEW g \in ContextField, g # f, NEW i \in 1 .. n
      PROVE  HasOpen(s[i], g) <=> HasOpen(stk[i], g)
  <2>1. ~Enters(Head(stk[n].todo), g) /\ Head(stk[n].todo) # Exit(g)
    BY <1>4 DEF Enters, Exit
  <2>2. /\ \A j \in 1 .. n : j < n => (HasOpen(s[j], g) <=> HasOpen(stk[j], g))
        /\ HasOpen(s[n], g) <=> HasOpen(stk[n], g)
    BY <2>1, ForwardOpens
  <2>3. i < n \/ i = n
    <3> HIDE DEF n
    <3> QED
      BY <1>1
  <2> QED
    BY <2>2, <2>3
<1>5. \A i \in 1 .. n : i < n /\ stk[i].account = a => ~HasOpen(stk[i], f)
  <2>1. \A i \in 1 .. n : stk[i].account = a /\ HasOpen(stk[i], f) => i = n
    BY <1>1, <1>3 DEF Balanced
  <2>2. \A i \in 1 .. n : i < n => i # n
    <3> HIDE DEF n
    <3> QED
      BY <1>1
  <2> QED
    BY <2>1, <2>2, SMTT(30)
<1>6. con[a][f] # None
  BY <1>1, <1>2, <1>3 DEF Balanced
<1>7. IsFiniteSet(Opened(new)) /\ d - 1 = Cardinality(Opened(new))
  <2>1. a \in Account /\ con[a][f] # None
    BY <1>2, <1>6
  <2> HIDE DEF a
  <2>2. Opened(new) = Opened(con) \ {<<a, f>>}
    BY <2>1, OpenedDrops DEF ContextType
  <2>3. <<a, f>> \in Opened(con)
    BY <2>1, InOpened
  <2>4. IsFiniteSet(Opened(con)) /\ d = Cardinality(Opened(con))
    BY DEF Balanced
  <2> HIDE DEF new
  <2> QED
    BY <2>2, <2>3, <2>4, FS_RemoveElement
<1>8. \A b \in Account, g \in ContextField :
        new[b][g] = IF b = a /\ g = f THEN None ELSE con[b][g]
  BY <1>2 DEF ContextType
<1> HIDE DEF n, s, a, new
<1>9. ASSUME NEW b \in Account, NEW g \in ContextField
      PROVE  new[b][g] # None <=> \E i \in 1 .. n : s[i].account = b /\ HasOpen(s[i], g)
  <2>1. CASE b = a /\ g = f
    <3>1. ASSUME NEW i \in 1 .. n, s[i].account = b PROVE ~HasOpen(s[i], f)
      <4>1. i < n \/ i = n
        BY <1>1
      <4> QED
        BY <1>1, <1>3, <1>5, <2>1, <3>1, <4>1
    <3> QED
      BY <1>8, <2>1, <3>1
  <2>2. CASE g # f
    BY <1>1, <1>4, <1>8, <2>2 DEF Balanced
  <2>3. CASE b # a /\ g = f
    <3>1. ASSUME NEW i \in 1 .. n, s[i].account = b
          PROVE  HasOpen(s[i], f) <=> HasOpen(stk[i], f)
      <4>1. i < n
        BY <1>1, <2>3, <3>1 DEF a
      <4> QED
        BY <1>3, <4>1
    <3> QED
      BY <1>1, <1>8, <2>3, <3>1 DEF Balanced
  <2> QED
    BY <2>1, <2>2, <2>3
<1>10. ASSUME NEW i \in 1 .. n, NEW j \in 1 .. n, NEW g \in ContextField,
              s[i].account = s[j].account, HasOpen(s[i], g), HasOpen(s[j], g)
       PROVE  i = j
  <2>0. stk[i].account = stk[j].account
    BY <1>1, <1>10
  <2>1. CASE g # f
    BY <1>1, <1>4, <1>10, <2>0, <2>1 DEF Balanced
  <2>2. CASE g = f
    <3>1. i < n /\ j < n
      BY <1>1, <1>3, <1>10, <2>2
    <3> QED
      BY <1>1, <1>3, <1>10, <2>0, <2>2, <3>1 DEF Balanced
  <2> QED
    BY <2>1, <2>2
<1>11. Balanced(new, d - 1, s)
  BY <1>1, <1>7, <1>9, <1>10 DEF Balanced
<1> QED
  BY <1>11 DEF new, s, a, n
-----------------------------------------------------------------------------
LEMMA PushStacked ==
  ASSUME NEW stk \in Seq(Frames), NEW frame \in Frames, Stacked(stk),
         stk # <<>> => Calling(stk[Len(stk)]) \/ Batch(stk[Len(stk)]),
         \/ IsUserOp(frame) /\ Operation(frame.todo)
         \/ Batch(frame)
         \/ stk = <<>> /\ Maintaining(frame)
  PROVE  Stacked(Append(stk, frame))
<1> DEFINE n == Len(stk)
           s == Append(stk, frame)
<1>1. /\ n \in Nat /\ DOMAIN stk = 1 .. n /\ DOMAIN s = 1 .. n + 1 /\ Len(s) = n + 1
      /\ \A i \in 1 .. n : s[i] = stk[i]
      /\ s[n + 1] = frame
  BY PushFrames
<1>2. stk = <<>> => n = 0
  OBVIOUS
<1>3. n # 0 => stk # <<>>
  OBVIOUS
<1>4. n # 0 => Calling(stk[n]) \/ Batch(stk[n])
  BY <1>3
<1>5. \A i \in 1 .. n : /\ IsUserOp(stk[i]) => Operation(stk[i].todo)
                        /\ IsUserOp(stk[i]) \/ Batch(stk[i])
                             \/ (i = 1 /\ Maintaining(stk[i]))
                        /\ i < n => Calling(stk[i]) \/ Batch(stk[i])
  BY <1>1 DEF Stacked
<1>6. /\ IsUserOp(frame) => Operation(frame.todo)
      /\ IsUserOp(frame) \/ Batch(frame) \/ (n = 0 /\ Maintaining(frame))
  BY <1>2 DEF Batch, Maintaining
<1> HIDE DEF n, s
<1>7. ASSUME NEW i \in 1 .. n + 1
      PROVE  /\ IsUserOp(s[i]) => Operation(s[i].todo)
             /\ IsUserOp(s[i]) \/ Batch(s[i]) \/ (i = 1 /\ Maintaining(s[i]))
             /\ i < n + 1 => Calling(s[i]) \/ Batch(s[i])
  <2>1. CASE i = n + 1
    BY <1>1, <1>6, <2>1
  <2>2. CASE i = n
    BY <1>1, <1>4, <1>5, <2>2
  <2>3. CASE i < n
    BY <1>1, <1>5, <2>3
  <2> QED
    BY <1>1, <2>1, <2>2, <2>3
<1> QED
  BY <1>1, <1>7 DEF Stacked, s

LEMMA PushBalanced ==
  ASSUME NEW stk \in Seq(Frames), NEW frame \in Frames,
         NEW con, NEW new, NEW d, NEW e, Balanced(con, d, stk),
         \A f \in ContextField : HasOpen(frame, f) => con[frame.account][f] = None,
         \A b \in Account, f \in ContextField : new[b][f] # None
           <=> con[b][f] # None \/ (b = frame.account /\ HasOpen(frame, f)),
         IsFiniteSet(Opened(new)), e = Cardinality(Opened(new))
  PROVE  Balanced(new, e, Append(stk, frame))
<1> DEFINE n == Len(stk)
           s == Append(stk, frame)
<1>1. /\ n \in Nat /\ DOMAIN stk = 1 .. n /\ DOMAIN s = 1 .. n + 1
      /\ \A i \in 1 .. n : s[i] = stk[i]
      /\ s[n + 1] = frame
      /\ frame.account \in Account
  BY PushFrames, FrameFields
<1> HIDE DEF n, s
<1>2. \A i \in 1 .. n + 1 : i \in 1 .. n \/ i = n + 1
  BY <1>1
<1>3. n + 1 \in 1 .. n + 1 /\ \A i \in 1 .. n : i \in 1 .. n + 1
  BY <1>1
<1>4. ASSUME NEW b \in Account, NEW f \in ContextField
      PROVE  new[b][f] # None <=> \E i \in 1 .. n + 1 : s[i].account = b /\ HasOpen(s[i], f)
  <2>1. con[b][f] # None <=> \E i \in 1 .. n : stk[i].account = b /\ HasOpen(stk[i], f)
    BY <1>1 DEF Balanced
  <2> QED
    BY <1>1, <1>2, <1>3, <2>1
<1>5. ASSUME NEW i \in 1 .. n + 1, NEW j \in 1 .. n + 1, NEW f \in ContextField,
             s[i].account = s[j].account, HasOpen(s[i], f), HasOpen(s[j], f)
      PROVE  i = j
  <2>1. ASSUME NEW k \in 1 .. n, stk[k].account = frame.account, HasOpen(stk[k], f),
               HasOpen(frame, f)
        PROVE  FALSE
    BY <1>1, <2>1 DEF Balanced
  <2>2. CASE i \in 1 .. n /\ j \in 1 .. n
    BY <1>1, <1>5, <2>2 DEF Balanced
  <2>3. CASE i \in 1 .. n /\ j = n + 1
    BY <1>1, <1>5, <2>1, <2>3
  <2>4. CASE i = n + 1 /\ j \in 1 .. n
    BY <1>1, <1>5, <2>1, <2>4
  <2> QED
    BY <1>2, <2>2, <2>3, <2>4
<1> QED
  BY <1>1, <1>4, <1>5 DEF Balanced, s

LEMMA PopBalanced ==
  ASSUME NEW stk \in Seq(Frames), stk # <<>>, stk[Len(stk)].todo = <<>>,
         NEW con, NEW d, Balanced(con, d, stk)
  PROVE  Balanced(con, d, SubSeq(stk, 1, Len(stk) - 1))
<1> DEFINE n == Len(stk)
           s == SubSeq(stk, 1, n - 1)
<1>1. n \in Nat \ {0} /\ n - 1 \in 0 .. n
  BY EmptySeq
<1>2. /\ DOMAIN stk = 1 .. n /\ DOMAIN s = 1 .. n - 1
      /\ \A i \in 1 .. n - 1 : s[i] = stk[i]
  BY <1>1, PrefixFrames
<1>3. \A f : ~HasOpen(stk[n], f)
  BY DEF HasOpen
<1> HIDE DEF n, s
<1>4. \A f : \A i \in 1 .. n : HasOpen(stk[i], f) => i \in 1 .. n - 1
  BY <1>1, <1>3
<1>5. \A i \in 1 .. n - 1 : i \in 1 .. n
  BY <1>1
<1>6. ASSUME NEW b \in Account, NEW f \in ContextField
      PROVE  con[b][f] # None <=> \E i \in 1 .. n - 1 : s[i].account = b /\ HasOpen(s[i], f)
  <2>1. con[b][f] # None <=> \E i \in 1 .. n : stk[i].account = b /\ HasOpen(stk[i], f)
    BY <1>2 DEF Balanced
  <2> QED
    BY <1>2, <1>4, <1>5, <2>1
<1>7. \A i, j \in 1 .. n - 1, f \in ContextField :
        s[i].account = s[j].account /\ HasOpen(s[i], f) /\ HasOpen(s[j], f) => i = j
  BY <1>2, <1>5 DEF Balanced
<1> QED
  BY <1>2, <1>6, <1>7 DEF Balanced, s, n

LEMMA PopStacked ==
  ASSUME NEW stk \in Seq(Frames), Stacked(stk), NEW m \in 0 .. Len(stk)
  PROVE  Stacked(SubSeq(stk, 1, m))
<1> DEFINE n == Len(stk)
           s == SubSeq(stk, 1, m)
<1>1. /\ n \in Nat /\ DOMAIN stk = 1 .. n /\ DOMAIN s = 1 .. m /\ Len(s) = m
      /\ \A i \in 1 .. m : s[i] = stk[i]
  BY PrefixFrames
<1>2. m \in 0 .. n
  OBVIOUS
<1> HIDE DEF n, s
<1>3. \A i \in 1 .. m : i \in 1 .. n /\ (i < m => i < n)
  BY <1>1, <1>2
<1>4. \A i \in 1 .. n : /\ IsUserOp(stk[i]) => Operation(stk[i].todo)
                        /\ IsUserOp(stk[i]) \/ Batch(stk[i])
                             \/ (i = 1 /\ Maintaining(stk[i]))
                        /\ i < n => Calling(stk[i]) \/ Batch(stk[i])
  BY <1>1 DEF Stacked, n
<1>5. \A i \in 1 .. m : /\ IsUserOp(s[i]) => Operation(s[i].todo)
                        /\ IsUserOp(s[i]) \/ Batch(s[i])
                             \/ (i = 1 /\ Maintaining(s[i]))
                        /\ i < m => Calling(s[i]) \/ Batch(s[i])
  BY <1>1, <1>3, <1>4
<1> QED
  BY <1>1, <1>5 DEF Stacked, s

(* Of two operations in progress on an account, at most one has not ended.  *)
LEMMA OneOperation ==
  ASSUME NEW stk \in Seq(Frames), Stacked(stk), NEW con, NEW d, Balanced(con, d, stk),
         NEW i \in DOMAIN stk, IsUserOp(stk[i]), stk[i].todo # <<>>
  PROVE  /\ con[stk[i].account]["lock"] # None
         /\ \A j \in DOMAIN stk : /\ IsUserOp(stk[j]) /\ stk[j].todo # <<>>
                                  /\ stk[j].account = stk[i].account
                                  => j = i
<1>1. "lock" \in ContextField
  BY DEF ContextField
<1>2. HasOpen(stk[i], "lock") /\ stk[i].account \in Account
  BY FrameShape
<1>3. \A j \in DOMAIN stk :
        IsUserOp(stk[j]) /\ stk[j].todo # <<>> => HasOpen(stk[j], "lock")
  BY FrameShape
<1> QED
  BY <1>1, <1>2, <1>3 DEF Balanced

SeqTypes(cur, done) ==
  /\ cur \in [Account -> [Channel -> 0 .. SeqLimit]]
  /\ done \in [Account -> [Channel -> Seq(0 .. SeqLimit - 1)]]

Updates(new, old, a, c, value) ==
  \A b \in Account, k \in Channel :
    new[b][k] = IF b = a /\ k = c THEN value ELSE old[b][k]

LEMMA SameWaiting ==
  ASSUME NEW next, NEW runs, NEW stk, NEW s, NEW a, NEW c,
         ConsumedAt(next, runs, stk, a, c),
         \A i \in DOMAIN s : Waiting(s[i], a, c) =>
           \E j \in DOMAIN stk : Waiting(stk[j], a, c) /\ stk[j].nonce = s[i].nonce,
         \A j \in DOMAIN stk : Waiting(stk[j], a, c) =>
           \E i \in DOMAIN s : Waiting(s[i], a, c)
  PROVE  ConsumedAt(next, runs, s, a, c)
  BY DEF ConsumedAt

LEMMA Updated ==
  ASSUME NEW S, NEW f \in [Account -> [Channel -> S]], NEW a \in Account,
         NEW c \in Channel, NEW value \in S
  PROVE  /\ [f EXCEPT ![a][c] = value] \in [Account -> [Channel -> S]]
         /\ Updates([f EXCEPT ![a][c] = value], f, a, c, value)
  BY DEF Updates

LEMMA WaitingRuns ==
  ASSUME NEW frame, NEW a, NEW c, Waiting(frame, a, c)
  PROVE  frame.todo # <<>> /\ IsUserOp(frame) /\ frame.account = a
  BY DEF Waiting, ToRun

LEMMA QuietConsumed ==
  ASSUME NEW stk \in Seq(Frames), Stacked(stk), Moving(stk),
         NEW cur, NEW done, Consumed(cur, done, stk),
         ~Enters(Head(stk[Len(stk)].todo), "verify")
  PROVE  Consumed(cur, done, Forward(stk))
<1> DEFINE n == Len(stk)
           s == Forward(stk)
<1>1. /\ n \in Nat /\ n \in 1 .. n /\ DOMAIN stk = 1 .. n /\ DOMAIN s = 1 .. n
      /\ \A i \in 1 .. n : s[i].nonce = stk[i].nonce /\ s[i].account = stk[i].account
      /\ \A i \in 1 .. n : i < n => s[i] = stk[i]
      /\ s[n].todo = Tail(stk[n].todo)
  BY ForwardFrames
<1>2. stk[n].todo \in Seq(Step) /\ stk[n].todo # <<>> /\ Paired(stk[n].todo)
  BY <1>1, FrameShape DEF Moving
<1>3. IsUserOp(stk[n]) => (ToRun(s[n].todo) <=> ToRun(stk[n].todo))
  <2>1. "verify" \in ContextField
    BY DEF ContextField
  <2>2. Head(stk[n].todo) = stk[n].todo[1]
    BY <1>2, <2>1, Opening
  <2> QED
    BY <1>1, <1>2, <2>2, OperationTail DEF Stacked
<1> HIDE DEF n, s
<1>4. \A a, c : \A i \in 1 .. n : Waiting(s[i], a, c) <=> Waiting(stk[i], a, c)
  <2>1. \A i \in 1 .. n : i < n \/ i = n
    BY <1>1
  <2>2. \A a, c : Waiting(s[n], a, c) <=> Waiting(stk[n], a, c)
    BY <1>1, <1>3 DEF Waiting, IsUserOp
  <2> QED
    BY <1>1, <2>1, <2>2
<1>5. \A a \in Account, c \in Channel : ConsumedAt(cur[a][c], done[a][c], s, a, c)
  BY <1>1, <1>4, SameWaiting DEF Consumed
<1> QED
  BY <1>5 DEF Consumed, s

LEMMA RunningOperation ==
  ASSUME NEW stk \in Seq(Frames), Stacked(stk), Moving(stk),
         Enters(Head(stk[Len(stk)].todo), "verify")
  PROVE  IsUserOp(stk[Len(stk)]) /\ stk[Len(stk)].nonce \in Nonce
<1> DEFINE n == Len(stk)
<1>1. n \in 1 .. n /\ DOMAIN stk = 1 .. n
  BY ForwardFrames
<1>2. /\ stk[n].todo \in Seq(Step) /\ stk[n].todo # <<>> /\ Paired(stk[n].todo)
      /\ stk[n] \in Frames
  BY <1>1, FrameShape, ElementOfSeq DEF Moving
<1>3. "verify" \in ContextField /\ "verify" \notin Config
  BY DEF ContextField, Config
<1>4. Head(stk[n].todo) = stk[n].todo[1] /\ 1 \in DOMAIN stk[n].todo
  BY <1>2, <1>3, Opening
<1>5. stk[n].todo[1].do = "enter" /\ stk[n].todo[1].field = "verify"
  BY <1>4 DEF Enters
<1>6. ASSUME Batch(stk[n]) PROVE FALSE
  <2>1. stk[n].todo[1] \in BatchStep
    BY <1>2, <1>4, <1>6, ElementOfSeq, LenProperties DEF Batch
  <2> QED
    BY <1>5, <2>1 DEF BatchStep
<1>7. ASSUME Maintaining(stk[n]) PROVE FALSE
  <2>1. stk[n].todo[1] \in MaintenanceStep
    BY <1>2, <1>4, <1>7, ElementOfSeq, LenProperties DEF Maintaining
  <2> QED
    BY <1>3, <1>5, <2>1 DEF MaintenanceStep
<1> QED
  BY <1>1, <1>2, <1>6, <1>7, FrameFields DEF Stacked

LEMMA RunConsumed ==
  ASSUME NEW stk \in Seq(Frames), Stacked(stk), Moving(stk),
         NEW con, NEW d, Balanced(con, d, stk),
         NEW cur, NEW done, SeqTypes(cur, done), Consumed(cur, done, stk),
         Enters(Head(stk[Len(stk)].todo), "verify"),
         NEW a \in Account, a = stk[Len(stk)].account,
         NEW nonce, nonce = stk[Len(stk)].nonce,
         NEW new \in [Account -> [Channel -> Seq(0 .. SeqLimit - 1)]],
         Updates(new, done, a, nonce.channel,
                 Append(done[a][nonce.channel], nonce.sequence))
  PROVE  /\ Consumed(cur, new, Forward(stk))
         /\ SeqTypes(cur, new)
         /\ NoShorter(done, new)
<1> DEFINE n == Len(stk)
           s == Forward(stk)
           c == nonce.channel
<1>1. /\ n \in Nat /\ n \in 1 .. n /\ DOMAIN stk = 1 .. n /\ DOMAIN s = 1 .. n
      /\ \A i \in 1 .. n : s[i].nonce = stk[i].nonce /\ s[i].account = stk[i].account
      /\ \A i \in 1 .. n : i < n => s[i] = stk[i]
      /\ s[n].todo = Tail(stk[n].todo)
  BY ForwardFrames
<1>2. /\ stk[n].todo \in Seq(Step) /\ stk[n].todo # <<>> /\ Paired(stk[n].todo)
      /\ stk[n] \in Frames
  BY <1>1, FrameShape, ElementOfSeq DEF Moving
<1>3. "verify" \in ContextField /\ "verify" \notin Config
  BY DEF ContextField, Config
<1>4. Head(stk[n].todo) = stk[n].todo[1] /\ 1 \in DOMAIN stk[n].todo
  BY <1>2, <1>3, Opening
<1>5. IsUserOp(stk[n]) /\ nonce \in Nonce
  BY RunningOperation
<1>6. Operation(stk[n].todo)
  BY <1>1, <1>5 DEF Stacked
<1>7. ToRun(stk[n].todo) /\ ~ToRun(s[n].todo)
  <2>1. ToRun(stk[n].todo)
    BY <1>4 DEF ToRun
  <2> QED
    BY <1>1, <1>2, <1>4, <1>6, <2>1, OperationTail
<1> HIDE DEF n, s, c
<1>8. c \in Channel /\ nonce.sequence \in 0 .. SeqLimit - 1
  BY <1>5 DEF Nonce, c
<1>9. Waiting(stk[n], a, c)
  BY <1>5, <1>7 DEF Waiting, n, c
<1>10. Len(done[a][c]) = nonce.sequence /\ cur[a][c] = nonce.sequence + 1
  <2>1. ConsumedAt(cur[a][c], done[a][c], stk, a, c)
    BY ONLY <1>8, a \in Account, Consumed(cur, done, stk), Zenon DEF Consumed
  <2>2. n \in DOMAIN stk
    BY <1>1
  <2>3. /\ Len(done[a][c]) = stk[n].nonce.sequence
        /\ cur[a][c] = stk[n].nonce.sequence + 1
    BY ONLY <1>9, <2>1, <2>2, Zenon DEF ConsumedAt
  <2>4. stk[n].nonce = nonce
    BY DEF n
  <2> QED BY ONLY <2>3, <2>4
<1>11. /\ \A b \in Account, k \in Channel :
            ~(b = a /\ k = c) => new[b][k] = done[b][k]
       /\ new[a][c] = Append(done[a][c], nonce.sequence)
       /\ new \in [Account -> [Channel -> Seq(0 .. SeqLimit - 1)]]
  BY <1>8 DEF c, Updates
<1>12. /\ Len(new[a][c]) = nonce.sequence + 1
       /\ Replay!InOrder(new[a][c])
  <2> DEFINE old == done[a][c]
             m == nonce.sequence
  <2>1. old \in Seq(0 .. SeqLimit - 1) /\ m \in 0 .. SeqLimit - 1 /\ Len(old) = m
    BY <1>8, <1>10 DEF SeqTypes
  <2>2. Replay!InOrder(old)
    <3>1. ConsumedAt(cur[a][c], done[a][c], stk, a, c)
      BY ONLY <1>8, a \in Account, Consumed(cur, done, stk), Zenon DEF Consumed
    <3> QED BY <3>1, Zenon DEF ConsumedAt
  <2>3. new[a][c] = Append(old, m)
    BY <1>11
  <2> HIDE DEF old, m
  <2>4. /\ Len(Append(old, m)) = m + 1 /\ m \in Nat
        /\ \A i \in 1 .. m : Append(old, m)[i] = old[i]
        /\ Append(old, m)[m + 1] = m
        /\ DOMAIN old = 1 .. m /\ DOMAIN Append(old, m) = 1 .. m + 1
    BY <2>1, AppendProperties, LenProperties
  <2>5. \A i \in 1 .. m : old[i] = i - 1
    BY <2>2, <2>4 DEF Replay!InOrder
  <2>6. \A i \in 1 .. m + 1 : Append(old, m)[i] = i - 1
    BY <2>4, <2>5
  <2> QED
    BY <2>3, <2>4, <2>6 DEF Replay!InOrder, m
<1>13. NoShorter(done, new)
  <2>1. ASSUME NEW b \in Account, NEW k \in Channel
        PROVE  Len(done[b][k]) <= Len(new[b][k])
    <3>1. Len(done[b][k]) \in Nat
      BY LenProperties DEF SeqTypes
    <3>2. nonce.sequence \in Nat
      BY <1>8
    <3>3. CASE b = a /\ k = c
      <4>1. Len(done[b][k]) = nonce.sequence /\ Len(new[b][k]) = nonce.sequence + 1
        BY ONLY <1>10, <1>12, <3>3, Zenon
      <4> QED
        BY ONLY <3>2, <4>1
    <3>4. CASE ~(b = a /\ k = c)
      <4>1. b \in Account /\ k \in Channel
        OBVIOUS
      <4>2. new[b][k] = done[b][k]
        BY ONLY <1>11, <3>4, <4>1, Zenon
      <4> QED
        BY ONLY <3>1, <4>2
    <3> QED
      BY <3>3, <3>4
  <2> QED
    BY <2>1 DEF NoShorter
<1>14. \A i \in 1 .. n : i < n => ~Waiting(stk[i], a, c)
  <2>1. \A i \in 1 .. n : Waiting(stk[i], a, c) => i = n
    <3>1. stk[n].account = a
      BY DEF n
    <3>2. \A j \in 1 .. n : /\ IsUserOp(stk[j]) /\ stk[j].todo # <<>>
                            /\ stk[j].account = stk[n].account
                            => j = n
      BY <1>1, <1>2, <1>5, OneOperation
    <3> QED
      BY <3>1, <3>2, WaitingRuns
  <2>2. \A i \in 1 .. n : i < n => i # n
    BY <1>1
  <2> QED
    BY <2>1, <2>2
<1>15. \A b, k : \A i \in 1 .. n :
         Waiting(s[i], b, k) <=> Waiting(stk[i], b, k) /\ ~(b = a /\ k = c)
  <2>1. \A i \in 1 .. n : i < n \/ i = n
    BY <1>1
  <2>2. \A b, k : ~Waiting(s[n], b, k)
    BY <1>7 DEF Waiting
  <2>3. \A b, k : Waiting(stk[n], b, k) => b = a /\ k = c
    BY DEF Waiting, n, c
  <2> QED
    BY <1>1, <1>14, <2>1, <2>2, <2>3
<1>16. Consumed(cur, new, s)
  <2>1. ASSUME NEW b \in Account, NEW k \in Channel
        PROVE  ConsumedAt(cur[b][k], new[b][k], s, b, k)
    <3>1. CASE b = a /\ k = c
      <4>1. \A i \in 1 .. n : ~Waiting(s[i], b, k)
        BY <1>15, <3>1
      <4>2. Len(new[b][k]) = cur[b][k] /\ Replay!InOrder(new[b][k])
        BY <1>10, <1>12, <3>1
      <4> QED
        BY <1>1, <4>1, <4>2, Zenon DEF ConsumedAt
    <3>2. CASE ~(b = a /\ k = c)
      <4>1. /\ new[b][k] = done[b][k]
            /\ \A i \in 1 .. n : Waiting(s[i], b, k) <=> Waiting(stk[i], b, k)
        BY <1>11, <1>15, <3>2
      <4>2. ConsumedAt(cur[b][k], done[b][k], stk, b, k)
        BY DEF Consumed
      <4>3. /\ \A i \in DOMAIN s : Waiting(s[i], b, k) =>
                 \E j \in DOMAIN stk : Waiting(stk[j], b, k) /\ stk[j].nonce = s[i].nonce
            /\ \A j \in DOMAIN stk : Waiting(stk[j], b, k) =>
                 \E i \in DOMAIN s : Waiting(s[i], b, k)
        BY <1>1, <4>1
      <4>4. ConsumedAt(cur[b][k], done[b][k], s, b, k)
        BY <4>2, <4>3, SameWaiting, Zenon
      <4> QED
        BY <4>1, <4>4, SMTT(30)
    <3> QED
      BY <3>1, <3>2
  <2> QED
    BY <2>1 DEF Consumed
<1>17. SeqTypes(cur, new)
  BY <1>11 DEF SeqTypes
<1> QED
  BY <1>13, <1>16, <1>17 DEF s

LEMMA PushConsumed ==
  ASSUME NEW stk \in Seq(Frames), NEW frame \in Frames, ~IsUserOp(frame),
         NEW cur, NEW done, Consumed(cur, done, stk)
  PROVE  Consumed(cur, done, Append(stk, frame))
<1> DEFINE n == Len(stk)
           s == Append(stk, frame)
<1>1. /\ n \in Nat /\ DOMAIN stk = 1 .. n /\ DOMAIN s = 1 .. n + 1
      /\ \A i \in 1 .. n : s[i] = stk[i]
      /\ s[n + 1] = frame
  BY PushFrames
<1> HIDE DEF n, s
<1>2. /\ \A i \in 1 .. n + 1 : i \in 1 .. n \/ i = n + 1
      /\ \A i \in 1 .. n : i \in 1 .. n + 1
  BY <1>1
<1>3. \A a, c : ~Waiting(frame, a, c)
  BY DEF Waiting
<1>4. \A a \in Account, c \in Channel : ConsumedAt(cur[a][c], done[a][c], s, a, c)
  BY <1>1, <1>2, <1>3, SameWaiting DEF Consumed
<1> QED
  BY <1>4 DEF Consumed, s

LEMMA OperationConsumed ==
  ASSUME NEW stk \in Seq(Frames), Stacked(stk), NEW con, NEW d, Balanced(con, d, stk),
         NEW frame \in Frames, IsUserOp(frame), con[frame.account]["lock"] = None,
         ToRun(frame.todo),
         NEW cur, NEW done, SeqTypes(cur, done), Consumed(cur, done, stk),
         NEW a \in Account, a = frame.account, NEW nonce, nonce = frame.nonce,
         nonce.sequence = cur[a][nonce.channel],
         NEW new \in [Account -> [Channel -> 0 .. SeqLimit]],
         Updates(new, cur, a, nonce.channel, nonce.sequence + 1)
  PROVE  /\ Consumed(new, done, Append(stk, frame))
         /\ SeqTypes(new, done)
<1> DEFINE n == Len(stk)
           s == Append(stk, frame)
           c == nonce.channel
<1>1. /\ n \in Nat /\ DOMAIN stk = 1 .. n /\ DOMAIN s = 1 .. n + 1
      /\ \A i \in 1 .. n : s[i] = stk[i]
      /\ s[n + 1] = frame
      /\ nonce \in Nonce
  BY PushFrames, FrameFields
<1> HIDE DEF n, s, c
<1>2. c \in Channel /\ nonce.sequence \in 0 .. SeqLimit - 1
  BY <1>1 DEF Nonce, c
<1>3. /\ \A i \in 1 .. n + 1 : i \in 1 .. n \/ i = n + 1
      /\ \A i \in 1 .. n : i \in 1 .. n + 1
      /\ n + 1 \in 1 .. n + 1
  BY <1>1
<1>4. \A k : \A i \in 1 .. n : ~Waiting(stk[i], a, k)
  BY <1>1, OneOperation, WaitingRuns
<1>5. \A k : Waiting(frame, a, k) <=> k = c
  BY DEF Waiting, c
<1>6. \A b, k : Waiting(frame, b, k) => b = a
  BY DEF Waiting
<1>7. /\ \A b \in Account, k \in Channel : ~(b = a /\ k = c) => new[b][k] = cur[b][k]
      /\ new[a][c] = nonce.sequence + 1
      /\ new \in [Account -> [Channel -> 0 .. SeqLimit]]
  BY <1>2 DEF c, Updates
<1>8. Len(done[a][c]) = nonce.sequence
  BY <1>1, <1>2, <1>4 DEF Consumed, ConsumedAt, c
<1>9. ASSUME NEW b \in Account, NEW k \in Channel
      PROVE  ConsumedAt(new[b][k], done[b][k], s, b, k)
  <2>0. ConsumedAt(cur[b][k], done[b][k], stk, b, k)
    BY DEF Consumed
  <2>1. CASE b = a /\ k = c
    <3>1. \A i \in 1 .. n + 1 : Waiting(s[i], b, k) => s[i] = frame
      BY <1>1, <1>3, <1>4, <2>1
    <3>2. Waiting(s[n + 1], b, k) /\ s[n + 1].nonce = nonce
      BY <1>1, <1>5, <2>1
    <3>3. Replay!InOrder(done[b][k]) /\ Len(done[b][k]) = nonce.sequence
          /\ new[b][k] = nonce.sequence + 1
      BY <1>7, <1>8, <2>0, <2>1 DEF ConsumedAt
    <3>4. \A i \in 1 .. n + 1 : Waiting(s[i], b, k) =>
            /\ Len(done[b][k]) = s[i].nonce.sequence
            /\ new[b][k] = s[i].nonce.sequence + 1
      BY <3>1, <3>3
    <3>5. ~\A i \in 1 .. n + 1 : ~Waiting(s[i], b, k)
      BY <1>3, <3>2
    <3> QED
      BY <1>1, <3>3, <3>4, <3>5, Zenon DEF ConsumedAt
  <2>2. CASE ~(b = a /\ k = c)
    <3>1. ~Waiting(frame, b, k) /\ new[b][k] = cur[b][k]
      BY <1>5, <1>6, <1>7, <2>2
    <3>2. /\ \A i \in DOMAIN s : Waiting(s[i], b, k) =>
               \E j \in DOMAIN stk : Waiting(stk[j], b, k) /\ stk[j].nonce = s[i].nonce
          /\ \A j \in DOMAIN stk : Waiting(stk[j], b, k) =>
               \E i \in DOMAIN s : Waiting(s[i], b, k)
      BY <1>1, <1>3, <3>1
    <3>3. ConsumedAt(cur[b][k], done[b][k], s, b, k)
      BY <2>0, <3>2, SameWaiting, Zenon
    <3> QED
      BY <3>1, <3>3
  <2> QED
    BY <2>1, <2>2
<1>10. Consumed(new, done, s)
  BY <1>9 DEF Consumed
<1> QED
  BY <1>7, <1>10 DEF SeqTypes, s

LEMMA PopConsumed ==
  ASSUME NEW stk \in Seq(Frames), stk # <<>>, stk[Len(stk)].todo = <<>>,
         NEW cur, NEW done, Consumed(cur, done, stk)
  PROVE  Consumed(cur, done, SubSeq(stk, 1, Len(stk) - 1))
<1> DEFINE n == Len(stk)
           s == SubSeq(stk, 1, n - 1)
<1>1. n \in Nat \ {0} /\ n - 1 \in 0 .. n
  BY EmptySeq
<1>2. /\ DOMAIN stk = 1 .. n /\ DOMAIN s = 1 .. n - 1
      /\ \A i \in 1 .. n - 1 : s[i] = stk[i]
  BY <1>1, PrefixFrames
<1>3. \A a, c : ~Waiting(stk[n], a, c)
  BY DEF Waiting, ToRun
<1> HIDE DEF n, s
<1>4. /\ \A i \in 1 .. n : i \in 1 .. n - 1 \/ i = n
      /\ \A i \in 1 .. n - 1 : i \in 1 .. n
  BY <1>1
<1>5. ASSUME NEW a \in Account, NEW c \in Channel
      PROVE  ConsumedAt(cur[a][c], done[a][c], s, a, c)
  <2>1. ConsumedAt(cur[a][c], done[a][c], stk, a, c)
    BY DEF Consumed
  <2>2. \A i \in DOMAIN s : Waiting(s[i], a, c) =>
          \E j \in DOMAIN stk : Waiting(stk[j], a, c) /\ stk[j].nonce = s[i].nonce
    BY <1>2, <1>4
  <2>3. \A j \in DOMAIN stk : Waiting(stk[j], a, c) =>
          \E i \in DOMAIN s : Waiting(s[i], a, c)
    BY <1>2, <1>3, <1>4
  <2> QED
    BY <2>1, <2>2, <2>3, SameWaiting, Zenon
<1>6. Consumed(cur, done, s)
  BY <1>5 DEF Consumed
<1> QED
  BY <1>6 DEF s, n
-----------------------------------------------------------------------------
Now ==
  /\ account \in [Account -> AccountState \cup {None}]
  /\ pending \in [Account -> [verifier: Verifier \cup {Zero, None},
                              hook: Hook \cup {Zero, None}]]
  /\ escrow \in SUBSET Account
  /\ SeqTypes(cursor, ran)
  /\ ContextType(context)
  /\ depth \in Nat
  /\ Typed(account, stack)
  /\ Stacked(stack)
  /\ Balanced(context, depth, stack)
  /\ NotHeld(escrow, stack)
  /\ Consumed(cursor, ran, stack)

LEMMA ExecutionNow == Execution(Snapshot, stack) <=> Now
  BY DEF Execution, Now, Snapshot, Snapshots, SeqTypes, ContextType

LEMMA ExecutionNext == Execution(Snapshot', stack') <=> Now'
  BY DEF Execution, Now, Snapshot, Snapshots, SeqTypes, ContextType

LEMMA EmptyTyped ==
  /\ <<>> \in Seq(Frames) /\ Len(<<>>) = 0 /\ DOMAIN <<>> = {}
  BY EmptySeq

LEMMA SameReflexive == ASSUME NEW s PROVE SameAuthority(s, s)
  BY DEF SameAuthority

LEMMA SameTransitive ==
  ASSUME NEW s, NEW t, NEW u, SameAuthority(s, t), SameAuthority(t, u)
  PROVE  SameAuthority(s, u)
  BY DEF SameAuthority

LEMMA SameSymmetric ==
  ASSUME NEW s, NEW t, SameAuthority(s, t)
  PROVE  SameAuthority(t, s)
  BY DEF SameAuthority

LEMMA SavedForward ==
  ASSUME NEW stk \in Seq(Frames), Moving(stk), NEW base, NEW sn, NEW next,
         SavedBelow(base, sn, stk),
         Len(stk) > 1 => SameAuthority(sn, next)
  PROVE  SavedBelow(base, next, Forward(stk))
<1> DEFINE n == Len(stk)
           s == Forward(stk)
<1>1. /\ n \in Nat /\ n \in 1 .. n /\ DOMAIN stk = 1 .. n /\ DOMAIN s = 1 .. n
      /\ \A i \in 1 .. n : s[i].saved = stk[i].saved
      /\ \A i \in 1 .. n : i < n => s[i] = stk[i]
      /\ s \in Seq(Frames) /\ Len(s) = n
  BY ForwardFrames
<1>2. SUFFICES ASSUME NEW i \in 1 .. n, s[i].saved # None
               PROVE  /\ Execution(s[i].saved, SubSeq(s, 1, i - 1))
                      /\ NoShorter(base, s[i].saved.ran)
                      /\ i > 1 => Calling(s[i - 1]) /\ SameAuthority(s[i].saved, next)
  BY <1>1 DEF SavedBelow
<1>3. /\ Execution(stk[i].saved, SubSeq(stk, 1, i - 1))
      /\ NoShorter(base, stk[i].saved.ran)
      /\ i > 1 => Calling(stk[i - 1]) /\ SameAuthority(stk[i].saved, sn)
      /\ s[i].saved = stk[i].saved
  BY <1>1, <1>2 DEF SavedBelow
<1>4. i - 1 \in 0 .. n /\ \A j \in 1 .. i - 1 : j \in 1 .. n /\ j < n
  <2> HIDE DEF n
  <2> QED
    BY <1>1
<1>5. SubSeq(s, 1, i - 1) = SubSeq(stk, 1, i - 1)
  <2>1. /\ SubSeq(s, 1, i - 1) \in Seq(Frames) /\ Len(SubSeq(s, 1, i - 1)) = i - 1
        /\ \A j \in 1 .. i - 1 : SubSeq(s, 1, i - 1)[j] = s[j]
    <3> HIDE DEF s, n
    <3> QED
      BY <1>1, <1>4, PrefixFrames
  <2>2. /\ SubSeq(stk, 1, i - 1) \in Seq(Frames) /\ Len(SubSeq(stk, 1, i - 1)) = i - 1
        /\ \A j \in 1 .. i - 1 : SubSeq(stk, 1, i - 1)[j] = stk[j]
    BY <1>4, PrefixFrames
  <2>3. \A j \in 1 .. i - 1 : SubSeq(s, 1, i - 1)[j] = SubSeq(stk, 1, i - 1)[j]
    BY <1>1, <1>4, <2>1, <2>2
  <2> HIDE DEF s
  <2> QED
    BY <2>1, <2>2, <2>3, SeqEqual
<1>6. i > 1 => n > 1 /\ i - 1 \in 1 .. i - 1
  <2> HIDE DEF n
  <2> QED
    BY <1>1
<1>7. i > 1 => s[i - 1] = stk[i - 1]
  BY <1>1, <1>4, <1>6
<1> HIDE DEF n, s
<1>8. i > 1 => SameAuthority(s[i].saved, next)
  <2>1. i > 1 => SameAuthority(sn, next)
    BY <1>6 DEF n
  <2> QED
    BY <1>3, <2>1, SameTransitive
<1> QED
  BY <1>3, <1>5, <1>7, <1>8

LEMMA SavedPush ==
  ASSUME NEW stk \in Seq(Frames), NEW frame \in Frames, NEW base, NEW sn, NEW next,
         SavedBelow(base, sn, stk),
         stk # <<>> => SameAuthority(sn, next),
         frame.saved # None => /\ frame.saved = sn /\ Execution(sn, stk)
                               /\ NoShorter(base, sn.ran)
                               /\ stk # <<>> => Calling(stk[Len(stk)])
  PROVE  SavedBelow(base, next, Append(stk, frame))
<1> DEFINE n == Len(stk)
           s == Append(stk, frame)
<1>1. /\ n \in Nat /\ DOMAIN stk = 1 .. n /\ DOMAIN s = 1 .. n + 1
      /\ \A i \in 1 .. n : s[i] = stk[i]
      /\ s[n + 1] = frame /\ s \in Seq(Frames) /\ Len(s) = n + 1
  BY PushFrames
<1>2. SUFFICES ASSUME NEW i \in 1 .. n + 1, s[i].saved # None
               PROVE  /\ Execution(s[i].saved, SubSeq(s, 1, i - 1))
                      /\ NoShorter(base, s[i].saved.ran)
                      /\ i > 1 => Calling(s[i - 1]) /\ SameAuthority(s[i].saved, next)
  BY <1>1 DEF SavedBelow
<1>3. /\ i - 1 \in 0 .. n /\ i - 1 \in 0 .. n + 1
      /\ \A j \in 1 .. i - 1 : j \in 1 .. n
      /\ i > 1 => i - 1 \in 1 .. n /\ n # 0
      /\ i \in 1 .. n \/ i = n + 1
  <2> HIDE DEF n
  <2> QED
    BY <1>1
<1>4. SubSeq(s, 1, i - 1) = SubSeq(stk, 1, i - 1)
  <2>1. /\ SubSeq(s, 1, i - 1) \in Seq(Frames) /\ Len(SubSeq(s, 1, i - 1)) = i - 1
        /\ \A j \in 1 .. i - 1 : SubSeq(s, 1, i - 1)[j] = s[j]
    <3> HIDE DEF s, n
    <3> QED
      BY <1>1, <1>3, PrefixFrames
  <2>2. /\ SubSeq(stk, 1, i - 1) \in Seq(Frames) /\ Len(SubSeq(stk, 1, i - 1)) = i - 1
        /\ \A j \in 1 .. i - 1 : SubSeq(stk, 1, i - 1)[j] = stk[j]
    BY <1>3, PrefixFrames
  <2>3. \A j \in 1 .. i - 1 : SubSeq(s, 1, i - 1)[j] = SubSeq(stk, 1, i - 1)[j]
    BY <1>1, <1>3, <2>1, <2>2
  <2> HIDE DEF s
  <2> QED
    BY <2>1, <2>2, <2>3, SeqEqual
<1>5. i > 1 => s[i - 1] = stk[i - 1] /\ stk # <<>>
  BY <1>1, <1>3
<1>6. n # 0 => stk[n] = s[n]
  <2>1. n # 0 => n \in 1 .. n
    <3> HIDE DEF n
    <3> QED
      BY <1>1
  <2> QED
    BY <1>1, <2>1
<1> HIDE DEF s
<1>7. CASE i \in 1 .. n
  <2>1. /\ Execution(stk[i].saved, SubSeq(stk, 1, i - 1))
        /\ NoShorter(base, stk[i].saved.ran)
        /\ i > 1 => Calling(stk[i - 1]) /\ SameAuthority(stk[i].saved, sn)
        /\ s[i] = stk[i]
    BY <1>1, <1>2, <1>7 DEF SavedBelow
  <2>2. i > 1 => SameAuthority(s[i].saved, next)
    BY <1>5, <2>1, SameTransitive
  <2> QED
    BY <1>4, <1>5, <2>1, <2>2
<1>8. CASE i = n + 1
  <2>1. s[i] = frame /\ frame.saved # None
    BY <1>1, <1>2, <1>8
  <2>2. i - 1 = n
    <3> HIDE DEF n
    <3> QED
      BY <1>1, <1>8
  <2>3. SubSeq(stk, 1, i - 1) = stk
    BY <2>2, SubSeqFull
  <2>4. i > 1 => Calling(s[i - 1])
    BY <1>5, <2>1, <2>2
  <2> QED
    BY <1>4, <1>5, <2>1, <2>3, <2>4
<1> QED
  BY <1>3, <1>7, <1>8

LEMMA SavedPrefix ==
  ASSUME NEW stk \in Seq(Frames), NEW m \in 0 .. Len(stk), NEW base, NEW sn, NEW next,
         SavedBelow(base, sn, stk),
         m > 1 => SameAuthority(sn, next)
  PROVE  SavedBelow(base, next, SubSeq(stk, 1, m))
<1> DEFINE n == Len(stk)
           s == SubSeq(stk, 1, m)
<1>1. /\ n \in Nat /\ DOMAIN stk = 1 .. n /\ DOMAIN s = 1 .. m
      /\ \A i \in 1 .. m : s[i] = stk[i]
      /\ s \in Seq(Frames) /\ Len(s) = m
      /\ m \in Nat /\ m <= n
  BY PrefixFrames
<1>2. SUFFICES ASSUME NEW i \in 1 .. m, s[i].saved # None
               PROVE  /\ Execution(s[i].saved, SubSeq(s, 1, i - 1))
                      /\ NoShorter(base, s[i].saved.ran)
                      /\ i > 1 => Calling(s[i - 1]) /\ SameAuthority(s[i].saved, next)
  BY <1>1 DEF SavedBelow
<1>3. /\ i \in 1 .. n /\ i - 1 \in 0 .. m
      /\ i > 1 => i - 1 \in 1 .. m /\ m > 1
  <2> HIDE DEF n
  <2> QED
    BY <1>1
<1>4. /\ Execution(stk[i].saved, SubSeq(stk, 1, i - 1))
      /\ NoShorter(base, stk[i].saved.ran)
      /\ i > 1 => Calling(stk[i - 1]) /\ SameAuthority(stk[i].saved, sn)
      /\ s[i] = stk[i]
  BY <1>1, <1>2, <1>3 DEF SavedBelow
<1>5. SubSeq(s, 1, i - 1) = SubSeq(stk, 1, i - 1)
  BY <1>3, PrefixOfPrefix
<1>6. i > 1 => s[i - 1] = stk[i - 1] /\ SameAuthority(s[i].saved, next)
  <2>1. i > 1 => SameAuthority(sn, next) /\ SameAuthority(stk[i].saved, sn)
    BY <1>3, <1>4
  <2>2. i > 1 => SameAuthority(stk[i].saved, next)
    BY <2>1, SameTransitive
  <2> QED
    BY <1>1, <1>3, <1>4, <2>2
<1> HIDE DEF s
<1> QED
  BY <1>4, <1>5, <1>6
-----------------------------------------------------------------------------
LEMMA RunningNow ==
  ASSUME Running, ~Idle
  PROVE  /\ Now /\ Snapshot \in Snapshots /\ stack \in Seq(Frames)
         /\ tx \in Transactions
         /\ Execution(Snapshot, stack)
         /\ NoShorter(tx.saved.ran, ran)
         /\ SavedBelow(tx.saved.ran, Snapshot, stack)
  BY ExecutionNow DEF Running, Execution, Typed

LEMMA Goes ==
  ASSUME Running, ~Idle, Now', tx' \in Transactions, tx'.saved = tx.saved,
         NoShorter(ran, ran'), SavedBelow(tx.saved.ran, Snapshot', stack')
  PROVE  Running'
<1>1. ~Idle'
  BY NoneAssumption DEF Idle
<1>2. NoShorter(tx.saved.ran, ran')
  <2>1. /\ tx.saved.ran \in [Account -> [Channel -> Seq(0 .. SeqLimit - 1)]]
        /\ ran \in [Account -> [Channel -> Seq(0 .. SeqLimit - 1)]]
        /\ ran' \in [Account -> [Channel -> Seq(0 .. SeqLimit - 1)]]
    BY RunningNow DEF Transactions, Snapshots, Now, SeqTypes
  <2>2. \A a \in Account, c \in Channel :
          /\ Len(tx.saved.ran[a][c]) \in Nat /\ Len(ran[a][c]) \in Nat
          /\ Len(ran'[a][c]) \in Nat
    BY <2>1, LenProperties
  <2>3. \A a \in Account, c \in Channel :
          /\ Len(tx.saved.ran[a][c]) <= Len(ran[a][c])
          /\ Len(ran[a][c]) <= Len(ran'[a][c])
    BY RunningNow DEF NoShorter
  <2>4. ASSUME NEW a \in Account, NEW c \in Channel
        PROVE  Len(tx.saved.ran[a][c]) <= Len(ran'[a][c])
    <3>1. \A x, y, z \in Nat : x <= y /\ y <= z => x <= z
      OBVIOUS
    <3> QED
      BY <2>2, <2>3, <3>1, Zenon
  <2> QED
    BY <2>4 DEF NoShorter
<1> QED
  BY <1>1, <1>2, ExecutionNext DEF Running

LEMMA CountedOn ==
  ASSUME tx \in Transactions, Count
  PROVE  tx' \in Transactions /\ tx'.saved = tx.saved
  BY DEF Transactions, Count

LEMMA StillNoShorter ==
  ASSUME Now
  PROVE  NoShorter(ran, ran)
<1>1. \A a \in Account, c \in Channel : Len(ran[a][c]) \in Nat
  BY LenProperties DEF Now, SeqTypes
<1> QED
  BY <1>1 DEF NoShorter

(* A contract called by the wallet runs inside a context.                   *)
LEMMA CallingOpens ==
  ASSUME NEW stk \in Seq(Frames), Stacked(stk), NEW i \in DOMAIN stk, Calling(stk[i])
  PROVE  \E f \in ContextField : HasOpen(stk[i], f)
<1> DEFINE todo == stk[i].todo
<1>1. todo \in Seq(Step) /\ Paired(todo) /\ todo # <<>>
  BY FrameShape DEF Calling
<1>2. 1 \in DOMAIN todo /\ Head(todo) = todo[1]
  <2>1. "lock" \in ContextField
    BY DEF ContextField
  <2> QED
    BY <1>1, <2>1, Opening
<1>3. PICK f \in ContextField : OpenAt(todo, 1, f)
  BY <1>1, <1>2 DEF Paired, Calling
<1> QED
  BY <1>1, <1>3, FirstOpen

LEMMA TopFrame ==
  ASSUME stack \in Seq(Frames), stack # <<>>
  PROVE  Len(stack) \in DOMAIN stack /\ Top = stack[Len(stack)] /\ Top \in Frames
  BY EmptySeq, LenProperties, ElementOfSeq DEF Top

LEMMA NothingOpen ==
  ASSUME Now, depth = 0
  PROVE  /\ \A a \in Account, f \in ContextField : context[a][f] = None
         /\ \A i \in DOMAIN stack, f \in ContextField : ~HasOpen(stack[i], f)
<1>1. Opened(context) = {}
  BY FS_EmptySet DEF Now, Balanced
<1>2. \A a \in Account, f \in ContextField : context[a][f] = None
  BY <1>1, InOpened
<1>3. \A i \in DOMAIN stack : stack[i].account \in Account
  BY FrameShape DEF Now, Typed
<1> QED
  BY <1>2, <1>3 DEF Now, Balanced

(* Configuration and settlement start outside every call.                   *)
LEMMA QuietMoment ==
  ASSUME Now, Outside, depth = 0
  PROVE  stack = <<>>
<1> SUFFICES ASSUME stack # <<>> PROVE FALSE
  OBVIOUS
<1>1. stack \in Seq(Frames) /\ Stacked(stack)
  BY DEF Now, Typed
<1>2. Len(stack) \in DOMAIN stack /\ Calling(stack[Len(stack)])
  BY <1>1, TopFrame DEF Outside, Top
<1> QED
  BY <1>1, <1>2, CallingOpens, NothingOpen

LEMMA EmptyParts ==
  ASSUME NEW accounts, NEW held
  PROVE  Typed(accounts, <<>>) /\ Stacked(<<>>) /\ NotHeld(held, <<>>)
  BY EmptyTyped, LimitsAssumption DEF Typed, Stacked, NotHeld

LEMMA EmptySaved ==
  ASSUME NEW base, NEW sn
  PROVE  SavedBelow(base, sn, <<>>)
  BY EmptyTyped DEF SavedBelow

(* A call that changes storage and leaves no frame.                         *)
LEMMA Direct ==
  ASSUME Running, Room, depth = 0, Count,
         UNCHANGED <<cursor, context, depth, ran, stack>>,
         account' \in [Account -> AccountState \cup {None}],
         pending' \in [Account -> [verifier: Verifier \cup {Zero, None},
                                   hook: Hook \cup {Zero, None}]],
         escrow' \in SUBSET Account
  PROVE  Running' /\ stack = <<>>
<1>1. ~Idle /\ Outside
  BY DEF Room, Outside
<1>2. stack = <<>> /\ stack' = <<>>
  BY <1>1, RunningNow, QuietMoment
<1>3. Now /\ tx \in Transactions
  BY <1>1, RunningNow
<1>4. /\ Typed(account', <<>>) /\ Stacked(<<>>) /\ NotHeld(escrow', <<>>)
  BY EmptyParts
<1>5. /\ SeqTypes(cursor, ran) /\ ContextType(context) /\ depth \in Nat
      /\ Balanced(context, depth, stack) /\ Consumed(cursor, ran, stack)
  BY <1>3 DEF Now
<1>6. Now'
  BY <1>2, <1>4, <1>5 DEF Now
<1>7. /\ NoShorter(ran, ran') /\ SavedBelow(tx.saved.ran, Snapshot', stack')
      /\ tx' \in Transactions /\ tx'.saved = tx.saved
  BY <1>2, <1>3, StillNoShorter, EmptySaved, CountedOn
<1> QED
  BY <1>1, <1>2, <1>6, <1>7, Goes

LEMMA NewFrame ==
  ASSUME Running, ~Idle, NEW a \in Account, NEW nonce \in Nonce \cup {None},
         NEW todo \in Seq(Step), NEW caught \in BOOLEAN
  PROVE  /\ Frame(a, nonce, todo, caught) \in Frames
         /\ Frame(a, nonce, todo, caught).account = a
         /\ Frame(a, nonce, todo, caught).nonce = nonce
         /\ Frame(a, nonce, todo, caught).todo = todo
         /\ Frame(a, nonce, todo, caught).saved # None
              => caught /\ Frame(a, nonce, todo, caught).saved = Snapshot
  BY RunningNow DEF Frame, Frames

(* A call that starts with a frame and touches nothing yet.                 *)
LEMMA Called ==
  ASSUME Running, Room, Count, UNCHANGED storage,
         NEW a \in Account, account[a] \in AccountState,
         NEW todo, NEW caught \in BOOLEAN, Push(a, None, todo, caught),
         todo \in Seq(BatchStep) \/ (stack = <<>> /\ Closed(todo))
  PROVE  Running'
<1>1. ~Idle /\ Outside
  BY DEF Room, Outside
<1>2. /\ Now /\ Snapshot \in Snapshots /\ stack \in Seq(Frames) /\ tx \in Transactions
      /\ Execution(Snapshot, stack)
      /\ NoShorter(tx.saved.ran, ran) /\ SavedBelow(tx.saved.ran, Snapshot, stack)
  BY <1>1, RunningNow
<1> DEFINE frame == Frame(a, None, todo, caught)
<1>3. todo \in Seq(Step)
  BY StepKinds, SeqMonotonic DEF Closed
<1>4. /\ frame \in Frames /\ frame.account = a /\ frame.nonce = None /\ frame.todo = todo
      /\ frame.saved # None => frame.saved = Snapshot
      /\ stack' = Append(stack, frame)
  <2>1. stack' = Append(stack, frame)
    BY Zenon DEF Push
  <2>2. None \in Nonce \cup {None}
    OBVIOUS
  <2>3. /\ frame \in Frames /\ frame.account = a /\ frame.nonce = None /\ frame.todo = todo
        /\ frame.saved # None => caught /\ frame.saved = Snapshot
    BY <1>1, <1>3, <2>2, NewFrame, SMTT(60)
  <2> QED BY ONLY <2>1, <2>3, Zenon
<1> HIDE DEF frame
<1>5. ~IsUserOp(frame) /\ (Batch(frame) \/ (stack = <<>> /\ Maintaining(frame)))
  BY <1>4 DEF IsUserOp, Batch, Maintaining, Closed
<1>6. \A f \in ContextField : ~HasOpen(frame, f)
  <2>1. ASSUME todo \in Seq(BatchStep), NEW k \in DOMAIN todo, NEW f
        PROVE  todo[k] # Exit(f)
    <3>1. todo[k] \in BatchStep
      BY <2>1, LenProperties, ElementOfSeq
    <3> QED
      BY <3>1 DEF BatchStep, Exit
  <2>2. CASE todo \in Seq(BatchStep)
    BY <1>4, <2>1, <2>2 DEF HasOpen
  <2>3. CASE Closed(todo)
    BY <1>3, <1>4, <2>3, FirstOpen DEF Closed
  <2> QED
    BY <2>2, <2>3
<1>7. stack # <<>> => Calling(stack[Len(stack)])
  BY <1>1 DEF Outside, Top
<1>8. Typed(account, Append(stack, frame))
  <2> DEFINE n == Len(stack)
  <2>1. /\ n \in Nat /\ DOMAIN stack = 1 .. n
        /\ DOMAIN Append(stack, frame) = 1 .. n + 1
        /\ Len(Append(stack, frame)) = n + 1 /\ Append(stack, frame) \in Seq(Frames)
        /\ \A i \in 1 .. n : Append(stack, frame)[i] = stack[i]
        /\ Append(stack, frame)[n + 1] = frame
    BY <1>2, <1>4, PushFrames
  <2>2. n < MaxDepth /\ MaxDepth \in Nat
    BY LimitsAssumption DEF Room
  <2>3. \A i \in 1 .. n : account[stack[i].account] \in AccountState
    BY <1>2, <2>1 DEF Now, Typed
  <2> HIDE DEF n
  <2>4. n + 1 <= MaxDepth /\ \A i \in 1 .. n + 1 : i \in 1 .. n \/ i = n + 1
    BY <2>1, <2>2
  <2>5. \A i \in 1 .. n + 1 : account[Append(stack, frame)[i].account] \in AccountState
    BY <1>4, <2>1, <2>3, <2>4
  <2> QED
    BY <2>1, <2>4, <2>5 DEF Typed
<1>9. Stacked(Append(stack, frame))
  BY <1>2, <1>4, <1>5, <1>7, PushStacked DEF Now
<1>10. Balanced(context, depth, Append(stack, frame))
  <2>1. Balanced(context, depth, stack)
    BY <1>2 DEF Now
  <2>2. IsFiniteSet(Opened(context)) /\ depth = Cardinality(Opened(context))
    BY <2>1 DEF Balanced
  <2> QED
    BY <1>2, <1>4, <1>6, <2>1, <2>2, PushBalanced
<1>11. NotHeld(escrow, Append(stack, frame))
  <2>1. NotHeld(escrow, stack)
    BY <1>2 DEF Now
  <2> DEFINE n == Len(stack)
  <2>2. /\ n \in Nat /\ DOMAIN stack = 1 .. n
        /\ DOMAIN Append(stack, frame) = 1 .. n + 1
        /\ \A i \in 1 .. n : Append(stack, frame)[i] = stack[i]
        /\ Append(stack, frame)[n + 1] = frame
    BY <1>2, <1>4, PushFrames
  <2> HIDE DEF n
  <2>3. \A i \in 1 .. n + 1 : i \in 1 .. n \/ i = n + 1
    BY <2>2
  <2> QED
    BY <1>5, <2>1, <2>2, <2>3 DEF NotHeld
<1>12. Consumed(cursor, ran, Append(stack, frame))
  BY <1>2, <1>4, <1>5, PushConsumed DEF Now
<1>13. Now'
  <2>1. /\ account' = account /\ pending' = pending /\ escrow' = escrow
        /\ cursor' = cursor /\ context' = context /\ depth' = depth /\ ran' = ran
    BY DEF storage
  <2> QED
    BY <1>2, <1>4, <1>8, <1>9, <1>10, <1>11, <1>12, <2>1 DEF Now
<1>14. Snapshot' = Snapshot /\ ran' = ran
  BY DEF storage, Snapshot
<1>15. SavedBelow(tx.saved.ran, Snapshot', stack')
  <2>1. frame.saved # None => /\ frame.saved = Snapshot /\ Execution(Snapshot, stack)
                              /\ NoShorter(tx.saved.ran, Snapshot.ran)
                              /\ stack # <<>> => Calling(stack[Len(stack)])
    BY <1>2, <1>4, <1>7 DEF Snapshot
  <2> QED
    BY <1>2, <1>4, <1>14, <2>1, SavedPush, SameReflexive
<1>16. NoShorter(ran, ran') /\ tx' \in Transactions /\ tx'.saved = tx.saved
  BY <1>2, <1>14, StillNoShorter, CountedOn
<1> QED
  BY <1>1, <1>13, <1>15, <1>16, Goes
-----------------------------------------------------------------------------
(* The newest call goes on to its next step.                                *)
LEMMA Forwarded ==
  ASSUME Running, ~Idle, Moving(stack), Proceed, tx' = tx,
         account' \in [Account -> AccountState \cup {None}],
         \A i \in DOMAIN stack : account'[stack[i].account] \in AccountState,
         pending' \in [Account -> [verifier: Verifier \cup {Zero, None},
                                   hook: Hook \cup {Zero, None}]],
         escrow' \in SUBSET escrow,
         SeqTypes(cursor', ran'), ContextType(context'), depth' \in Nat,
         Balanced(context', depth', Forward(stack)),
         Consumed(cursor', ran', Forward(stack)),
         NoShorter(ran, ran'),
         Len(stack) > 1 => SameAuthority(Snapshot, Snapshot')
  PROVE  Running'
<1>1. /\ Now /\ tx \in Transactions /\ stack \in Seq(Frames)
      /\ SavedBelow(tx.saved.ran, Snapshot, stack)
      /\ Typed(account, stack) /\ Stacked(stack) /\ NotHeld(escrow, stack)
      /\ escrow \in SUBSET Account
  BY RunningNow DEF Now
<1>2. stack' = Forward(stack)
  BY DEF Proceed, Forward
<1> DEFINE n == Len(stack)
           s == Forward(stack)
<1>3. /\ s \in Seq(Frames) /\ Len(s) = n
      /\ DOMAIN stack = 1 .. n /\ DOMAIN s = 1 .. n
      /\ \A i \in 1 .. n : s[i].account = stack[i].account /\ s[i].nonce = stack[i].nonce
  BY <1>1, ForwardFrames
<1>4. Stacked(s)
  BY <1>1, ForwardStacked
<1>5. SavedBelow(tx.saved.ran, Snapshot', s)
  BY <1>1, SavedForward
<1> HIDE DEF n, s
<1>6. Typed(account', s)
  <2>1. n <= MaxDepth
    BY <1>1 DEF Typed, n
  <2> QED
    BY <1>3, <2>1 DEF Typed
<1>7. NotHeld(escrow', s)
  BY <1>1, <1>3 DEF NotHeld, IsUserOp
<1>8. Now'
  <2>1. stack' = s
    BY <1>2 DEF s
  <2> QED
    BY <1>1, <1>4, <1>6, <1>7, <2>1 DEF Now, s
<1>9. SavedBelow(tx.saved.ran, Snapshot', stack')
  BY <1>2, <1>5 DEF s
<1> QED
  BY <1>1, <1>8, <1>9, Goes

LEMMA DoingMoves ==
  ASSUME Running, NEW kind, Doing(kind)
  PROVE  /\ ~Idle /\ Moving(stack) /\ Top = stack[Len(stack)]
         /\ Len(stack) \in DOMAIN stack
         /\ Top \in Frames /\ Top.account \in Account
         /\ account[Top.account] \in AccountState
         /\ Head(Top.todo) \in Step /\ Head(Top.todo).do = kind
         /\ Head(Top.todo) = Top.todo[1] /\ 1 \in DOMAIN Top.todo
<1>1. ~Idle /\ stack # <<>> /\ Top.todo # <<>> /\ Head(Top.todo).do = kind
  BY DEF Doing
<1>2. Now /\ stack \in Seq(Frames)
  BY <1>1, RunningNow
<1>3. Len(stack) \in DOMAIN stack /\ Top = stack[Len(stack)] /\ Top \in Frames
  BY <1>1, <1>2, TopFrame
<1>4. Top.account \in Account /\ Top.todo \in Seq(Step) /\ Paired(Top.todo)
  BY <1>2, <1>3, FrameShape DEF Now
<1>5. Head(Top.todo) = Top.todo[1] /\ 1 \in DOMAIN Top.todo
  <2>1. "lock" \in ContextField
    BY DEF ContextField
  <2> QED
    BY <1>1, <1>4, <2>1, Opening
<1>6. Head(Top.todo) \in Step
  BY <1>1, <1>4, HeadTailProperties
<1> QED
  BY <1>1, <1>2, <1>3, <1>4, <1>5, <1>6 DEF Moving, Now, Typed

LEMMA UnchangedAuthority ==
  ASSUME account' = account, pending' = pending, escrow' = escrow
  PROVE  SameAuthority(Snapshot, Snapshot')
  BY DEF SameAuthority, Snapshot

LEMMA NowFrames ==
  ASSUME Running, ~Idle
  PROVE  /\ stack \in Seq(Frames) /\ Stacked(stack)
         /\ Balanced(context, depth, stack) /\ ContextType(context) /\ depth \in Nat
         /\ Consumed(cursor, ran, stack) /\ SeqTypes(cursor, ran)
         /\ account \in [Account -> AccountState \cup {None}]
         /\ pending \in [Account -> [verifier: Verifier \cup {Zero, None},
                                     hook: Hook \cup {Zero, None}]]
         /\ escrow \in SUBSET Account
         /\ \A i \in DOMAIN stack : account[stack[i].account] \in AccountState
         /\ NoShorter(ran, ran)
  BY RunningNow, StillNoShorter, SMTT(30) DEF Now, Typed

LEMMA SetContextKeeps ==
  ASSUME Running, SetContext
  PROVE  Running'
<1> DEFINE step == Head(Top.todo)
           a == Top.account
<1>1. /\ Doing("enter")
      /\ context' = [context EXCEPT ![a][step.field] = step.value]
      /\ depth' = depth + 1
      /\ Proceed
      /\ ran' = IF step.field # "verify" THEN ran
                ELSE [ran EXCEPT ![a][Top.nonce.channel] = Append(@, Top.nonce.sequence)]
      /\ account' = account /\ pending' = pending /\ escrow' = escrow
      /\ cursor' = cursor /\ tx' = tx
  BY DEF SetContext
<1>2. /\ ~Idle /\ Moving(stack) /\ Top = stack[Len(stack)] /\ Len(stack) \in DOMAIN stack
      /\ a \in Account /\ step \in Step /\ step.do = "enter"
  BY <1>1, DoingMoves
<1>3. /\ stack \in Seq(Frames) /\ Stacked(stack)
      /\ Balanced(context, depth, stack) /\ ContextType(context) /\ depth \in Nat
      /\ Consumed(cursor, ran, stack) /\ SeqTypes(cursor, ran)
      /\ NoShorter(ran, ran)
  BY <1>2, NowFrames
<1>4. step.field \in ContextField /\ step.value \in Contract /\ step.value # None
  <2>1. None \notin Contract
    BY LimitsAssumption DEF Contract
  <2> QED
    BY <1>2, <2>1, Kinds
<1>5. Enters(step, step.field)
  BY <1>2 DEF Enters
<1>6. Balanced(context', depth', Forward(stack))
  BY <1>1, <1>2, <1>3, <1>4, <1>5, EnterBalanced
<1>7. ContextType(context') /\ depth' \in Nat
  BY <1>1, <1>2, <1>3, <1>4 DEF ContextType
<1>8. /\ Consumed(cursor', ran', Forward(stack)) /\ SeqTypes(cursor', ran')
      /\ NoShorter(ran, ran')
  <2>1. CASE step.field # "verify"
    <3>1. ran' = ran /\ cursor' = cursor
      BY <1>1, <2>1
    <3>2. ~Enters(Head(stack[Len(stack)].todo), "verify")
      BY <1>2, <2>1 DEF Enters
    <3> QED
      BY <1>2, <1>3, <3>1, <3>2, QuietConsumed
  <2>2. CASE step.field = "verify"
    <3> DEFINE nonce == Top.nonce
    <3>1. Enters(Head(stack[Len(stack)].todo), "verify")
      BY <1>2, <2>2 DEF Enters
    <3>2. nonce \in Nonce /\ nonce = stack[Len(stack)].nonce
      BY <1>2, <1>3, <3>1, RunningOperation
    <3>3. nonce.channel \in Channel /\ nonce.sequence \in 0 .. SeqLimit - 1
      BY <3>2 DEF Nonce
    <3> DEFINE runs == Append(ran[a][nonce.channel], nonce.sequence)
    <3>4. runs \in Seq(0 .. SeqLimit - 1)
      <4>1. ran[a][nonce.channel] \in Seq(0 .. SeqLimit - 1)
        BY <1>2, <1>3, <3>3 DEF SeqTypes
      <4> QED
        BY <3>3, <4>1, AppendProperties
    <3>5. ran' = [ran EXCEPT ![a][nonce.channel] = runs]
      BY <1>1, <1>2, <1>3, <2>2, <3>3 DEF SeqTypes
    <3>6. /\ ran' \in [Account -> [Channel -> Seq(0 .. SeqLimit - 1)]]
          /\ Updates(ran', ran, a, nonce.channel, runs)
      <4> HIDE DEF runs, nonce, a
      <4>1. ran \in [Account -> [Channel -> Seq(0 .. SeqLimit - 1)]]
        BY <1>3 DEF SeqTypes
      <4>2. nonce.channel \in Channel /\ a \in Account
        BY <1>2, <3>3 DEF a
      <4> QED
        BY <3>4, <3>5, <4>1, <4>2, Updated
    <3>7. cursor' = cursor /\ a = stack[Len(stack)].account
      BY <1>1, <1>2
    <3> QED
      BY <1>2, <1>3, <3>1, <3>2, <3>6, <3>7, RunConsumed
  <2> QED
    BY <2>1, <2>2
<1>9. SameAuthority(Snapshot, Snapshot')
  BY <1>1, UnchangedAuthority
<1>10. /\ account' \in [Account -> AccountState \cup {None}]
       /\ \A i \in DOMAIN stack : account'[stack[i].account] \in AccountState
       /\ pending' \in [Account -> [verifier: Verifier \cup {Zero, None},
                                    hook: Hook \cup {Zero, None}]]
       /\ escrow' \in SUBSET escrow
  BY <1>1, <1>2, NowFrames
<1> QED
  BY <1>1, <1>2, <1>6, <1>7, <1>8, <1>9, <1>10, Forwarded

LEMMA ClearContextKeeps ==
  ASSUME Running, ClearContext
  PROVE  Running'
<1> DEFINE step == Head(Top.todo)
           a == Top.account
<1>1. /\ Doing("exit") /\ depth > 0
      /\ context' = [context EXCEPT ![a][step.field] = None]
      /\ depth' = depth - 1
      /\ Proceed
      /\ account' = account /\ pending' = pending /\ escrow' = escrow
      /\ cursor' = cursor /\ ran' = ran /\ tx' = tx
  BY DEF ClearContext
<1>2. /\ ~Idle /\ Moving(stack) /\ Top = stack[Len(stack)] /\ Len(stack) \in DOMAIN stack
      /\ a \in Account /\ step \in Step /\ step.do = "exit"
  BY <1>1, DoingMoves
<1>3. /\ stack \in Seq(Frames) /\ Stacked(stack)
      /\ Balanced(context, depth, stack) /\ ContextType(context) /\ depth \in Nat
      /\ Consumed(cursor, ran, stack) /\ SeqTypes(cursor, ran)
      /\ NoShorter(ran, ran)
  BY <1>2, NowFrames
<1>4. step.field \in ContextField /\ step = Exit(step.field)
  BY <1>2, Kinds
<1>5. Balanced(context', depth', Forward(stack))
  BY <1>1, <1>2, <1>3, <1>4, ExitBalanced
<1>6. ContextType(context') /\ depth' \in Nat
  BY <1>1, <1>2, <1>3, <1>4 DEF ContextType
<1>7. ~Enters(Head(stack[Len(stack)].todo), "verify")
  BY <1>2 DEF Enters
<1>8. Consumed(cursor', ran', Forward(stack)) /\ SeqTypes(cursor', ran') /\ NoShorter(ran, ran')
  BY <1>1, <1>2, <1>3, <1>7, QuietConsumed
<1>9. SameAuthority(Snapshot, Snapshot')
  BY <1>1, UnchangedAuthority
<1>10. /\ account' \in [Account -> AccountState \cup {None}]
       /\ \A i \in DOMAIN stack : account'[stack[i].account] \in AccountState
       /\ pending' \in [Account -> [verifier: Verifier \cup {Zero, None},
                                    hook: Hook \cup {Zero, None}]]
       /\ escrow' \in SUBSET escrow
  BY <1>1, <1>2, NowFrames
<1> QED
  BY <1>1, <1>2, <1>5, <1>6, <1>8, <1>9, <1>10, Forwarded

LEMMA ContractReturnsKeeps ==
  ASSUME Running, ContractReturns
  PROVE  Running'
<1>1. /\ Doing("call") /\ Proceed
      /\ account' = account /\ pending' = pending /\ escrow' = escrow
      /\ context' = context /\ depth' = depth
      /\ cursor' = cursor /\ ran' = ran /\ tx' = tx
  BY DEF ContractReturns, storage
<1>2. /\ ~Idle /\ Moving(stack) /\ Top = stack[Len(stack)] /\ Head(Top.todo).do = "call"
  BY <1>1, DoingMoves
<1>3. /\ stack \in Seq(Frames) /\ Stacked(stack)
      /\ Balanced(context, depth, stack) /\ ContextType(context) /\ depth \in Nat
      /\ Consumed(cursor, ran, stack) /\ SeqTypes(cursor, ran)
      /\ NoShorter(ran, ran)
  BY <1>2, NowFrames
<1>4. ~Enters(Head(stack[Len(stack)].todo), "verify")
  BY <1>2 DEF Enters
<1>5. /\ Consumed(cursor', ran', Forward(stack)) /\ SeqTypes(cursor', ran')
      /\ NoShorter(ran, ran')
      /\ Balanced(context', depth', Forward(stack)) /\ ContextType(context') /\ depth' \in Nat
  BY <1>1, <1>2, <1>3, <1>4, QuietConsumed, QuietBalanced
<1>6. SameAuthority(Snapshot, Snapshot')
  BY <1>1, UnchangedAuthority
<1>7. /\ account' \in [Account -> AccountState \cup {None}]
      /\ \A i \in DOMAIN stack : account'[stack[i].account] \in AccountState
      /\ pending' \in [Account -> [verifier: Verifier \cup {Zero, None},
                                   hook: Hook \cup {Zero, None}]]
      /\ escrow' \in SUBSET escrow
  BY <1>1, <1>2, NowFrames
<1> QED
  BY <1>1, <1>2, <1>5, <1>6, <1>7, Forwarded

(* Only a maintenance call writes, and it is the first of the transaction.  *)
LEMMA WriterAlone ==
  ASSUME Running, NEW kind \in {"store", "forget", "release"}, Doing(kind)
  PROVE  Len(stack) = 1 /\ ~IsUserOp(Top) /\ ~Calling(Top)
<1>1. /\ ~Idle /\ Top = stack[Len(stack)] /\ Len(stack) \in DOMAIN stack
      /\ Head(Top.todo) = Top.todo[1] /\ 1 \in DOMAIN Top.todo /\ Top.todo[1].do = kind
      /\ Top \in Frames
  BY DoingMoves
<1>2. DOMAIN Top.todo = 1 .. Len(Top.todo)
  BY <1>1, FrameFields, LenProperties
<1>3. Stacked(stack)
  BY <1>1, NowFrames
<1>4. ASSUME IsUserOp(Top) PROVE FALSE
  <2>1. Top.todo[1] \in OperationStep
    BY <1>1, <1>2, <1>3, <1>4, ElementOfSeq DEF Stacked, Operation
  <2> QED
    BY <1>1, <2>1 DEF OperationStep
<1>5. ASSUME Batch(Top) PROVE FALSE
  <2>1. Top.todo[1] \in BatchStep
    BY <1>1, <1>2, <1>5, ElementOfSeq DEF Batch
  <2> QED
    BY <1>1, <2>1 DEF BatchStep
<1>6. ~Calling(Top)
  BY <1>1 DEF Calling
<1> QED
  BY <1>1, <1>3, <1>4, <1>5, <1>6 DEF Stacked

LEMMA WriteStorageKeeps ==
  ASSUME Running, WriteStorage
  PROVE  Running'
<1> DEFINE step == Head(Top.todo)
           a == Top.account
<1>1. /\ Proceed /\ cursor' = cursor /\ context' = context /\ depth' = depth
      /\ ran' = ran /\ tx' = tx
  BY DEF WriteStorage
<1>2. PICK kind \in {"store", "forget", "release"} : Doing(kind)
  BY DEF WriteStorage
<1>3. /\ ~Idle /\ Moving(stack) /\ Top = stack[Len(stack)] /\ step.do = kind /\ step \in Step
      /\ a \in Account
  BY <1>2, DoingMoves
<1>4. Len(stack) = 1
  BY <1>2, WriterAlone
<1>5. /\ stack \in Seq(Frames) /\ Stacked(stack)
      /\ Balanced(context, depth, stack) /\ ContextType(context) /\ depth \in Nat
      /\ Consumed(cursor, ran, stack) /\ SeqTypes(cursor, ran)
      /\ account \in [Account -> AccountState \cup {None}]
      /\ pending \in [Account -> [verifier: Verifier \cup {Zero, None},
                                  hook: Hook \cup {Zero, None}]]
      /\ escrow \in SUBSET Account
      /\ \A i \in DOMAIN stack : account[stack[i].account] \in AccountState
      /\ NoShorter(ran, ran)
  BY <1>3, NowFrames
<1>6. ~Enters(Head(stack[Len(stack)].todo), "verify")
  BY <1>3 DEF Enters
<1>7. /\ Consumed(cursor', ran', Forward(stack)) /\ SeqTypes(cursor', ran')
      /\ NoShorter(ran, ran')
      /\ Balanced(context', depth', Forward(stack)) /\ ContextType(context') /\ depth' \in Nat
  BY <1>1, <1>3, <1>5, <1>6, QuietConsumed, QuietBalanced
<1>8. /\ account' \in [Account -> AccountState \cup {None}]
      /\ \A i \in DOMAIN stack : account'[stack[i].account] \in AccountState
      /\ pending' \in [Account -> [verifier: Verifier \cup {Zero, None},
                                   hook: Hook \cup {Zero, None}]]
      /\ escrow' \in SUBSET escrow
  <2>1. CASE Doing("store")
    <3>1. account' = [account EXCEPT ![a] = step.state] /\ pending' = pending /\ escrow' = escrow
      BY <2>1 DEF WriteStorage, Doing
    <3>2. step.state \in AccountState
      BY <1>3, <2>1, Kinds DEF Doing
    <3>3. \A i \in DOMAIN stack : stack[i].account \in Account
      BY <1>5, FrameShape
    <3> QED
      BY <1>3, <1>5, <3>1, <3>2, <3>3
  <2>2. CASE Doing("forget")
    <3>1. /\ pending' = [pending EXCEPT ![a] =
               [slot \in DOMAIN @ |-> IF slot \in step.fields THEN None ELSE @[slot]]]
          /\ account' = account /\ escrow' = escrow
      BY <2>2 DEF WriteStorage, Doing
    <3> DEFINE old == pending[a]
               new == [slot \in DOMAIN old |-> IF slot \in step.fields THEN None ELSE old[slot]]
    <3>2. pending' = [pending EXCEPT ![a] = new]
      BY <1>3, <1>5, <3>1
    <3>3. new \in [verifier: Verifier \cup {Zero, None}, hook: Hook \cup {Zero, None}]
      <4>1. old \in [verifier: Verifier \cup {Zero, None}, hook: Hook \cup {Zero, None}]
        BY <1>3, <1>5
      <4> HIDE DEF old
      <4> QED
        BY <4>1
    <3> HIDE DEF new
    <3> QED
      BY <1>3, <1>5, <3>1, <3>2, <3>3
  <2>3. CASE Doing("release")
    <3>1. escrow' = escrow \ {a} /\ account' = account /\ pending' = pending
      BY <2>3 DEF WriteStorage, Doing
    <3> QED
      BY <1>5, <3>1
  <2> QED
    BY <1>2, <2>1, <2>2, <2>3
<1> QED
  BY <1>1, <1>3, <1>4, <1>7, <1>8, Forwarded
-----------------------------------------------------------------------------
LockedFields(fields, v) ==
  [fields EXCEPT !["lock"] = Core,
     !["verifierExecution"] = IF v = Zero THEN @ ELSE v]

LEMMA LockedContexts ==
  ASSUME NEW fields \in [ContextField -> Contract \cup {None}],
         NEW v \in Verifier \cup {Zero}
  PROVE  /\ LockedFields(fields, v) \in [ContextField -> Contract \cup {None}]
         /\ \A f \in ContextField :
              LockedFields(fields, v)[f]
                = IF f = "lock" THEN Core
                  ELSE IF f = "verifierExecution" /\ v # Zero THEN v ELSE fields[f]
<1>1. "lock" \in ContextField /\ "verifierExecution" \in ContextField
  BY DEF ContextField
<1>2. Core \in Contract \cup {None} /\ (v # Zero => v \in Contract \cup {None})
  BY DEF Contract
<1>3. PICK run : run = IF v = Zero THEN fields["verifierExecution"] ELSE v
  OBVIOUS
<1>4. run \in Contract \cup {None}
  BY <1>1, <1>2, <1>3
<1>5. PICK inner :
        inner = [fields EXCEPT !["lock"] = Core, !["verifierExecution"] = run]
  OBVIOUS
<1>6. inner \in [ContextField -> Contract \cup {None}]
  BY <1>1, <1>2, <1>4, <1>5
<1>7. \A f \in ContextField :
        inner[f] = IF f = "lock" THEN Core
                   ELSE IF f = "verifierExecution" THEN run ELSE fields[f]
  BY <1>1, <1>5
<1>8. LockedFields(fields, v) = inner
  BY <1>1, <1>3, <1>5 DEF LockedFields
<1> QED
  BY <1>3, <1>6, <1>7, <1>8

(* What a new call adds to the contexts that are open.                      *)
Adds(new, con, frame) ==
  /\ \A f \in ContextField : HasOpen(frame, f) => con[frame.account][f] = None
  /\ \A b \in Account, f \in ContextField : new[b][f] # None
       <=> con[b][f] # None \/ (b = frame.account /\ HasOpen(frame, f))
Counts(e, con) == IsFiniteSet(Opened(con)) /\ e = Cardinality(Opened(con))

LEMMA PushAdds ==
  ASSUME NEW stk \in Seq(Frames), NEW frame \in Frames,
         NEW con, NEW new, NEW d, NEW e, Balanced(con, d, stk),
         Adds(new, con, frame), Counts(e, new)
  PROVE  Balanced(new, e, Append(stk, frame))
<1>1. \A f \in ContextField : HasOpen(frame, f) => con[frame.account][f] = None
  BY DEF Adds
<1>2. \A b \in Account, f \in ContextField : new[b][f] # None
        <=> con[b][f] # None \/ (b = frame.account /\ HasOpen(frame, f))
  BY DEF Adds
<1>3. IsFiniteSet(Opened(new)) /\ e = Cardinality(Opened(new))
  BY DEF Counts
<1> QED
  BY <1>1, <1>2, <1>3, PushBalanced

Locked(new, con, a, v) ==
  new = [con EXCEPT ![a]["lock"] = Core,
           ![a]["verifierExecution"] = IF v = Zero THEN @ ELSE v]
ClosesLock(frame, a, v) ==
  /\ frame.account = a
  /\ \A f \in ContextField : HasOpen(frame, f)
       <=> f = "lock" \/ (f = "verifierExecution" /\ v # Zero)

(* An accepted operation opens the lock, and its verifier's context if it   *)
(* has one; what it pushes will close just these.                           *)
LEMMA OperationOpens ==
  ASSUME NEW stk \in Seq(Frames), Stacked(stk),
         NEW con, ContextType(con), NEW d \in Nat, Balanced(con, d, stk),
         NEW a \in Account, con[a]["lock"] = None, NEW v \in Verifier \cup {Zero},
         NEW new, Locked(new, con, a, v),
         NEW frame \in Frames, ClosesLock(frame, a, v)
  PROVE  /\ ContextType(new)
         /\ Balanced(new, d + (IF v = Zero THEN 1 ELSE 2), Append(stk, frame))
<1>1. "lock" \in ContextField /\ "verifierExecution" \in ContextField
  BY DEF ContextField
<1>2. /\ Core \in Contract /\ v # Zero => v \in Contract
      /\ Core # None /\ v # None
  BY LimitsAssumption DEF Contract
<1>3. /\ con[a] \in [ContextField -> Contract \cup {None}]
      /\ new = [con EXCEPT ![a] = LockedFields(con[a], v)]
  BY <1>1 DEF ContextType, Locked, LockedFields
<1>14. /\ LockedFields(con[a], v) \in [ContextField -> Contract \cup {None}]
       /\ \A f \in ContextField :
            LockedFields(con[a], v)[f]
              = IF f = "lock" THEN Core
                ELSE IF f = "verifierExecution" /\ v # Zero THEN v ELSE con[a][f]
  BY <1>3, LockedContexts
<1>4. /\ ContextType(new) /\ new[a] = LockedFields(con[a], v)
      /\ \A b \in Account : b # a => new[b] = con[b]
  BY <1>3, <1>14 DEF ContextType
<1>5. con[a]["verifierExecution"] = None
  <2> SUFFICES ASSUME con[a]["verifierExecution"] # None PROVE FALSE
    OBVIOUS
  <2>1. PICK i \in DOMAIN stk : stk[i].account = a /\ HasOpen(stk[i], "verifierExecution")
    BY <1>1 DEF Balanced
  <2>2. IsUserOp(stk[i]) /\ stk[i].todo # <<>>
    <3>1. "verifierExecution" \notin Config
      BY DEF Config
    <3> QED
      BY <1>1, <2>1, <3>1, FrameShape
  <2> QED
    BY <2>1, <2>2, OneOperation
<1>6. \A b \in Account, f \in ContextField : new[b][f] # None
        <=> con[b][f] # None \/ (b = frame.account /\ HasOpen(frame, f))
  <2>1. ASSUME NEW b \in Account, NEW f \in ContextField
        PROVE  new[b][f] # None
                 <=> con[b][f] # None
                       \/ (b = a /\ (f = "lock" \/ (f = "verifierExecution" /\ v # Zero)))
    <3>1. CASE b = a
      BY <1>1, <1>2, <1>4, <1>5, <1>14, <3>1
    <3>2. CASE b # a
      BY <1>4, <3>2
    <3> QED
      BY <3>1, <3>2
  <2> QED
    BY <2>1 DEF ClosesLock
<1>7. \A f \in ContextField : HasOpen(frame, f) => con[frame.account][f] = None
  BY <1>5 DEF ClosesLock
<1> DEFINE lock == <<a, "lock">>
           run == <<a, "verifierExecution">>
<1>8. /\ lock \notin Opened(con) /\ run \notin Opened(con) /\ lock # run
      /\ Opened(new) = IF v = Zero THEN Opened(con) \cup {lock}
                                   ELSE (Opened(con) \cup {lock}) \cup {run}
  <2>1. lock \notin Opened(con) /\ run \notin Opened(con) /\ lock # run
    BY <1>1, <1>5, InOpened
  <2>2. \A set \in Account \X ContextField :
          /\ set \in Opened(con) <=> con[set[1]][set[2]] # None
          /\ set \in Opened(new) <=> new[set[1]][set[2]] # None
    BY DEF Opened
  <2>3. Opened(con) \subseteq Account \X ContextField /\ Opened(new) \subseteq Account \X ContextField
    BY DEF Opened
  <2>4. lock \in Account \X ContextField /\ run \in Account \X ContextField
    BY <1>1
  <2>5. \A set \in Account \X ContextField :
          set \in Opened(new) <=> set \in Opened(con) \/ set = lock \/ (v # Zero /\ set = run)
    <3>1. ASSUME NEW set \in Account \X ContextField
          PROVE  set \in Opened(new) <=> set \in Opened(con) \/ set = lock \/ (v # Zero /\ set = run)
      <4>1. PICK b \in Account, f \in ContextField : set = <<b, f>>
        OBVIOUS
      <4>2. set[1] = b /\ set[2] = f
        BY <4>1
      <4>3. (set = lock <=> b = a /\ f = "lock") /\ (set = run <=> b = a /\ f = "verifierExecution")
        BY <4>1
      <4>4. /\ set \in Opened(con) <=> con[b][f] # None
            /\ set \in Opened(new) <=> new[b][f] # None
        BY <2>2, <4>2
      <4>5. new[b][f] # None
              <=> con[b][f] # None
                    \/ (b = a /\ (f = "lock" \/ (f = "verifierExecution" /\ v # Zero)))
        BY <1>6 DEF ClosesLock
      <4> HIDE DEF lock, run
      <4> QED
        BY <4>3, <4>4, <4>5
    <3> QED
      BY <3>1
  <2> HIDE DEF lock, run
  <2> QED
    BY <2>1, <2>3, <2>4, <2>5
<1> HIDE DEF lock, run
<1>9. IsFiniteSet(Opened(con)) /\ d = Cardinality(Opened(con))
  BY DEF Balanced
<1>10. /\ IsFiniteSet(Opened(con) \cup {lock})
       /\ Cardinality(Opened(con) \cup {lock}) = d + 1
  BY <1>8, <1>9, FS_AddElement
<1>11. /\ IsFiniteSet((Opened(con) \cup {lock}) \cup {run})
       /\ Cardinality((Opened(con) \cup {lock}) \cup {run}) = (d + 1) + 1
  <2>1. run \notin Opened(con) \cup {lock}
    BY <1>8
  <2> HIDE DEF Opened
  <2> QED
    BY <1>10, <2>1, FS_AddElement
<1>12. /\ IsFiniteSet(Opened(new))
       /\ d + (IF v = Zero THEN 1 ELSE 2) = Cardinality(Opened(new))
  <2>1. (d + 1) + 1 = d + 2
    OBVIOUS
  <2> QED
    BY <1>8, <1>10, <1>11, <2>1
<1>13. Balanced(new, d + (IF v = Zero THEN 1 ELSE 2), Append(stk, frame))
  <2>1. PICK e : e = d + (IF v = Zero THEN 1 ELSE 2)
    OBVIOUS
  <2>2. Adds(new, con, frame) /\ Counts(e, new)
    BY <1>6, <1>7, <1>12, <2>1 DEF Adds, Counts
  <2>3. Balanced(new, e, Append(stk, frame))
    BY <2>2, PushAdds
  <2> QED
    BY <2>1, <2>3
<1> QED
  BY <1>4, <1>13
(* An operation is accepted on top of the calls stk: those in progress, or  *)
(* the batch that has just passed on to it.                                 *)
LEMMA Validated ==
  ASSUME Running, ~Idle, NEW stk \in Seq(Frames),
         Typed(account, stk), Stacked(stk), Balanced(context, depth, stk),
         NotHeld(escrow, stk), Consumed(cursor, ran, stk), Len(stk) < MaxDepth,
         SavedBelow(tx.saved.ran, Snapshot, stk),
         stk # <<>> => Calling(stk[Len(stk)]) \/ Batch(stk[Len(stk)]),
         NEW caught \in BOOLEAN,
         caught /\ stk # <<>> => Calling(stk[Len(stk)]),
         NEW a \in Account, account[a] \in AccountState,
         NEW nonce \in Nonce, NEW target \in Target,
         ValidateUserOp(a, nonce),
         stack' = Append(stk, UserOpFrame(a, nonce, target, caught)),
         tx' \in Transactions, tx'.saved = tx.saved
  PROVE  Running'
<1>1. /\ Now /\ Snapshot \in Snapshots /\ NoShorter(tx.saved.ran, ran)
      /\ SeqTypes(cursor, ran) /\ ContextType(context) /\ depth \in Nat
      /\ account \in [Account -> AccountState \cup {None}]
      /\ escrow \in SUBSET Account
  BY RunningNow DEF Now
<1>2. PICK v, h : v = account[a].verifier /\ h = account[a].hook
  OBVIOUS
<1>3. /\ context[a]["lock"] = None /\ a \notin escrow
      /\ nonce.sequence = cursor[a][nonce.channel]
      /\ account' = [account EXCEPT ![a].escaping = FALSE]
      /\ cursor' = [cursor EXCEPT ![a][nonce.channel] = @ + 1]
      /\ context' = [context EXCEPT ![a]["lock"] = Core,
                       ![a]["verifierExecution"] = IF v = Zero THEN @ ELSE v]
      /\ depth' = depth + (IF v = Zero THEN 1 ELSE 2)
      /\ pending' = pending /\ escrow' = escrow /\ ran' = ran
  BY <1>2 DEF ValidateUserOp, IsExecutionActive, AssertNoMarketEscrow,
              IsNonceAcceptable, ConsumeNonce
<1>4. v \in Verifier \cup {Zero} /\ h \in Hook \cup {Zero}
  BY <1>2 DEF AccountState
<1>5. PICK todo : todo = UserOpSteps(v, h, target)
  OBVIOUS
<1>6. Operation(todo) /\ ToRun(todo) /\ todo \in Seq(Step)
  <2>1. Operation(todo) /\ ToRun(todo)
    BY <1>4, <1>5, UserOpShape DEF OperationShape
  <2> QED
    BY <2>1, StepKinds, SeqMonotonic DEF Operation
<1>7. PICK frame : frame = Frame(a, nonce, todo, caught)
  OBVIOUS
<1>8. /\ frame \in Frames /\ frame.account = a /\ frame.nonce = nonce /\ frame.todo = todo
      /\ frame.saved # None => caught /\ frame.saved = Snapshot
  BY <1>6, <1>7, NewFrame
<1>9. stack' = Append(stk, frame)
  BY <1>2, <1>5, <1>7 DEF UserOpFrame
<1>10. IsUserOp(frame)
  BY <1>8, NoneAssumption DEF IsUserOp
<1>11. \A f \in ContextField :
         HasOpen(frame, f) <=> f = "lock" \/ (f = "verifierExecution" /\ v # Zero)
  <2>1. \A f \in ContextField :
          OpenAt(todo, 1, f) <=> f = "lock" \/ (f = "verifierExecution" /\ v # Zero)
    BY <1>4, <1>5, UserOpShape DEF OperationShape
  <2>2. \A f \in ContextField : HasOpen(frame, f) <=> OpenAt(todo, 1, f)
    BY <1>6, <1>8, FirstOpen
  <2> QED
    BY <2>1, <2>2
<1>12. ContextType(context') /\ Balanced(context', depth', Append(stk, frame))
  <2>1. Balanced(context, depth, stk)
    OBVIOUS
  <2>2. PICK new, d : new = context' /\ d = depth
    OBVIOUS
  <2>3. Locked(new, context, a, v) /\ ClosesLock(frame, a, v)
    BY <1>3, <1>8, <1>11, <2>2 DEF Locked, ClosesLock
  <2>4. d \in Nat /\ ContextType(context) /\ Balanced(context, d, stk) /\ context[a]["lock"] = None
    BY <1>1, <1>3, <2>1, <2>2
  <2>5. /\ ContextType(new)
        /\ Balanced(new, d + (IF v = Zero THEN 1 ELSE 2), Append(stk, frame))
    BY <1>4, <1>8, <2>3, <2>4, OperationOpens
  <2>6. depth' = d + (IF v = Zero THEN 1 ELSE 2)
    BY <1>3, <2>2
  <2> QED
    BY <2>2, <2>5, <2>6
<1>13. depth' \in Nat
  BY <1>1, <1>3
<1>14. Stacked(Append(stk, frame))
  BY <1>6, <1>8, <1>10, PushStacked
<1>15. PICK n : n = Len(stk)
  OBVIOUS
<1>16. /\ n \in Nat /\ DOMAIN stk = 1 .. n
       /\ DOMAIN Append(stk, frame) = 1 .. n + 1
       /\ Len(Append(stk, frame)) = n + 1 /\ Append(stk, frame) \in Seq(Frames)
       /\ \A i \in 1 .. n : Append(stk, frame)[i] = stk[i]
       /\ Append(stk, frame)[n + 1] = frame
  BY <1>8, <1>15, PushFrames
<1>17. n + 1 <= MaxDepth /\ \A i \in 1 .. n + 1 : i \in 1 .. n \/ i = n + 1
  BY <1>15, <1>16, LimitsAssumption
<1>18. /\ account' \in [Account -> AccountState \cup {None}]
       /\ \A b \in Account :
            account[b] \in AccountState
              => /\ account'[b] \in AccountState
                 /\ account'[b].verifier = account[b].verifier
                 /\ account'[b].hook = account[b].hook
                 /\ account'[b].backupOwner = account[b].backupOwner
       /\ \A b \in Account : b # a => account'[b] = account[b]
  <2>1. [account[a] EXCEPT !.escaping = FALSE] \in AccountState
    BY DEF AccountState
  <2>2. account' = [account EXCEPT ![a] = [account[a] EXCEPT !.escaping = FALSE]]
    BY <1>3
  <2>3. /\ [account[a] EXCEPT !.escaping = FALSE].verifier = account[a].verifier
        /\ [account[a] EXCEPT !.escaping = FALSE].hook = account[a].hook
        /\ [account[a] EXCEPT !.escaping = FALSE].backupOwner = account[a].backupOwner
    BY DEF AccountState
  <2> QED
    BY <1>1, <2>1, <2>2, <2>3
<1>19. Typed(account', Append(stk, frame))
  <2>1. \A i \in 1 .. n : stk[i].account \in Account /\ account[stk[i].account] \in AccountState
    BY <1>16, FrameShape DEF Typed
  <2>2. \A i \in 1 .. n + 1 : account'[Append(stk, frame)[i].account] \in AccountState
    BY <1>8, <1>16, <1>17, <1>18, <2>1
  <2> QED
    BY <1>16, <1>17, <2>2 DEF Typed
<1>20. NotHeld(escrow', Append(stk, frame))
  BY <1>3, <1>8, <1>16, <1>17 DEF NotHeld
<1>21. Consumed(cursor', ran', Append(stk, frame)) /\ SeqTypes(cursor', ran')
  <2>1. nonce.channel \in Channel /\ nonce.sequence \in 0 .. SeqLimit - 1
    BY DEF Nonce
  <2>2. nonce.sequence + 1 \in 0 .. SeqLimit
    BY <2>1, LimitsAssumption
  <2>3. PICK c, value : c = nonce.channel /\ value = nonce.sequence + 1
    OBVIOUS
  <2>4. cursor \in [Account -> [Channel -> 0 .. SeqLimit]]
    BY <1>1 DEF SeqTypes
  <2>5. cursor' = [cursor EXCEPT ![a][c] = value]
    BY <1>3, <2>1, <2>3, <2>4
  <2>6. /\ cursor' \in [Account -> [Channel -> 0 .. SeqLimit]]
        /\ Updates(cursor', cursor, a, c, value)
    BY <2>1, <2>2, <2>3, <2>4, <2>5, Updated
  <2>7. PICK new : new = cursor'
    OBVIOUS
  <2>8. /\ new \in [Account -> [Channel -> 0 .. SeqLimit]]
        /\ Updates(new, cursor, a, nonce.channel, nonce.sequence + 1)
    BY <2>3, <2>6, <2>7
  <2>9. Consumed(new, ran, Append(stk, frame)) /\ SeqTypes(new, ran)
    BY <1>1, <1>3, <1>6, <1>8, <1>10, <2>8, OperationConsumed
  <2> QED
    BY <1>3, <2>7, <2>9
<1>22. Now'
  <2>1. /\ pending' \in [Account -> [verifier: Verifier \cup {Zero, None},
                                      hook: Hook \cup {Zero, None}]]
        /\ escrow' \in SUBSET Account
    BY <1>1, <1>3 DEF Now
  <2> QED
    BY <1>9, <1>12, <1>13, <1>14, <1>18, <1>19, <1>20, <1>21, <2>1 DEF Now
<1>23. SameAuthority(Snapshot, Snapshot')
  <2>1. \A b \in Account : account[b] \in AccountState \/ account[b] = account'[b]
    BY <1>18
  <2> QED
    BY <1>3, <1>18, <2>1 DEF SameAuthority, Snapshot
<1>24. SavedBelow(tx.saved.ran, Snapshot', stack')
  <2>1. frame.saved # None => /\ frame.saved = Snapshot /\ Execution(Snapshot, stk)
                              /\ NoShorter(tx.saved.ran, Snapshot.ran)
                              /\ stk # <<>> => Calling(stk[Len(stk)])
    <3>1. /\ Snapshot.account = account /\ Snapshot.escrow = escrow
          /\ Snapshot.cursor = cursor /\ Snapshot.context = context
          /\ Snapshot.depth = depth /\ Snapshot.ran = ran
      BY DEF Snapshot
    <3>2. Execution(Snapshot, stk)
      BY <1>1, <3>1 DEF Execution
    <3> QED
      BY <1>1, <1>8, <3>1, <3>2
  <2>2. PICK next : next = Snapshot'
    OBVIOUS
  <2>3. SameAuthority(Snapshot, next)
    BY <1>23, <2>2
  <2>4. SavedBelow(tx.saved.ran, next, Append(stk, frame))
    BY <1>8, <2>1, <2>3, SavedPush
  <2> QED
    BY <1>9, <2>2, <2>4
<1>25. NoShorter(ran, ran')
  BY <1>1, <1>3, StillNoShorter
<1> QED
  BY <1>22, <1>24, <1>25, Goes
LEMMA ExecuteUserOpKeeps ==
  ASSUME Running, NEW a \in Registered, NEW nonce \in Nonce, NEW target \in Target,
         NEW caught \in BOOLEAN, ExecuteUserOp(a, nonce, target, caught)
  PROVE  Running'
<1>1. /\ Room /\ ValidateUserOp(a, nonce) /\ Count
      /\ stack' = Append(stack, UserOpFrame(a, nonce, target, caught))
  BY DEF ExecuteUserOp
<1>2. ~Idle /\ Outside /\ Len(stack) < MaxDepth
  BY <1>1 DEF Room, Outside
<1>3. /\ Now /\ stack \in Seq(Frames) /\ tx \in Transactions
      /\ SavedBelow(tx.saved.ran, Snapshot, stack)
  BY <1>2, RunningNow
<1>4. a \in Account /\ account[a] \in AccountState
  BY <1>3 DEF Registered, Now
<1>5. stack # <<>> => Calling(stack[Len(stack)])
  BY <1>2 DEF Outside, Top
<1>6. PICK stk : stk = stack
  OBVIOUS
<1>7. /\ stk \in Seq(Frames) /\ Len(stk) < MaxDepth
      /\ Typed(account, stk) /\ Stacked(stk) /\ Balanced(context, depth, stk)
      /\ NotHeld(escrow, stk) /\ Consumed(cursor, ran, stk)
      /\ SavedBelow(tx.saved.ran, Snapshot, stk)
      /\ stk # <<>> => Calling(stk[Len(stk)])
      /\ stack' = Append(stk, UserOpFrame(a, nonce, target, caught))
  BY <1>1, <1>2, <1>3, <1>5, <1>6 DEF Now
<1>8. tx' \in Transactions /\ tx'.saved = tx.saved
  BY <1>1, <1>3, CountedOn
<1> QED
  BY <1>1, <1>2, <1>4, <1>7, <1>8, Validated

LEMMA ExecuteNextKeeps ==
  ASSUME Running, ExecuteNext
  PROVE  Running'
<1> DEFINE op == Head(Top.todo)
<1>1. /\ Doing("execute") /\ Len(stack) < MaxDepth /\ ValidateUserOp(Top.account, op.nonce)
      /\ stack' = Append([stack EXCEPT ![Len(stack)].todo = Tail(@)],
                         UserOpFrame(Top.account, op.nonce, op.target, FALSE))
      /\ tx' = tx
  BY DEF ExecuteNext
<1>2. /\ ~Idle /\ Moving(stack) /\ Top = stack[Len(stack)] /\ Len(stack) \in DOMAIN stack
      /\ Top \in Frames /\ Top.account \in Account /\ account[Top.account] \in AccountState
      /\ op \in Step /\ op.do = "execute" /\ op = Top.todo[1] /\ 1 \in DOMAIN Top.todo
  BY <1>1, DoingMoves
<1>3. /\ Now /\ stack \in Seq(Frames) /\ tx \in Transactions /\ Stacked(stack)
      /\ SavedBelow(tx.saved.ran, Snapshot, stack)
  BY <1>2, RunningNow DEF Now
<1>4. op.nonce \in Nonce /\ op.target \in Target
  BY <1>2, Kinds
<1>5. Batch(Top)
  <2>1. \/ IsUserOp(Top) /\ Operation(Top.todo)
        \/ Batch(Top)
        \/ Maintaining(Top)
    BY <1>2, <1>3 DEF Stacked
  <2>2. Top.todo \in Seq(OperationStep) => op \in OperationStep
    BY <1>2, LenProperties, ElementOfSeq
  <2>3. Top.todo \in Seq(MaintenanceStep) => op \in MaintenanceStep
    BY <1>2, LenProperties, ElementOfSeq
  <2>4. op \notin OperationStep /\ op \notin MaintenanceStep
    BY <1>2 DEF OperationStep, MaintenanceStep
  <2> QED
    BY <2>1, <2>2, <2>3, <2>4 DEF Operation, Maintaining
<1>6. PICK stk : stk = Forward(stack)
  OBVIOUS
<1> DEFINE n == Len(stack)
<1>7. /\ stk \in Seq(Frames) /\ n \in Nat \ {0} /\ Len(stk) = n
      /\ DOMAIN stack = 1 .. n /\ DOMAIN stk = 1 .. n
      /\ \A i \in 1 .. n : stk[i].account = stack[i].account /\ stk[i].nonce = stack[i].nonce
      /\ stk[n].todo = Tail(stack[n].todo)
  BY <1>2, <1>3, <1>6, ForwardFrames
<1>8. ~IsUserOp(Top) /\ Top.todo \in Seq(BatchStep) /\ Top.todo # <<>>
  BY <1>1, <1>5 DEF Batch, Doing
<1>9. Batch(stk[n])
  <2>1. Tail(Top.todo) \in Seq(BatchStep)
    BY <1>8, HeadTailProperties
  <2> QED
    BY <1>2, <1>7, <1>8, <2>1 DEF Batch, IsUserOp
<1>10. Len(stk) < MaxDepth /\ n <= MaxDepth
  BY <1>1, <1>7, LimitsAssumption
<1>11. /\ Stacked(stk) /\ Balanced(context, depth, stk) /\ Consumed(cursor, ran, stk)
       /\ SavedBelow(tx.saved.ran, Snapshot, stk)
  <2>1. Head(stack[Len(stack)].todo).do \notin {"enter", "exit"}
    BY <1>2
  <2>2. ~Enters(Head(stack[Len(stack)].todo), "verify")
    BY <1>2 DEF Enters
  <2>3. Balanced(context, depth, stack) /\ Consumed(cursor, ran, stack)
    BY <1>3 DEF Now
  <2>4. Stacked(Forward(stack))
    BY <1>2, <1>3, ForwardStacked
  <2>5. Balanced(context, depth, Forward(stack))
    BY <1>2, <1>3, <2>1, <2>3, QuietBalanced
  <2>6. Consumed(cursor, ran, Forward(stack))
    BY <1>2, <1>3, <2>2, <2>3, QuietConsumed
  <2>7. SavedBelow(tx.saved.ran, Snapshot, Forward(stack))
    BY <1>2, <1>3, SameReflexive, SavedForward
  <2> QED
    BY <1>6, <2>4, <2>5, <2>6, <2>7
<1>12. stack' = Append(stk, UserOpFrame(Top.account, op.nonce, op.target, FALSE))
  BY <1>1, <1>6 DEF Forward
<1> HIDE DEF n, op
<1>13. Typed(account, stk) /\ NotHeld(escrow, stk)
  BY <1>3, <1>7, <1>10 DEF Now, Typed, NotHeld, IsUserOp
<1>14. PICK a, nonce, target :
         /\ a = Top.account /\ nonce = op.nonce /\ target = op.target
  OBVIOUS
<1>15. /\ a \in Account /\ nonce \in Nonce /\ target \in Target
       /\ account[a] \in AccountState /\ ValidateUserOp(a, nonce)
       /\ stack' = Append(stk, UserOpFrame(a, nonce, target, FALSE))
  BY <1>1, <1>2, <1>4, <1>12, <1>14 DEF op
<1>16. stk # <<>> => Calling(stk[Len(stk)]) \/ Batch(stk[Len(stk)])
  BY <1>7, <1>9
<1> QED
  BY <1>1, <1>2, <1>3, <1>7, <1>10, <1>11, <1>13, <1>15, <1>16, Validated

LEMMA ExecuteUserOpsKeeps ==
  ASSUME Running, NEW a \in Registered, NEW n \in Nat, NEW ops \in [1 .. n -> Nonce \X Target],
         NEW caught \in BOOLEAN, ExecuteUserOps(a, ops, caught)
  PROVE  Running'
<1>1. PICK todo : todo = [k \in DOMAIN ops |-> Execute(ops[k][1], ops[k][2])]
  OBVIOUS
<1>2. /\ Room /\ Push(a, None, todo, caught) /\ Count /\ UNCHANGED storage
  BY <1>1 DEF ExecuteUserOps
<1>3. todo \in Seq(BatchStep)
  <2>1. \A k \in 1 .. n : Execute(ops[k][1], ops[k][2]) \in BatchStep
    BY DEF Execute, BatchStep
  <2>2. todo \in [1 .. n -> BatchStep]
    BY <1>1, <2>1
  <2> QED
    BY <2>2, SeqDef
<1>4. ~Idle
  BY <1>2 DEF Room, Outside
<1>5. a \in Account /\ account[a] \in AccountState
  BY <1>4, RunningNow DEF Registered, Now
<1> QED
  BY <1>2, <1>3, <1>5, Called
-----------------------------------------------------------------------------
(* Maintenance is refused inside every call, so it starts with no call in   *)
(* progress and its steps all close what they open.                         *)
Maintained(a) ==
  /\ a \in Account /\ account[a] \in AccountState
  /\ pending[a] \in [verifier: Verifier \cup {Zero, None}, hook: Hook \cup {Zero, None}]

LEMMA MaintainedAccount ==
  ASSUME Running, ~Idle, NEW a \in Registered
  PROVE  Maintained(a)
  BY RunningNow DEF Maintained, Registered, Now

LEMMA MaintainKeeps ==
  ASSUME Running, Room, depth = 0, NEW a, Maintained(a), NEW todo, Closed(todo),
         NEW caught \in BOOLEAN, Maintain(a, todo, caught)
  PROVE  Running'
<1>1. Push(a, None, todo, caught) /\ Count /\ UNCHANGED storage
  BY DEF Maintain
<1>2. ~Idle /\ Outside
  BY DEF Room, Outside
<1>3. stack = <<>>
  BY <1>2, RunningNow, QuietMoment
<1>4. a \in Account /\ account[a] \in AccountState
  BY DEF Maintained
<1> QED
  BY <1>1, <1>3, <1>4, Called

LEMMA ConfiguresQuietly ==
  ASSUME NEW a, OwnerConfigures(a)
  PROVE  Room /\ depth = 0 /\ ~Idle
  BY DEF OwnerConfigures, AssertIdle, Room, Outside

LEMMA ShortSeqs ==
  ASSUME NEW S, NEW x \in S, NEW y \in S, NEW z \in S
  PROVE  <<x>> \in Seq(S) /\ <<x, y>> \in Seq(S) /\ <<x, y, z>> \in Seq(S)
  OBVIOUS

LEMMA ClosedStore ==
  ASSUME NEW state \in AccountState
  PROVE  Closed(<<Store(state)>>)
<1>1. Store(state) \in QuietStep
  BY DEF Store, QuietStep
<1>2. <<Store(state)>> \in Seq(QuietStep)
  BY <1>1, ShortSeqs
<1> QED
  BY <1>2, ClosedQuiet

LEMMA ClosedForget ==
  ASSUME NEW fields \in SUBSET {"verifier", "hook"}
  PROVE  Closed(<<Forget(fields)>>)
<1>1. Forget(fields) \in QuietStep
  BY DEF Forget, QuietStep
<1>2. <<Forget(fields)>> \in Seq(QuietStep)
  BY <1>1, ShortSeqs
<1> QED
  BY <1>2, ClosedQuiet

LEMMA InstallVerifierKeeps ==
  ASSUME Running, NEW a \in Registered, NEW v \in Verifier \cup {Zero},
         NEW params \in BOOLEAN, NEW caught \in BOOLEAN,
         InstallVerifier(a, v, params, caught)
  PROVE  Running'
<1>1. Room /\ depth = 0 /\ Maintained(a)
  BY ConfiguresQuietly, MaintainedAccount DEF InstallVerifier
<1>2. PICK state : state = [account[a] EXCEPT !.verifier = v]
  OBVIOUS
<1>3. state \in AccountState
  BY <1>1, <1>2 DEF Maintained, AccountState
<1>4. PICK todo : todo = <<Store(state)>> \o SetPublicKey(v, params)
  OBVIOUS
<1>5. Closed(todo)
  <2>1. v \in Verifier \cup {Zero, None} /\ v # None
    BY LimitsAssumption
  <2> QED
    BY <1>3, <1>4, <2>1, ClosedStore, ClosedParameters, ClosedConcat
<1>6. Maintain(a, todo, caught)
  BY <1>2, <1>4 DEF InstallVerifier
<1> QED
  BY <1>1, <1>5, <1>6, MaintainKeeps

LEMMA ConfirmVerifierUpdateKeeps ==
  ASSUME Running, NEW a \in Registered, NEW params \in BOOLEAN, NEW caught \in BOOLEAN,
         ConfirmVerifierUpdate(a, params, caught)
  PROVE  Running'
<1>1. Room /\ depth = 0 /\ Maintained(a)
  BY ConfiguresQuietly, MaintainedAccount DEF ConfirmVerifierUpdate
<1>2. PICK new, old, state :
        /\ new = pending[a].verifier /\ old = [account[a] EXCEPT !.hook = Zero]
        /\ state = [account[a] EXCEPT !.verifier = new]
  OBVIOUS
<1>3. new \in Verifier \cup {Zero, None} /\ new # None
  BY <1>1, <1>2 DEF Maintained, ConfirmVerifierUpdate
<1>4. state \in AccountState /\ old \in AccountState
  BY <1>1, <1>2, <1>3 DEF Maintained, AccountState
<1>5. PICK todo :
        todo = ClearAccount(old) \o <<Store(state)>> \o SetPublicKey(new, params)
                 \o <<Forget({"verifier"})>>
  OBVIOUS
<1>6. Closed(todo)
  <2>1. Closed(ClearAccount(old))
    BY <1>4, ClosedClearing DEF AccountState
  <2>2. Closed(ClearAccount(old) \o <<Store(state)>>)
    BY <1>4, <2>1, ClosedStore, ClosedConcat
  <2>3. Closed((ClearAccount(old) \o <<Store(state)>>) \o SetPublicKey(new, params))
    BY <1>3, <2>2, ClosedParameters, ClosedConcat
  <2>4. Closed(<<Forget({"verifier"})>>)
    BY ClosedForget
  <2> QED
    BY <1>5, <2>3, <2>4, ClosedConcat
<1>7. Maintain(a, todo, caught)
  BY <1>2, <1>5 DEF ConfirmVerifierUpdate
<1> QED
  BY <1>1, <1>6, <1>7, MaintainKeeps

LEMMA ConfirmHookUpdateKeeps ==
  ASSUME Running, NEW a \in Registered, NEW caught \in BOOLEAN, ConfirmHookUpdate(a, caught)
  PROVE  Running'
<1>1. Room /\ depth = 0 /\ Maintained(a)
  BY ConfiguresQuietly, MaintainedAccount DEF ConfirmHookUpdate
<1>2. PICK old, state :
        /\ old = [account[a] EXCEPT !.verifier = Zero]
        /\ state = [account[a] EXCEPT !.hook = pending[a].hook]
  OBVIOUS
<1>3. pending[a].hook # None /\ pending[a].hook \in Hook \cup {Zero, None}
  BY <1>1 DEF Maintained, ConfirmHookUpdate
<1>4. state \in AccountState /\ old \in AccountState
  BY <1>1, <1>2, <1>3 DEF Maintained, AccountState
<1>5. PICK todo : todo = ClearAccount(old) \o <<Store(state), Forget({"hook"})>>
  OBVIOUS
<1>6. Closed(todo)
  <2>1. Closed(ClearAccount(old))
    BY <1>4, ClosedClearing DEF AccountState
  <2>2. Store(state) \in QuietStep /\ Forget({"hook"}) \in QuietStep
    BY <1>4 DEF Store, Forget, QuietStep
  <2>3. <<Store(state), Forget({"hook"})>> \in Seq(QuietStep)
    BY <2>2, ShortSeqs
  <2>4. Closed(<<Store(state), Forget({"hook"})>>)
    BY <2>3, ClosedQuiet
  <2> QED
    BY <1>5, <2>1, <2>4, ClosedConcat
<1>7. Maintain(a, todo, caught)
  BY <1>2, <1>5 DEF ConfirmHookUpdate
<1> QED
  BY <1>1, <1>6, <1>7, MaintainKeeps

LEMMA CallPluginKeeps ==
  ASSUME Running, NEW a \in Registered, NEW field \in {"verifierConfig", "hookConfig"},
         NEW module, NEW caught \in BOOLEAN, CallPlugin(a, field, module, caught)
  PROVE  Running'
<1>1. Room /\ depth = 0 /\ Maintained(a)
  BY ConfiguresQuietly, MaintainedAccount DEF CallPlugin
<1>2. field \in Config /\ module \in Contract
  <2>1. module # Zero /\ module \in {account[a].verifier, account[a].hook}
    BY DEF CallPlugin
  <2> QED
    BY <1>1, <2>1 DEF Maintained, AccountState, Contract, Config
<1>3. PICK todo : todo = Within(field, module, <<CallOut(module)>>)
  OBVIOUS
<1>4. Closed(todo)
  BY <1>2, <1>3, ClosedContext
<1>5. Maintain(a, todo, caught)
  BY <1>3 DEF CallPlugin
<1> QED
  BY <1>1, <1>4, <1>5, MaintainKeeps

LEMMA FinalizeEscapeKeeps ==
  ASSUME Running, NEW a \in Registered, NEW v \in Verifier \cup {Zero},
         NEW params \in BOOLEAN, NEW caught \in BOOLEAN,
         FinalizeEscape(a, v, params, caught)
  PROVE  Running'
<1>1. Room /\ depth = 0 /\ Maintained(a)
  BY ConfiguresQuietly, MaintainedAccount DEF FinalizeEscape
<1>2. PICK old, state :
        /\ old = account[a]
        /\ state = [account[a] EXCEPT !.verifier = v, !.hook = Zero, !.escaping = FALSE]
  OBVIOUS
<1>3. old \in AccountState /\ state \in AccountState
  BY <1>1, <1>2 DEF Maintained, AccountState
<1>4. PICK todo :
        todo = ClearAccount(old) \o <<Store(state)>> \o SetPublicKey(v, params)
                 \o <<Forget({"verifier", "hook"})>>
  OBVIOUS
<1>5. Closed(todo)
  <2>1. Closed(ClearAccount(old))
    BY <1>3, ClosedClearing DEF AccountState
  <2>2. Closed(ClearAccount(old) \o <<Store(state)>>)
    BY <1>3, <2>1, ClosedStore, ClosedConcat
  <2>3. v \in Verifier \cup {Zero, None} /\ v # None
    BY LimitsAssumption
  <2>4. Closed((ClearAccount(old) \o <<Store(state)>>) \o SetPublicKey(v, params))
    BY <2>2, <2>3, ClosedParameters, ClosedConcat
  <2>5. Closed(<<Forget({"verifier", "hook"})>>)
    BY ClosedForget
  <2> QED
    BY <1>4, <2>4, <2>5, ClosedConcat
<1>6. Maintain(a, todo, caught)
  BY <1>2, <1>4 DEF FinalizeEscape
<1> QED
  BY <1>1, <1>5, <1>6, MaintainKeeps

LEMMA SettleMarketEscrowKeeps ==
  ASSUME Running, NEW a \in Registered, NEW newOwner \in Owner, NEW caught \in BOOLEAN,
         SettleMarketEscrow(a, newOwner, caught)
  PROVE  Running'
<1>1. Room /\ depth = 0 /\ ~Idle /\ Maintain(a, SettlementSteps(account[a], newOwner), caught)
  BY DEF SettleMarketEscrow, AssertIdle, Room, Outside
<1>2. Maintained(a)
  BY <1>1, MaintainedAccount
<1>3. PICK old, state :
        /\ old = account[a]
        /\ state = [verifier |-> Zero, hook |-> Zero, backupOwner |-> newOwner,
                    escaping |-> FALSE]
  OBVIOUS
<1>4. old \in AccountState /\ state \in AccountState
  BY <1>2, <1>3 DEF Maintained, AccountState
<1>5. PICK todo :
        todo = ClearAccount(old) \o <<Store(state), Forget({"verifier", "hook"}), Release>>
  OBVIOUS
<1>6. Closed(todo)
  <2>1. Closed(ClearAccount(old))
    BY <1>4, ClosedClearing DEF AccountState
  <2>2. Store(state) \in QuietStep /\ Forget({"verifier", "hook"}) \in QuietStep
        /\ Release \in QuietStep
    BY <1>4 DEF Store, Forget, Release, QuietStep
  <2>3. <<Store(state), Forget({"verifier", "hook"}), Release>> \in Seq(QuietStep)
    BY <2>2, ShortSeqs
  <2>4. Closed(<<Store(state), Forget({"verifier", "hook"}), Release>>)
    BY <2>3, ClosedQuiet
  <2> QED
    BY <1>5, <2>1, <2>4, ClosedConcat
<1>7. Maintain(a, todo, caught)
  BY <1>1, <1>3, <1>5 DEF SettlementSteps
<1> QED
  BY <1>1, <1>2, <1>6, <1>7, MaintainKeeps
-----------------------------------------------------------------------------
(* The operations that write storage at once run no plugin.                 *)
DirectCall(a) ==
  \/ \E h \in Hook : InstallHook(a, h)
  \/ \E slot \in {"verifier", "hook"}, m \in Verifier \cup Hook \cup {Zero} :
       StageUpdate(a, slot, m)
  \/ InitiateEscape(a) \/ EnterMarketEscrow(a) \/ CancelMarketEscrow(a)

LEMMA DirectCallKeeps ==
  ASSUME Running, NEW a \in Registered, DirectCall(a)
  PROVE  Running' /\ stack = <<>>
<1>1. Room /\ depth = 0 /\ Count /\ UNCHANGED <<cursor, context, depth, ran, stack>>
  BY ConfiguresQuietly
  DEF DirectCall, InstallHook, StageUpdate, InitiateEscape, EnterMarketEscrow,
      CancelMarketEscrow, AssertIdle
<1>2. ~Idle
  BY <1>1 DEF Room, Outside
<1>3. /\ Maintained(a)
      /\ account \in [Account -> AccountState \cup {None}]
      /\ pending \in [Account -> [verifier: Verifier \cup {Zero, None},
                                  hook: Hook \cup {Zero, None}]]
      /\ escrow \in SUBSET Account
  BY <1>2, MaintainedAccount, NowFrames
<1>4. /\ account' \in [Account -> AccountState \cup {None}]
      /\ pending' \in [Account -> [verifier: Verifier \cup {Zero, None},
                                   hook: Hook \cup {Zero, None}]]
      /\ escrow' \in SUBSET Account
  <2>1. CASE \E h \in Hook : InstallHook(a, h)
    <3>1. PICK h \in Hook : InstallHook(a, h)
      BY <2>1
    <3>2. account' = [account EXCEPT ![a] = [account[a] EXCEPT !.hook = h]]
          /\ pending' = pending /\ escrow' = escrow
      BY <1>3, <3>1 DEF InstallHook
    <3>3. [account[a] EXCEPT !.hook = h] \in AccountState
      BY <1>3 DEF Maintained, AccountState
    <3> QED
      BY <1>3, <3>2, <3>3
  <2>2. CASE \E slot \in {"verifier", "hook"}, m \in Verifier \cup Hook \cup {Zero} :
               StageUpdate(a, slot, m)
    <3>1. PICK slot \in {"verifier", "hook"}, m \in Verifier \cup Hook \cup {Zero} :
            StageUpdate(a, slot, m)
      BY <2>2
    <3>2. /\ m \in (IF slot = "verifier" THEN Verifier ELSE Hook) \cup {Zero}
          /\ pending' = [pending EXCEPT ![a] = [pending[a] EXCEPT ![slot] = m]]
          /\ account' = account /\ escrow' = escrow
      BY <1>3, <3>1 DEF StageUpdate
    <3>3. [pending[a] EXCEPT ![slot] = m]
            \in [verifier: Verifier \cup {Zero, None}, hook: Hook \cup {Zero, None}]
      <4>1. CASE slot = "verifier"
        BY <1>3, <3>2, <4>1 DEF Maintained
      <4>2. CASE slot = "hook"
        BY <1>3, <3>2, <4>2 DEF Maintained
      <4> QED
        BY <4>1, <4>2
    <3> QED
      BY <1>3, <3>2, <3>3
  <2>3. CASE InitiateEscape(a)
    <3>1. account' = [account EXCEPT ![a] = [account[a] EXCEPT !.escaping = TRUE]]
          /\ pending' = pending /\ escrow' = escrow
      BY <1>3, <2>3 DEF InitiateEscape
    <3>2. [account[a] EXCEPT !.escaping = TRUE] \in AccountState
      BY <1>3 DEF Maintained, AccountState
    <3> QED
      BY <1>3, <3>1, <3>2
  <2>4. CASE EnterMarketEscrow(a) \/ CancelMarketEscrow(a)
    BY <1>3, <2>4 DEF EnterMarketEscrow, CancelMarketEscrow, Maintained
  <2> QED
    BY <2>1, <2>2, <2>3, <2>4 DEF DirectCall
<1> QED
  BY <1>1, <1>4, Direct

LEMMA MaintenanceCases ==
  ASSUME chain \in Chains, NEW a \in Account, NEW caught \in BOOLEAN, Maintenance(a, caught)
  PROVE  \/ DirectCall(a)
         \/ \E v \in Verifier \cup {Zero}, params \in BOOLEAN :
              InstallVerifier(a, v, params, caught) \/ FinalizeEscape(a, v, params, caught)
         \/ \E params \in BOOLEAN : ConfirmVerifierUpdate(a, params, caught)
         \/ ConfirmHookUpdate(a, caught)
         \/ \E field \in {"verifierConfig", "hookConfig"}, m \in Verifier \cup Hook :
              CallPlugin(a, field, m, caught)
         \/ \E o \in Owner : SettleMarketEscrow(a, o, caught)
<1>1. chain.plugins \subseteq Verifier \cup Hook
  BY ChainsAssumption
<1> QED
  BY <1>1, Zenon DEF Maintenance, DirectCall

LEMMA MaintenanceKeeps ==
  ASSUME Running, chain \in Chains, NEW a \in Registered, NEW caught \in BOOLEAN,
         Maintenance(a, caught)
  PROVE  Running'
<1>1. a \in Account
  BY DEF Registered
<1>2. CASE DirectCall(a)
  BY <1>2, DirectCallKeeps
<1>3. CASE \E v \in Verifier \cup {Zero}, params \in BOOLEAN :
             InstallVerifier(a, v, params, caught) \/ FinalizeEscape(a, v, params, caught)
  BY <1>3, InstallVerifierKeeps, FinalizeEscapeKeeps
<1>4. CASE \E params \in BOOLEAN : ConfirmVerifierUpdate(a, params, caught)
  BY <1>4, ConfirmVerifierUpdateKeeps
<1>5. CASE ConfirmHookUpdate(a, caught)
  BY <1>5, ConfirmHookUpdateKeeps
<1>6. CASE \E field \in {"verifierConfig", "hookConfig"}, m \in Verifier \cup Hook :
             CallPlugin(a, field, m, caught)
  BY <1>6, CallPluginKeeps
<1>7. CASE \E o \in Owner : SettleMarketEscrow(a, o, caught)
  BY <1>7, SettleMarketEscrowKeeps
<1> QED
  BY <1>1, <1>2, <1>3, <1>4, <1>5, <1>6, <1>7, MaintenanceCases
-----------------------------------------------------------------------------
(* The end of a call, and of a transaction.                                 *)
LEMMA WalletReturnsKeeps ==
  ASSUME Running, WalletReturns
  PROVE  Running'
<1>1. /\ ~Idle /\ stack # <<>> /\ Top.todo = <<>>
      /\ stack' = SubSeq(stack, 1, Len(stack) - 1)
      /\ account' = account /\ pending' = pending /\ escrow' = escrow
      /\ context' = context /\ depth' = depth
      /\ cursor' = cursor /\ ran' = ran /\ tx' = tx
  BY DEF WalletReturns, storage
<1>2. /\ Now /\ stack \in Seq(Frames) /\ tx \in Transactions
      /\ SavedBelow(tx.saved.ran, Snapshot, stack)
      /\ Typed(account, stack) /\ Stacked(stack) /\ Balanced(context, depth, stack)
      /\ NotHeld(escrow, stack) /\ Consumed(cursor, ran, stack)
  BY <1>1, RunningNow DEF Now
<1>3. PICK n, m, s : n = Len(stack) /\ m = n - 1 /\ s = SubSeq(stack, 1, m)
  OBVIOUS
<1>4. n \in Nat /\ n \in 1 .. n /\ m \in 0 .. Len(stack) /\ stack[n].todo = <<>>
  <2>1. n \in Nat /\ n # 0
    BY <1>1, <1>2, <1>3, EmptySeq, LenProperties
  <2>2. stack[n].todo = <<>>
    BY <1>1, <1>3 DEF Top
  <2> QED
    BY <1>3, <2>1, <2>2
<1>5. /\ s \in Seq(Frames) /\ Len(s) = m /\ DOMAIN s = 1 .. m /\ DOMAIN stack = 1 .. n
      /\ \A i \in 1 .. m : s[i] = stack[i]
  BY <1>2, <1>3, <1>4, PrefixFrames
<1>6. Stacked(s) /\ Balanced(context, depth, s) /\ Consumed(cursor, ran, s)
  BY <1>1, <1>2, <1>3, <1>4, PopStacked, PopBalanced, PopConsumed
<1>7. m <= MaxDepth /\ \A i \in 1 .. m : i \in 1 .. n
  BY <1>2, <1>3, <1>4, LimitsAssumption DEF Typed
<1>8. Typed(account, s) /\ NotHeld(escrow, s)
  BY <1>2, <1>5, <1>7 DEF Typed, NotHeld
<1>9. SavedBelow(tx.saved.ran, Snapshot, s)
  BY <1>2, <1>3, <1>4, SameReflexive, SavedPrefix
<1>10. stack' = s
  BY <1>1, <1>3
<1>11. Now'
  BY <1>1, <1>2, <1>6, <1>8, <1>10 DEF Now
<1>12. Snapshot' = Snapshot
  BY <1>1 DEF Snapshot
<1>13. SavedBelow(tx.saved.ran, Snapshot', stack') /\ NoShorter(ran, ran')
  BY <1>1, <1>2, <1>9, <1>10, <1>12, StillNoShorter
<1> QED
  BY <1>1, <1>2, <1>11, <1>13, Goes

LEMMA RestoreSnapshot ==
  ASSUME NEW sn \in Snapshots, Restore(sn)
  PROVE  Snapshot' = sn
  BY DEF Restore, Snapshot, Snapshots

(* An exception goes back to what was saved when the call it unwinds to was *)
(* made: storage as it was, and the stack below that call.                  *)
LEMMA ThrowKeeps ==
  ASSUME Running, Throw
  PROVE  Running'
<1>1. PICK i \in DOMAIN stack :
        /\ stack[i].saved # None /\ Restore(stack[i].saved)
        /\ stack' = SubSeq(stack, 1, i - 1)
  BY DEF Throw
<1>2. ~Idle /\ tx' = tx
  BY DEF Throw, Outside
<1>3. /\ stack \in Seq(Frames) /\ tx \in Transactions
      /\ SavedBelow(tx.saved.ran, Snapshot, stack)
      /\ Execution(tx.saved, <<>>)
  BY <1>2, RunningNow DEF Running
<1>4. PICK sn : sn = stack[i].saved
  OBVIOUS
<1>5. sn \in Snapshots /\ sn # None
  BY <1>1, <1>3, <1>4, LenProperties, ElementOfSeq, FrameFields
<1>6. /\ Execution(sn, SubSeq(stack, 1, i - 1))
      /\ NoShorter(tx.saved.ran, sn.ran)
      /\ i > 1 => SameAuthority(sn, Snapshot)
  BY <1>1, <1>3, <1>4 DEF SavedBelow
<1>7. Snapshot' = sn
  BY <1>1, <1>4, <1>5, RestoreSnapshot
<1>8. ran' = sn.ran
  BY <1>1, <1>4 DEF Restore
<1>9. PICK m : m = i - 1
  OBVIOUS
<1>10. m \in 0 .. Len(stack) /\ (m > 1 => i > 1)
  BY <1>3, <1>9, LenProperties
<1>11. SavedBelow(tx.saved.ran, sn, SubSeq(stack, 1, m))
  BY <1>3, <1>6, <1>10, SameSymmetric, SavedPrefix
<1>12. ~Idle' /\ tx' \in Transactions /\ tx'.saved = tx.saved
  BY <1>2, <1>3, NoneAssumption DEF Idle
<1>13. Execution(Snapshot', stack') /\ SavedBelow(tx.saved.ran, Snapshot', stack')
  BY <1>1, <1>6, <1>7, <1>9, <1>11
<1> QED
  BY <1>3, <1>6, <1>8, <1>12, <1>13 DEF Running

LEMMA BeginKeeps ==
  ASSUME Running, NEW witnesses \in SUBSET Owner, Begin(witnesses)
  PROVE  Running'
<1>1. /\ Idle /\ stack = <<>> /\ Execution(Snapshot, <<>>) /\ Snapshot \in Snapshots
  BY DEF Begin, Running, Execution
<1>2. /\ tx' = [witnesses |-> witnesses, calls |-> 0, saved |-> Snapshot]
      /\ stack' = stack /\ ran' = ran /\ Snapshot' = Snapshot
  BY DEF Begin, storage, Snapshot
<1>3. tx' \in Transactions /\ tx'.saved = Snapshot
  BY <1>1, <1>2 DEF Transactions
<1>4. ~Idle'
  BY <1>3, NoneAssumption DEF Idle
<1>5. Now
  BY <1>1, ExecutionNow
<1>6. NoShorter(tx'.saved.ran, ran')
  <2>1. Snapshot.ran = ran
    BY DEF Snapshot
  <2> QED
    BY <1>2, <1>3, <1>5, <2>1, StillNoShorter
<1>7. SavedBelow(tx'.saved.ran, Snapshot', stack')
  BY <1>1, <1>2, EmptySaved
<1> QED
  BY <1>1, <1>2, <1>3, <1>4, <1>6, <1>7 DEF Running

LEMMA EndsKeep ==
  ASSUME Running, Commit \/ Abort
  PROVE  Running'
<1>1. CASE Commit
  <2>1. stack = <<>> /\ stack' = stack /\ tx' = None /\ Snapshot' = Snapshot
    BY <1>1 DEF Commit, storage, Snapshot
  <2> QED
    BY <2>1 DEF Running, Idle
<1>2. CASE Abort
  <2>1. ~Idle /\ Restore(tx.saved) /\ stack' = <<>> /\ tx' = None
    BY <1>2 DEF Abort
  <2>2. tx.saved \in Snapshots /\ Execution(tx.saved, <<>>)
    BY <2>1 DEF Running, Transactions
  <2>3. PICK sn : sn = tx.saved
    OBVIOUS
  <2>4. Snapshot' = sn
    BY <2>1, <2>2, <2>3, RestoreSnapshot
  <2> QED
    BY <2>1, <2>2, <2>3, <2>4 DEF Running, Idle
<1> QED
  BY <1>1, <1>2

LEMMA StutterKeeps ==
  ASSUME Running, UNCHANGED vars
  PROVE  Running'
<1>1. Snapshot' = Snapshot /\ stack' = stack /\ tx' = tx /\ ran' = ran
  BY DEF vars, storage, Snapshot
<1> QED
  BY <1>1 DEF Running, Idle
-----------------------------------------------------------------------------
LEMMA InitRunning ==
  ASSUME Init
  PROVE  chain \in Chains /\ Running
<1>1. /\ chain \in Chains /\ account \in [Account -> AccountState \cup {None}]
  BY ChainsAssumption DEF Init
<1>2. /\ pending \in [Account -> [verifier: Verifier \cup {Zero, None},
                                  hook: Hook \cup {Zero, None}]]
      /\ escrow \in SUBSET Account /\ depth \in Nat /\ depth = 0
      /\ stack = <<>> /\ tx = None
      /\ \A a \in Account, f \in ContextField : context[a][f] = None
      /\ ContextType(context)
  BY DEF Init, ContextType
<1>3. /\ SeqTypes(cursor, ran)
      /\ \A a \in Account, c \in Channel : cursor[a][c] = 0 /\ ran[a][c] = <<>>
  <2>1. 0 \in 0 .. SeqLimit /\ <<>> \in Seq(0 .. SeqLimit - 1)
    BY LimitsAssumption, EmptySeq
  <2> QED
    BY <2>1 DEF Init, SeqTypes
<1>4. Typed(account, stack) /\ Stacked(stack) /\ NotHeld(escrow, stack)
  BY <1>2, EmptyParts
<1>5. Balanced(context, depth, stack)
  <2>1. Opened(context) = {}
    BY <1>2 DEF Opened
  <2>2. DOMAIN stack = {}
    BY <1>2, EmptyTyped
  <2> QED
    BY <1>2, <2>1, <2>2, FS_EmptySet DEF Balanced
<1>6. Consumed(cursor, ran, stack)
  <2>1. DOMAIN <<>> = {} /\ Len(<<>>) = 0
    BY EmptyTyped
  <2>2. Replay!InOrder(<<>>)
    BY <2>1 DEF Replay!InOrder
  <2> QED
    BY <1>2, <1>3, <2>1, <2>2 DEF Consumed, ConsumedAt
<1>7. Execution(Snapshot, stack)
  BY <1>1, <1>2, <1>3, <1>4, <1>5, <1>6, ExecutionNow DEF Now
<1> QED
  BY <1>1, <1>2, <1>7 DEF Running, Idle

LEMMA CallKeeps ==
  ASSUME Running, chain \in Chains, NEW a \in Registered, NEW caught \in BOOLEAN,
         \/ \E nonce \in Nonce, target \in Target : ExecuteUserOp(a, nonce, target, caught)
         \/ \E n \in 2 .. chain.batch : \E ops \in [1 .. n -> Nonce \X Target] :
              ExecuteUserOps(a, ops, caught)
         \/ Maintenance(a, caught)
  PROVE  Running'
<1>1. CASE \E nonce \in Nonce, target \in Target : ExecuteUserOp(a, nonce, target, caught)
  BY <1>1, ExecuteUserOpKeeps
<1>2. CASE \E n \in 2 .. chain.batch : \E ops \in [1 .. n -> Nonce \X Target] :
             ExecuteUserOps(a, ops, caught)
  <2>1. PICK n \in 2 .. chain.batch : \E ops \in [1 .. n -> Nonce \X Target] :
             ExecuteUserOps(a, ops, caught)
    BY <1>2
  <2>2. n \in Nat
    BY ChainsAssumption
  <2> QED
    BY <2>1, <2>2, ExecuteUserOpsKeeps
<1>3. CASE Maintenance(a, caught)
  BY <1>3, MaintenanceKeeps
<1> QED
  BY <1>1, <1>2, <1>3

LEMMA StepRunning ==
  ASSUME Running, chain \in Chains, [Next]_vars
  PROVE  Running' /\ chain' \in Chains
<1>1. chain' \in Chains
  BY DEF Next, vars
<1>2. CASE \E witnesses \in SUBSET Owner : Begin(witnesses)
  BY <1>1, <1>2, BeginKeeps
<1>3. CASE Commit \/ Abort
  BY <1>1, <1>3, EndsKeep
<1>4. CASE Throw
  BY <1>1, <1>4, ThrowKeeps
<1>5. CASE WalletStep
  BY <1>1, <1>5, SetContextKeeps, ClearContextKeeps, WriteStorageKeeps, ExecuteNextKeeps,
     WalletReturnsKeeps DEF WalletStep
<1>6. CASE ContractReturns
  BY <1>1, <1>6, ContractReturnsKeeps
<1>7. CASE \E a \in Registered, caught \in BOOLEAN :
             \/ \E nonce \in Nonce, target \in Target :
                  ExecuteUserOp(a, nonce, target, caught)
             \/ \E n \in 2 .. chain.batch : \E ops \in [1 .. n -> Nonce \X Target] :
                  ExecuteUserOps(a, ops, caught)
             \/ Maintenance(a, caught)
  BY <1>1, <1>7, CallKeeps
<1>8. CASE UNCHANGED vars
  BY <1>1, <1>8, StutterKeeps
<1> QED
  BY <1>2, <1>3, <1>4, <1>5, <1>6, <1>7, <1>8, Zenon DEF Next, Act

(* Whatever nested calls do, throw, catch or abort, storage, frames and     *)
(* snapshots keep agreeing.                                                 *)
THEOREM RunningAlways == Spec => [](Running /\ chain \in Chains)
<1>1. Init => Running /\ chain \in Chains
  BY InitRunning
<1>2. Running /\ chain \in Chains /\ [Next]_vars => (Running /\ chain \in Chains)'
  BY StepRunning
<1> QED
  BY <1>1, <1>2, PTL DEF Spec
-----------------------------------------------------------------------------
(* Contexts set and contexts that open frames will close are as many: each  *)
(* open frame's account and field name one of the others, and only one.     *)
OpenFrames(stk) ==
  {open \in (DOMAIN stk) \X ContextField : HasOpen(stk[open[1]], open[2])}

LEMMA OpenFramesCounted ==
  ASSUME NEW stk \in Seq(Frames), Stacked(stk), NEW con, NEW d, Balanced(con, d, stk)
  PROVE  Cardinality(OpenFrames(stk)) = d
<1> DEFINE S == OpenFrames(stk)
           T == Opened(con)
           g == [open \in S |-> <<stk[open[1]].account, open[2]>>]
<1>1. \A open : open \in S <=> \E i \in DOMAIN stk, f \in ContextField :
                                  open = <<i, f>> /\ HasOpen(stk[i], f)
  BY DEF OpenFrames
<1>2. \A i \in DOMAIN stk : stk[i].account \in Account
  BY FrameShape
<1>3. \A b \in Account, f \in ContextField :
        <<b, f>> \in T <=> \E i \in DOMAIN stk : stk[i].account = b /\ HasOpen(stk[i], f)
  <2>1. ASSUME NEW b \in Account, NEW f \in ContextField
        PROVE  <<b, f>> \in Opened(con)
                 <=> \E i \in DOMAIN stk : stk[i].account = b /\ HasOpen(stk[i], f)
    BY InOpened DEF Balanced
  <2> QED
    BY <2>1
<1>4. \A t \in T : \E b \in Account, f \in ContextField : t = <<b, f>>
  BY DEF Opened
<1>5. \A i \in DOMAIN stk, f \in ContextField : HasOpen(stk[i], f) =>
        <<i, f>> \in S /\ g[<<i, f>>] = <<stk[i].account, f>>
  BY <1>1
<1>6. g \in [S -> T]
  <2>1. ASSUME NEW open \in S PROVE g[open] \in T
    <3>1. PICK i \in DOMAIN stk, f \in ContextField : open = <<i, f>> /\ HasOpen(stk[i], f)
      BY <1>1
    <3>2. g[open] = <<stk[i].account, f>>
      BY <1>5, <3>1
    <3> QED
      BY <1>2, <1>3, <3>1, <3>2
  <2> HIDE DEF S, T
  <2> QED
    BY <2>1
<1>7. \A open, other \in S : g[open] = g[other] => open = other
  <2>1. ASSUME NEW open \in S, NEW other \in S, g[open] = g[other] PROVE open = other
    <3>1. PICK i \in DOMAIN stk, f \in ContextField : open = <<i, f>> /\ HasOpen(stk[i], f)
      BY <1>1
    <3>2. PICK j \in DOMAIN stk, e \in ContextField : other = <<j, e>> /\ HasOpen(stk[j], e)
      BY <1>1
    <3>3. g[open] = <<stk[i].account, f>> /\ g[other] = <<stk[j].account, e>>
      BY <1>5, <3>1, <3>2
    <3>4. stk[i].account = stk[j].account /\ f = e
      BY <2>1, <3>3
    <3>5. i = j
      BY <3>1, <3>2, <3>4 DEF Balanced
    <3> QED
      BY <3>1, <3>2, <3>4, <3>5
  <2> QED
    BY <2>1
<1>8. \A t \in T : \E open \in S : g[open] = t
  <2>1. ASSUME NEW t \in T PROVE \E open \in S : g[open] = t
    <3>1. PICK b \in Account, f \in ContextField : t = <<b, f>>
      BY <1>4
    <3>2. PICK i \in DOMAIN stk : stk[i].account = b /\ HasOpen(stk[i], f)
      BY <1>3, <3>1
    <3>3. <<i, f>> \in S /\ g[<<i, f>>] = t
      BY <1>5, <3>1, <3>2
    <3> QED
      BY <3>3
  <2> QED
    BY <2>1
<1> HIDE DEF g, S, T
<1>9. g \in Injection(S, T) /\ g \in Surjection(S, T)
  BY <1>6, <1>7, <1>8 DEF Injection, IsInjective, Surjection
<1>10. IsFiniteSet(T) /\ d = Cardinality(T)
  BY DEF Balanced, T
<1>11. Cardinality(S) = Cardinality(T)
  BY <1>9, <1>10, FS_Injection
<1> QED
  BY <1>10, <1>11 DEF S
-----------------------------------------------------------------------------
(* Safety *)

LEMMA RunningTypes ==
  ASSUME Running
  PROVE  ExecutionTypeOK
<1>1. Execution(Snapshot, stack) /\ (Idle => stack = <<>>)
  BY DEF Running
<1>2. Snapshot \in Snapshots /\ stack \in Seq(Frames) /\ Len(stack) <= MaxDepth
  BY <1>1 DEF Execution, Typed
<1>3. \A i \in DOMAIN stack : stack[i] \in Frames
  BY <1>2, LenProperties, ElementOfSeq
<1> QED
  BY <1>1, <1>2, <1>3, FrameFields DEF ExecutionTypeOK

LEMMA RunningBalanced ==
  ASSUME Running
  PROVE  ContextsBalanced
<1>1. stack \in Seq(Frames) /\ Stacked(stack) /\ Balanced(context, depth, stack)
  BY ExecutionNow DEF Running, Now, Typed
<1>2. Cardinality(OpenFrames(stack)) = depth
  BY <1>1, OpenFramesCounted
<1>3. /\ \A a \in Account, f \in ContextField : context[a][f] # None
           <=> \E i \in DOMAIN stack : stack[i].account = a /\ HasOpen(stack[i], f)
      /\ depth = Cardinality(Opened(context))
  BY <1>1 DEF Balanced
<1> QED
  BY <1>2, <1>3 DEF ContextsBalanced, Opened, OpenFrames

(* Nested, unwound and caught calls leave neither a partial record nor an   *)
(* open context behind.                                                     *)
THEOREM ContextsPair == Spec => []CallsPaired
<1>1. Running /\ chain \in Chains => CallsPaired
  BY RunningTypes, RunningBalanced DEF CallsPaired
<1> QED
  BY <1>1, RunningAlways, PTL

(* No operation runs on an account that a market holds.                     *)
THEOREM EscrowStops == Spec => []EscrowStopsExecution
<1>1. Running /\ chain \in Chains => EscrowStopsExecution
  BY ExecutionNow DEF Running, Now, NotHeld, EscrowStopsExecution
<1> QED
  BY <1>1, RunningAlways, PTL
-----------------------------------------------------------------------------
(* What a step may never do *)

LEMMA ValidatedAuthority ==
  ASSUME Running, ~Idle, NEW a \in Account, account[a] \in AccountState, NEW nonce,
         ValidateUserOp(a, nonce)
  PROVE  SameAuthority(Snapshot, Snapshot')
<1>1. account' = [account EXCEPT ![a] = [account[a] EXCEPT !.escaping = FALSE]]
      /\ pending' = pending /\ escrow' = escrow
  BY RunningNow DEF ValidateUserOp, Now
<1>2. PICK state : state = [account[a] EXCEPT !.escaping = FALSE]
  OBVIOUS
<1>3. /\ state \in AccountState /\ state.verifier = account[a].verifier
      /\ state.hook = account[a].hook /\ state.backupOwner = account[a].backupOwner
  BY <1>2 DEF AccountState
<1>4. account'[a] = state /\ \A b \in Account : b # a => account'[b] = account[b]
  BY <1>1, <1>2, RunningNow DEF Now
<1>5. \A b \in Account :
        \/ account[b] = account'[b]
        \/ /\ account[b] \in AccountState /\ account'[b] \in AccountState
           /\ account[b].verifier = account'[b].verifier
           /\ account[b].hook = account'[b].hook
           /\ account[b].backupOwner = account'[b].backupOwner
  BY <1>3, <1>4
<1> QED
  BY <1>1, <1>5 DEF SameAuthority, Snapshot

(* A call changes an authority only if no call is in progress.              *)
LEMMA CallAuthority ==
  ASSUME Running, chain \in Chains, NEW a \in Registered, NEW caught \in BOOLEAN,
         \/ \E nonce \in Nonce, target \in Target : ExecuteUserOp(a, nonce, target, caught)
         \/ \E n \in 2 .. chain.batch : \E ops \in [1 .. n -> Nonce \X Target] :
              ExecuteUserOps(a, ops, caught)
         \/ Maintenance(a, caught)
  PROVE  stack = <<>> \/ SameAuthority(Snapshot, Snapshot')
<1>1. CASE \E nonce \in Nonce, target \in Target : ExecuteUserOp(a, nonce, target, caught)
  <2>1. PICK nonce \in Nonce, target \in Target : ExecuteUserOp(a, nonce, target, caught)
    BY <1>1
  <2>2. ~Idle /\ ValidateUserOp(a, nonce)
    BY <2>1 DEF ExecuteUserOp, Room, Outside
  <2>3. a \in Account /\ account[a] \in AccountState
    BY <2>2, MaintainedAccount DEF Maintained
  <2> QED
    BY <2>2, <2>3, ValidatedAuthority
<1>2. CASE \E n \in 2 .. chain.batch : \E ops \in [1 .. n -> Nonce \X Target] :
             ExecuteUserOps(a, ops, caught)
  BY <1>2, UnchangedAuthority DEF ExecuteUserOps, storage
<1>3. CASE Maintenance(a, caught)
  <2>1. CASE DirectCall(a)
    BY <2>1, DirectCallKeeps
  <2>2. CASE \E todo : Maintain(a, todo, caught)
    BY <2>2, UnchangedAuthority DEF Maintain, storage
  <2>3. a \in Account
    BY DEF Registered
  <2>4. \/ DirectCall(a)
        \/ \E v \in Verifier \cup {Zero}, params \in BOOLEAN :
             InstallVerifier(a, v, params, caught) \/ FinalizeEscape(a, v, params, caught)
        \/ \E params \in BOOLEAN : ConfirmVerifierUpdate(a, params, caught)
        \/ ConfirmHookUpdate(a, caught)
        \/ \E field \in {"verifierConfig", "hookConfig"}, m \in Verifier \cup Hook :
             CallPlugin(a, field, m, caught)
        \/ \E o \in Owner : SettleMarketEscrow(a, o, caught)
    BY <1>3, <2>3, MaintenanceCases
  <2> QED
    BY <2>1, <2>2, <2>4
    DEF InstallVerifier, FinalizeEscape, ConfirmVerifierUpdate, ConfirmHookUpdate,
        CallPlugin, SettleMarketEscrow
<1> QED
  BY <1>1, <1>2, <1>3

LEMMA WalletAuthority ==
  ASSUME Running, WalletStep \/ ContractReturns
  PROVE  \/ SameAuthority(Snapshot, Snapshot')
         \/ Len(stack) = 1 /\ ~IsUserOp(Top) /\ ~Calling(Top)
<1>1. CASE SetContext \/ ClearContext \/ WalletReturns \/ ContractReturns
  BY <1>1, UnchangedAuthority
  DEF SetContext, ClearContext, WalletReturns, ContractReturns, storage
<1>2. CASE WriteStorage
  <2>1. PICK kind \in {"store", "forget", "release"} : Doing(kind)
    BY <1>2 DEF WriteStorage
  <2> QED
    BY <2>1, WriterAlone
<1>3. CASE ExecuteNext
  <2>1. Doing("execute") /\ ValidateUserOp(Top.account, Head(Top.todo).nonce)
    BY <1>3 DEF ExecuteNext
  <2>2. ~Idle /\ Top.account \in Account /\ account[Top.account] \in AccountState
    BY <2>1, DoingMoves
  <2>3. PICK a, nonce : a = Top.account /\ nonce = Head(Top.todo).nonce
    OBVIOUS
  <2> QED
    BY <2>1, <2>2, <2>3, ValidatedAuthority
<1> QED
  BY <1>1, <1>2, <1>3 DEF WalletStep

LEMMA ThrowAuthority ==
  ASSUME Running, Throw, NEW i \in DOMAIN stack, i <= Len(stack')
  PROVE  SameAuthority(Snapshot, Snapshot')
<1>1. PICK k \in DOMAIN stack :
        /\ stack[k].saved # None /\ Restore(stack[k].saved)
        /\ stack' = SubSeq(stack, 1, k - 1)
  BY DEF Throw
<1>2. /\ stack \in Seq(Frames) /\ SavedBelow(tx.saved.ran, Snapshot, stack)
  BY RunningNow DEF Throw, Outside
<1>3. PICK n, m : n = Len(stack) /\ m = k - 1
  OBVIOUS
<1>4. n \in Nat /\ DOMAIN stack = 1 .. n
  BY <1>2, <1>3, LenProperties
<1>5. m \in 0 .. Len(stack)
  BY <1>3, <1>4
<1>6. Len(stack') = m
  BY <1>1, <1>2, <1>3, <1>5, PrefixFrames
<1>7. k > 1
  BY <1>3, <1>4, <1>6
<1>8. stack[k].saved \in Snapshots
  BY <1>1, <1>2, LenProperties, ElementOfSeq, FrameFields
<1>9. PICK sn : sn = stack[k].saved
  OBVIOUS
<1>10. Snapshot' = sn
  BY <1>1, <1>8, <1>9, RestoreSnapshot
<1>11. SameAuthority(sn, Snapshot)
  BY <1>1, <1>2, <1>7, <1>9 DEF SavedBelow
<1> QED
  BY <1>10, <1>11, SameSymmetric

LEMMA AuthorityOf ==
  ASSUME SameAuthority(Snapshot, Snapshot'), NEW a \in Registered
  PROVE  Authority(a)' = Authority(a)
<1>1. /\ a \in Account /\ pending' = pending /\ escrow' = escrow
      /\ \/ account'[a] = account[a]
         \/ /\ account[a].verifier = account'[a].verifier
            /\ account[a].hook = account'[a].hook
            /\ account[a].backupOwner = account'[a].backupOwner
  BY DEF SameAuthority, Snapshot, Registered
<1> QED
  BY <1>1 DEF Authority

LEMMA StillStep ==
  ASSUME Running, chain \in Chains, [Next]_vars,
         NEW i \in DOMAIN stack, IsUserOp(stack[i]) \/ Calling(stack[i]), i <= Len(stack')
  PROVE  SameAuthority(Snapshot, Snapshot')
<1>1. ~Idle /\ stack # <<>> /\ stack \in Seq(Frames)
  BY EmptyTyped, RunningNow DEF Running
<1>2. PICK n : n = Len(stack)
  OBVIOUS
<1>3. n \in Nat /\ i \in 1 .. n /\ i \in Nat
  BY <1>1, <1>2, LenProperties
<1>4. CASE \E witnesses \in SUBSET Owner : Begin(witnesses)
  BY <1>1, <1>4 DEF Begin
<1>5. CASE Commit
  BY <1>1, <1>5 DEF Commit
<1>6. CASE Abort
  <2>1. Len(stack') = 0
    BY <1>6, EmptyTyped DEF Abort
  <2> QED
    BY <1>3, <2>1
<1>7. CASE Throw
  BY <1>7, ThrowAuthority
<1>8. CASE WalletStep \/ ContractReturns
  <2>1. CASE Len(stack) = 1 /\ ~IsUserOp(Top) /\ ~Calling(Top)
    <3>1. stack[i] = Top
      BY <1>2, <1>3, <2>1 DEF Top
    <3> QED
      BY <2>1, <3>1
  <2> QED
    BY <1>8, <2>1, WalletAuthority
<1>9. CASE \E a \in Registered, caught \in BOOLEAN :
             \/ \E nonce \in Nonce, target \in Target :
                  ExecuteUserOp(a, nonce, target, caught)
             \/ \E m \in 2 .. chain.batch : \E ops \in [1 .. m -> Nonce \X Target] :
                  ExecuteUserOps(a, ops, caught)
             \/ Maintenance(a, caught)
  BY <1>1, <1>9, CallAuthority
<1>10. CASE UNCHANGED vars
  BY <1>10, UnchangedAuthority DEF vars, storage
<1> QED
  BY <1>4, <1>5, <1>6, <1>7, <1>8, <1>9, <1>10, Zenon DEF Next, Act

(* Code that the wallet calls changes nobody's owner, plugins, staged       *)
(* replacements or escrow, whatever it calls, throws or catches.            *)
THEOREM AuthorityStill == Spec => AuthorityStillDuringCalls
<1>1. Running /\ chain \in Chains /\ [Next]_vars =>
        \A i \in DOMAIN stack :
          /\ IsUserOp(stack[i]) \/ Calling(stack[i])
          /\ i <= Len(stack')
          => \A a \in Registered : Authority(a)' = Authority(a)
  BY StillStep, AuthorityOf
<1> QED
  BY <1>1, RunningAlways, PTL DEF Spec, AuthorityStillDuringCalls
-----------------------------------------------------------------------------
(* Refinement *)

LEMMA ExecutedStep ==
  ASSUME Running, chain \in Chains, [Next]_vars
  PROVE  \/ Commit
         \/ Idle' /\ ran' = Executed
         \/ ~Idle' /\ tx'.saved.ran = Executed
<1>1. CASE \E witnesses \in SUBSET Owner : Begin(witnesses)
  <2>1. PICK witnesses \in SUBSET Owner : Begin(witnesses)
    BY <1>1
  <2>2. Idle /\ tx' = [witnesses |-> witnesses, calls |-> 0, saved |-> Snapshot]
    BY <2>1 DEF Begin
  <2>3. Snapshot \in Snapshots /\ Snapshot.ran = ran
    BY DEF Running, Execution, Snapshot
  <2>4. tx' \in Transactions /\ tx'.saved.ran = ran
    BY <2>2, <2>3 DEF Transactions
  <2> QED
    BY <2>2, <2>4, NoneAssumption DEF Idle, Executed
<1>2. CASE Abort
  BY <1>2 DEF Abort, Restore, Idle, Executed
<1>3. CASE Throw \/ WalletStep \/ ContractReturns
  <2>1. tx' = tx /\ ~Idle
    BY <1>3 DEF Throw, Outside, WalletStep, ContractReturns, SetContext, ClearContext,
                WriteStorage, ExecuteNext, WalletReturns, Doing
  <2> QED
    BY <2>1 DEF Idle, Executed
<1>4. CASE ~Idle /\ Count
  <2>1. tx \in Transactions
    BY <1>4, RunningNow
  <2>2. tx' \in Transactions /\ tx'.saved = tx.saved
    BY <1>4, <2>1, CountedOn
  <2> QED
    BY <1>4, <2>2, NoneAssumption DEF Idle, Executed
<1>5. CASE \E a \in Registered, caught \in BOOLEAN :
             \/ \E nonce \in Nonce, target \in Target :
                  ExecuteUserOp(a, nonce, target, caught)
             \/ \E n \in 2 .. chain.batch : \E ops \in [1 .. n -> Nonce \X Target] :
                  ExecuteUserOps(a, ops, caught)
             \/ Maintenance(a, caught)
  <2>1. PICK a \in Registered, caught \in BOOLEAN :
          \/ \E nonce \in Nonce, target \in Target :
               ExecuteUserOp(a, nonce, target, caught)
          \/ \E n \in 2 .. chain.batch : \E ops \in [1 .. n -> Nonce \X Target] :
               ExecuteUserOps(a, ops, caught)
          \/ Maintenance(a, caught)
    BY <1>5
  <2>2. ASSUME Maintenance(a, caught) PROVE Count /\ Room
    BY <2>2
    DEF Maintenance, InstallVerifier, FinalizeEscape, InstallHook, StageUpdate,
        ConfirmVerifierUpdate, ConfirmHookUpdate, CallPlugin, InitiateEscape,
        EnterMarketEscrow, CancelMarketEscrow, SettleMarketEscrow, Maintain,
        OwnerConfigures
  <2>3. Count /\ Room
    BY <2>1, <2>2 DEF ExecuteUserOp, ExecuteUserOps
  <2> QED
    BY <1>4, <2>3 DEF Room, Outside
<1>6. CASE UNCHANGED vars
  BY <1>6 DEF vars, storage, Idle, Executed
<1> QED
  BY <1>1, <1>2, <1>3, <1>5, <1>6, Zenon DEF Next, Act

LEMMA InOrderPrefix ==
  ASSUME NEW old \in Seq(0 .. SeqLimit - 1), NEW new \in Seq(0 .. SeqLimit - 1),
         Replay!InOrder(old), Replay!InOrder(new), Len(old) <= Len(new)
  PROVE  Len(new) >= Len(old) /\ SubSeq(new, 1, Len(old)) = old
<1>1. PICK n, m : n = Len(old) /\ m = Len(new)
  OBVIOUS
<1>2. n \in Nat /\ m \in Nat /\ n <= m /\ DOMAIN old = 1 .. n /\ DOMAIN new = 1 .. m
  BY <1>1, LenProperties
<1>3. \A i \in 1 .. n : i \in 1 .. m /\ old[i] = i - 1 /\ new[i] = i - 1
  BY <1>2, SMTT(30) DEF Replay!InOrder
<1>4. /\ SubSeq(new, 1, n) \in Seq(0 .. SeqLimit - 1) /\ Len(SubSeq(new, 1, n)) = n
      /\ \A i \in 1 .. n : SubSeq(new, 1, n)[i] = new[i]
  <2>2. \A i \in 1 .. n : new[i] \in 0 .. SeqLimit - 1
    BY <1>1, <1>2, <1>3, ElementOfSeq
  <2>3. /\ SubSeq(new, 1, n) \in Seq(0 .. SeqLimit - 1)
        /\ Len(SubSeq(new, 1, n)) = IF 1 <= n THEN n - 1 + 1 ELSE 0
        /\ \A i \in 1 .. n - 1 + 1 : SubSeq(new, 1, n)[i] = new[1 + i - 1]
    BY <1>2, <2>2, SubSeqProperties
  <2>4. n - 1 + 1 = n /\ (IF 1 <= n THEN n - 1 + 1 ELSE 0) = n
        /\ \A i \in 1 .. n : 1 + i - 1 = i
    BY <1>2
  <2> QED
    BY <2>3, <2>4
<1> QED
  BY <1>1, <1>2, <1>3, <1>4, SeqEqual

LEMMA CommitExecutes ==
  ASSUME Running, Commit
  PROVE  Replay!Transaction
<1>1. ~Idle /\ stack = <<>> /\ Idle' /\ ran' = ran
  BY DEF Commit, Idle, storage
<1>2. /\ Now /\ tx \in Transactions /\ NoShorter(tx.saved.ran, ran)
      /\ Execution(tx.saved, <<>>)
  BY <1>1, RunningNow DEF Running
<1>3. Executed = tx.saved.ran /\ Executed' = ran
  BY <1>1 DEF Executed
<1>4. ASSUME NEW a \in Account, NEW c \in Channel
      PROVE  /\ Len(ran[a][c]) >= Len(tx.saved.ran[a][c])
             /\ SubSeq(ran[a][c], 1, Len(tx.saved.ran[a][c])) = tx.saved.ran[a][c]
             /\ Replay!InOrder(ran[a][c])
  <2>1. PICK old, new : old = tx.saved.ran[a][c] /\ new = ran[a][c]
    OBVIOUS
  <2>2. old \in Seq(0 .. SeqLimit - 1) /\ new \in Seq(0 .. SeqLimit - 1)
    BY <1>2, <2>1 DEF Transactions, Snapshots, Now, SeqTypes
  <2>3. Replay!InOrder(old) /\ Replay!InOrder(new)
    BY <1>2, <2>1 DEF Execution, Now, Consumed, ConsumedAt
  <2>4. Len(old) <= Len(new)
    BY <1>2, <2>1 DEF NoShorter
  <2> QED
    BY <2>1, <2>2, <2>3, <2>4, InOrderPrefix
<1> QED
  BY <1>3, <1>4 DEF Replay!Transaction

(* The wallet implements ReplayProtection: nested calls, exceptions caught  *)
(* and uncaught, and a channel at its limit never run an operation twice or *)
(* out of the order of its channel.                                         *)
THEOREM ExecutedInOrder == Spec => ImplementsReplayProtection
<1>1. Init => Replay!Init
  BY DEF Init, Replay!Init, Executed, Idle
<1>2. Running /\ chain \in Chains /\ [Next]_vars => [Replay!Transaction]_Executed
  BY ExecutedStep, CommitExecutes DEF Executed
<1> QED
  BY <1>1, <1>2, RunningAlways, PTL DEF Spec, ImplementsReplayProtection, Replay!Spec
=============================================================================
