-------------------------- MODULE BlinkLightProofs ---------------------------
(***************************************************************************)
(* For any number of background threads, timers and nested calls: two      *)
(* threads never use the HID manager at once, isHere ends up right, dark   *)
(* stays dark, and `timer` is the one live timer while no setPulse races.  *)
(*                                                                         *)
(* The recursive lock has to be held as often as its owner has calls that  *)
(* list or open devices.  That count needs no counting: on the main thread *)
(* every call but the innermost is one of them, for only there the run     *)
(* loop dispatches the next call, and on a background thread at most the   *)
(* innermost is, for it calls one thing at a time.                         *)
(*                                                                         *)
(* A makeMenus that waits in the run loop of a call changes none of this:  *)
(* it only keeps that call.                                                *)
(***************************************************************************)
EXTENDS BlinkLight, StackLemmas, FiniteSetTheorems

Held == {"listing", "opening"}

\* What only other threads call.
Foreign(t) == IF t = Main THEN "enable" ELSE "enumerate"

\* What the stack s of thread t may look like.
Shaped(t, s) ==
  /\ s \in Seq(Frame)
  /\ \A i \in 1..(Len(s) - 1) : s[i].at \in Held <=> t = Main
  /\ \A i \in 1..Len(s) : s[i].call # Foreign(t)

\* How often t holds the lock, then.
Depth(t, s) ==
  IF t = Main
  THEN IF s # <<>> /\ Last(s).at \notin Held THEN Len(s) - 1 ELSE Len(s)
  ELSE IF s # <<>> /\ Last(s).at \in Held THEN 1 ELSE 0

\* The colours of the ivar.
ColourInv == currentColor \in Colours

LockInv ==
  /\ stack = [t \in Threads |-> stack[t]]
  /\ lock \in [owner : Threads, held : Nat]
  /\ \A t \in Threads :
       /\ Shaped(t, stack[t])
       /\ Depth(t, stack[t]) = IF t = lock.owner THEN lock.held ELSE 0
  /\ BackReady
-----------------------------------------------------------------------------
(***************************************************************************)
(* Stacks.                                                                 *)
(***************************************************************************)
\* A call goes on, or calls another thing in its place.
LEMMA ReplaceTop ==
  ASSUME NEW s \in Seq(Frame), s # <<>>, NEW f \in Frame
  PROVE  /\ Append(Front(s), f) \in Seq(Frame)
         /\ Len(Append(Front(s), f)) = Len(s) /\ Len(s) \in Nat \ {0}
         /\ Append(Front(s), f) # <<>>
         /\ Last(Append(Front(s), f)) = f
         /\ Append(Front(s), f)[Len(s)] = f
         /\ \A i \in 1..(Len(s) - 1) : Append(Front(s), f)[i] = s[i]
<1>1. /\ Len(s) \in Nat \ {0} /\ Front(s) \in Seq(Frame)
      /\ Len(Front(s)) = Len(s) - 1
      /\ \A i \in 1..(Len(s) - 1) : Front(s)[i] = s[i]
  BY FrontAndLast
<1> DEFINE fr == Front(s)
<1>2. /\ fr \in Seq(Frame) /\ Len(fr) = Len(s) - 1
      /\ \A i \in 1..(Len(s) - 1) : fr[i] = s[i]
  BY <1>1
<1> HIDE DEF fr
<1>3. /\ Append(fr, f) \in Seq(Frame) /\ Len(Append(fr, f)) = Len(fr) + 1
      /\ Append(fr, f)[Len(fr) + 1] = f
      /\ \A i \in 1..Len(fr) : Append(fr, f)[i] = fr[i]
  BY <1>2, AppendProperties
<1>4. Len(Append(fr, f)) = Len(s) /\ Append(fr, f)[Len(s)] = f
  BY <1>1, <1>2, <1>3
<1>5. Append(fr, f) # <<>>
  BY <1>1, <1>3, <1>4, EmptySeq
<1>6. Last(Append(fr, f)) = f
  BY <1>4 DEF Last
<1> QED BY <1>1, <1>2, <1>3, <1>4, <1>5, <1>6 DEF fr

LEMMA ReplaceDepth ==
  ASSUME NEW t \in Threads, NEW s, Shaped(t, s), s # <<>>,
         NEW f \in Frame, f.call # Foreign(t)
  PROVE  /\ Shaped(t, Append(Front(s), f))
         /\ (Last(s).at \in Held <=> f.at \in Held) =>
              Depth(t, Append(Front(s), f)) = Depth(t, s)
         /\ Last(s).at \notin Held /\ f.at \in Held =>
              Depth(t, Append(Front(s), f)) = Depth(t, s) + 1
         /\ Last(s).at \in Held /\ f.at \notin Held =>
              Depth(t, Append(Front(s), f)) = Depth(t, s) - 1
<1> DEFINE n == Append(Front(s), f)
<1>1. s \in Seq(Frame)
  BY DEF Shaped
<1>2. /\ n \in Seq(Frame) /\ Len(n) = Len(s) /\ Len(s) \in Nat \ {0}
      /\ n # <<>> /\ Last(n) = f /\ n[Len(s)] = f
      /\ \A i \in 1..(Len(s) - 1) : n[i] = s[i]
  BY <1>1, ReplaceTop
<1> HIDE DEF n
<1>3. Shaped(t, n)
  BY <1>2 DEF Shaped
<1> QED BY <1>2, <1>3 DEF Depth, n

\* A call returns.
LEMMA PopDepth ==
  ASSUME NEW t \in Threads, NEW s, Shaped(t, s), s # <<>>
  PROVE  /\ Shaped(t, Front(s))
         /\ Last(s).at \notin Held => Depth(t, Front(s)) = Depth(t, s)
         /\ Last(s).at \in Held => Depth(t, Front(s)) = Depth(t, s) - 1
<1> DEFINE n == Front(s)
<1>1. s \in Seq(Frame)
  BY DEF Shaped
<1>2. /\ n \in Seq(Frame) /\ Len(n) = Len(s) - 1 /\ Len(s) \in Nat \ {0}
      /\ \A i \in 1..(Len(s) - 1) : n[i] = s[i]
  BY <1>1, FrontAndLast
<1> HIDE DEF n
<1>3. n = <<>> <=> Len(n) = 0
  BY <1>2, EmptySeq
<1>4. ASSUME n # <<>>
      PROVE  Last(n) = s[Len(s) - 1] /\ Len(s) - 1 \in 1..(Len(s) - 1)
  BY <1>2, <1>3, <1>4 DEF Last
<1>5. Shaped(t, n)
  BY <1>2 DEF Shaped
<1>6. n # <<>> => (Last(n).at \in Held <=> t = Main)
  BY <1>4 DEF Shaped
<1> QED BY <1>2, <1>3, <1>5, <1>6 DEF Depth, n

\* The main run loop dispatches a call.
LEMMA PushDepth ==
  ASSUME NEW s, Shaped(Main, s), s = <<>> \/ Last(s).at \in Held,
         NEW f \in Frame, f.at \notin Held, f.call # Foreign(Main)
  PROVE  /\ Shaped(Main, Append(s, f))
         /\ Depth(Main, Append(s, f)) = Depth(Main, s)
<1> DEFINE n == Append(s, f)
<1>1. s \in Seq(Frame)
  BY DEF Shaped
<1>2. /\ n \in Seq(Frame) /\ Len(n) = Len(s) + 1 /\ Len(s) \in Nat
      /\ n[Len(s) + 1] = f /\ \A i \in 1..Len(s) : n[i] = s[i]
  BY <1>1, AppendProperties, LenProperties
<1> HIDE DEF n
<1>3. n # <<>> /\ Last(n) = f /\ (s = <<>> <=> Len(s) = 0)
  BY <1>1, <1>2, EmptySeq DEF Last
<1>4. \A i \in 1..Len(s) : s[i].at \in Held
  BY <1>1, <1>2, <1>3 DEF Shaped, Last
<1>5. Shaped(Main, n)
  BY <1>2, <1>4 DEF Shaped
<1> QED BY <1>2, <1>3, <1>5 DEF Depth, n

\* Whom the lock belongs to.
LEMMA Owns ==
  ASSUME LockInv, NEW t \in Threads, stack[t] # <<>>, Last(stack[t]).at \in Held
  PROVE  t = lock.owner /\ lock.held > 0
<1>1. Shaped(t, stack[t]) /\ stack[t] \in Seq(Frame)
  BY DEF LockInv, Shaped
<1>2. Len(stack[t]) \in Nat \ {0}
  BY <1>1, FrontAndLast
<1>3. Depth(t, stack[t]) > 0
  BY <1>2 DEF Depth
<1> QED BY <1>3 DEF LockInv
-----------------------------------------------------------------------------
(***************************************************************************)
(* The lock.                                                               *)
(***************************************************************************)
LEMMA LockInit == Init => LockInv
<1> SUFFICES ASSUME Init PROVE LockInv
  OBVIOUS
<1>1. \A t \in Threads : stack[t] = <<>>
  BY DEF Init
<1>2. <<>> \in Seq(Frame) /\ Len(<<>>) = 0
  BY EmptySeq
<1>3. \A t \in Threads : Shaped(t, <<>>) /\ Depth(t, <<>>) = 0
  <2> DEFINE e == <<>>
  <2>1. e \in Seq(Frame) /\ Len(e) = 0 /\ e = <<>>
    BY <1>2
  <2> HIDE DEF e
  <2>2. \A t \in Threads : Shaped(t, e)
    BY <2>1 DEF Shaped
  <2>3. \A t \in Threads : Depth(t, e) = 0
    BY <2>1 DEF Depth
  <2> QED BY <2>1, <2>2, <2>3
<1> QED BY <1>1, <1>3 DEF Init, LockInv, BackReady, Pending, Busy, Threads

\* A thread changes its own stack and takes, frees or leaves the lock to match.
LEMMA OneThread ==
  ASSUME LockInv, NEW t \in Threads, NEW s, Shaped(t, s),
         stack' = [stack EXCEPT ![t] = s],
         \/ /\ Depth(t, s) = Depth(t, stack[t])
            /\ lock' = lock /\ hidMgr' = hidMgr
         \/ /\ Depth(t, s) = Depth(t, stack[t]) + 1
            /\ Acquire(t) /\ hidMgr' = TRUE
         \/ /\ Depth(t, s) = Depth(t, stack[t]) - 1
            /\ Depth(t, stack[t]) > 0
            /\ Release(t) /\ hidMgr' \in {hidMgr, FALSE}
  PROVE  LockInv'
<1>1. /\ stack' = [u \in Threads |-> stack'[u]] /\ stack'[t] = s
      /\ \A u \in Threads \ {t} : stack'[u] = stack[u]
  BY DEF LockInv
<1>2. /\ lock \in [owner : Threads, held : Nat]
      /\ \A u \in Threads :
           Depth(u, stack[u]) = IF u = lock.owner THEN lock.held ELSE 0
  BY DEF LockInv
<1>3. /\ lock' \in [owner : Threads, held : Nat]
      /\ \A u \in Threads :
           Depth(u, stack'[u]) = IF u = lock'.owner THEN lock'.held ELSE 0
  <2>1. CASE Depth(t, s) = Depth(t, stack[t]) /\ lock' = lock
    BY <1>1, <1>2, <2>1
  <2>2. CASE Depth(t, s) = Depth(t, stack[t]) + 1 /\ Acquire(t)
    <3>1. lock' = [owner |-> t, held |-> lock.held + 1]
          /\ (lock.held = 0 \/ lock.owner = t)
      BY <2>2 DEF Acquire
    <3> QED BY <1>1, <1>2, <2>2, <3>1
  <2>3. CASE /\ Depth(t, s) = Depth(t, stack[t]) - 1
             /\ Depth(t, stack[t]) > 0 /\ Release(t)
    <3>1. lock.owner = t /\ lock.held > 0
      BY <1>2, <2>3
    <3>2. lock' \in [owner : Threads, held : Nat]
          /\ lock'.owner = t /\ lock'.held = lock.held - 1
      BY <1>2, <2>3, <3>1 DEF Release
    <3> QED BY <1>1, <1>2, <2>3, <3>1, <3>2
  <2> QED BY <2>1, <2>2, <2>3
<1>4. \A u \in Threads : Shaped(u, stack'[u])
  BY <1>1 DEF LockInv
<1>5. \A b \in Backs : b \in Threads /\ b # Main
  BY BlinkAssumption DEF Threads
<1>6. \A b \in Backs : /\ Pending(b) <=> Depth(b, stack[b]) = 1
                       /\ Pending(b)' <=> Depth(b, stack'[b]) = 1
  BY <1>5 DEF Pending, Busy, Top, Depth, Held
<1>7. BackReady'
  <2> SUFFICES ASSUME NEW b \in Backs, Pending(b)' PROVE hidMgr'
    BY DEF BackReady
  <2>1. Depth(b, stack'[b]) = 1 /\ b \in Threads
    BY <1>5, <1>6
  <2>2. CASE Depth(t, s) = Depth(t, stack[t]) /\ hidMgr' = hidMgr
    <3>1. Depth(b, stack[b]) = 1
      BY <1>1, <2>1, <2>2
    <3> QED BY <1>6, <2>2, <3>1 DEF LockInv, BackReady
  <2>3. CASE hidMgr' = TRUE
    BY <2>3
  <2>4. CASE /\ Depth(t, s) = Depth(t, stack[t]) - 1
             /\ Depth(t, stack[t]) > 0 /\ Release(t)
    <3>1. lock.owner = t
      BY <1>2, <2>4
    <3>2. b # t => Depth(b, stack'[b]) = 0
      BY <1>1, <1>2, <2>1, <3>1
    <3>3. b = t => Depth(b, stack[b]) = 2
      BY <1>1, <2>1, <2>4, <1>2
    <3>4. Depth(b, stack[b]) \in {0, 1}
      BY <1>5 DEF Depth
    <3> QED BY <2>1, <3>2, <3>3, <3>4
  <2> QED BY <2>2, <2>3, <2>4
<1> QED BY <1>1, <1>3, <1>4, <1>7 DEF LockInv

\* The steps of a thread, by what they do to the innermost call.
LEMMA CallChanges ==
  ASSUME LockInv, NEW t \in Threads, Busy(t), NEW f \in Frame,
         f.call # Foreign(t), Becomes(t, f),
         \/ /\ Top(t).at \in Held <=> f.at \in Held
            /\ lock' = lock /\ hidMgr' = hidMgr
         \/ /\ Top(t).at \notin Held /\ f.at \in Held
            /\ Acquire(t) /\ hidMgr' = TRUE
         \/ /\ Top(t).at \in Held /\ f.at \notin Held
            /\ Release(t) /\ hidMgr' \in {hidMgr, FALSE}
  PROVE  LockInv'
<1> DEFINE s == Append(Front(stack[t]), f)
<1>1. /\ Shaped(t, stack[t]) /\ stack[t] # <<>>
      /\ stack' = [stack EXCEPT ![t] = s]
  BY DEF LockInv, Busy, Becomes
<1>2. /\ Shaped(t, s)
      /\ (Top(t).at \in Held <=> f.at \in Held) => Depth(t, s) = Depth(t, stack[t])
      /\ Top(t).at \notin Held /\ f.at \in Held => Depth(t, s) = Depth(t, stack[t]) + 1
      /\ Top(t).at \in Held /\ f.at \notin Held => Depth(t, s) = Depth(t, stack[t]) - 1
  BY <1>1, ReplaceDepth DEF Top
<1>3. Top(t).at \in Held => Depth(t, stack[t]) > 0
  <2> SUFFICES ASSUME Top(t).at \in Held PROVE Depth(t, stack[t]) > 0
    OBVIOUS
  <2>1. t = lock.owner /\ lock.held > 0
    BY <1>1, Owns DEF Top
  <2> QED BY <2>1 DEF LockInv
<1> HIDE DEF s
<1> QED BY <1>1, <1>2, <1>3, OneThread

LEMMA CallEnds ==
  ASSUME LockInv, NEW t \in Threads, Busy(t), Ends(t), hidMgr' = hidMgr,
         \/ Top(t).at \notin Held /\ lock' = lock
         \/ Top(t).at \in Held /\ Release(t)
  PROVE  LockInv'
<1> DEFINE s == Front(stack[t])
<1>1. /\ Shaped(t, stack[t]) /\ stack[t] # <<>>
      /\ stack' = [stack EXCEPT ![t] = s]
  BY DEF LockInv, Busy, Ends
<1>2. /\ Shaped(t, s)
      /\ Top(t).at \notin Held => Depth(t, s) = Depth(t, stack[t])
      /\ Top(t).at \in Held => Depth(t, s) = Depth(t, stack[t]) - 1
  BY <1>1, PopDepth DEF Top
<1>3. Top(t).at \in Held => Depth(t, stack[t]) > 0
  <2> SUFFICES ASSUME Top(t).at \in Held PROVE Depth(t, stack[t]) > 0
    OBVIOUS
  <2>1. t = lock.owner /\ lock.held > 0
    BY <1>1, Owns DEF Top
  <2> QED BY <2>1 DEF LockInv
<1> HIDE DEF s
<1> QED BY <1>1, <1>2, <1>3, OneThread

LEMMA MainDispatches ==
  ASSUME LockInv, Dispatching, NEW f \in Frame, f.at \notin Held, f.call # Foreign(Main),
         Enter(Main, f), lock' = lock, hidMgr' = hidMgr
  PROVE  LockInv'
<1> DEFINE s == Append(stack[Main], f)
<1>1. /\ Main \in Threads /\ Shaped(Main, stack[Main])
      /\ stack' = [stack EXCEPT ![Main] = s]
  BY DEF LockInv, Enter, Threads
<1>2. stack[Main] = <<>> \/ Last(stack[Main]).at \in Held
  BY DEF Dispatching, Busy, Pending, Top, Held
<1>3. Shaped(Main, s) /\ Depth(Main, s) = Depth(Main, stack[Main])
  BY <1>1, <1>2, PushDepth
<1> HIDE DEF s
<1> QED BY <1>1, <1>3, OneThread

\* enableBlink begins on a thread of its own, and then calls off or setPulse.
LEMMA BackCalls ==
  ASSUME LockInv, NEW b \in Backs, NEW s \in Seq(Frame),
         stack[b] = <<>> \/ Last(stack[b]).at \notin Held,
         Len(s) \in 1..2,
         \A i \in 1..Len(s) : s[i].at \notin Held /\ s[i].call # Foreign(b),
         stack' = [stack EXCEPT ![b] = s], lock' = lock, hidMgr' = hidMgr
  PROVE  LockInv'
<1>1. b \in Threads /\ b # Main
  BY BlinkAssumption DEF Threads
<1>2. Shaped(b, s)
  BY <1>1 DEF Shaped
<1>3. Depth(b, s) = 0 /\ Depth(b, stack[b]) = 0
  BY <1>1 DEF Depth, Last
<1> QED BY <1>1, <1>2, <1>3, OneThread

\* Every place and call of a frame.
LEMMA FrameOf ==
  \A c \in Calls, p \in Places :
    In(c, p) \in Frame /\ In(c, p).at = p /\ In(c, p).call = c
BY DEF In, Frame, Calls, Places, Colours

\* The innermost call of a busy thread.
LEMMA TopFrame ==
  ASSUME LockInv, NEW t \in Threads, Busy(t)
  PROVE  Top(t) \in Frame /\ Top(t).call # Foreign(t)
<1>1. Shaped(t, stack[t]) /\ stack[t] \in Seq(Frame) /\ stack[t] # <<>>
  BY DEF LockInv, Shaped, Busy
<1>2. /\ Last(stack[t]) \in Frame /\ Len(stack[t]) \in Nat \ {0}
      /\ Last(stack[t]) = stack[t][Len(stack[t])]
  BY <1>1, FrontAndLast DEF Last
<1> QED BY <1>1, <1>2 DEF Shaped, Top

LEMMA LockStep == ColourInv /\ LockInv /\ [Next]_vars => LockInv'
<1> SUFFICES ASSUME ColourInv, LockInv, [Next]_vars PROVE LockInv'
  OBVIOUS
<1>main. Main \in Threads
  BY DEF Threads
<1>back. \A b \in Backs : b \in Threads /\ b # Main
  BY BlinkAssumption DEF Threads
<1>same. ASSUME UNCHANGED <<stack, lock, hidMgr>> PROVE LockInv'
  BY <1>same DEF LockInv, BackReady, Pending, Busy, Top
<1>1. CASE SwitchOff
  BY <1>1, FrameOf, MainDispatches DEF SwitchOff, Held, Calls, Places, Foreign
<1>2. CASE Notice
  BY <1>2, FrameOf, MainDispatches DEF Notice, Held, Calls, Places, Foreign
<1>3. CASE \E i \in Timers : TimerFires(i)
  BY <1>3, FrameOf, MainDispatches DEF TimerFires, Held, Calls, Places, Foreign
<1>4. ASSUME NEW b \in Backs, EnableBlink(b) PROVE LockInv'
  <2> DEFINE f == In("enable", "begin")
  <2>1. /\ stack[b] = <<>> /\ lock' = lock /\ hidMgr' = hidMgr
        /\ stack' = [stack EXCEPT ![b] = Append(stack[b], f)]
    BY <1>4 DEF EnableBlink, Busy, Enter
  <2>2. f \in Frame /\ f.at = "begin" /\ f.call = "enable"
    BY FrameOf DEF Calls, Places
  <2> HIDE DEF f
  <2>3. <<>> \in Seq(Frame) /\ Len(<<>>) = 0
    BY EmptySeq
  <2>4. /\ Append(<<>>, f) \in Seq(Frame) /\ Len(Append(<<>>, f)) = 1
        /\ Append(<<>>, f)[1] = f
    BY <2>2, <2>3, AppendProperties
  <2>5. b # Main
    BY <1>back
  <2> DEFINE s == Append(<<>>, f)
  <2>6. /\ s \in Seq(Frame) /\ Len(s) = 1 /\ s[1] = f
        /\ stack' = [stack EXCEPT ![b] = s]
    BY <2>1, <2>4
  <2> HIDE DEF s
  <2>7. \A i \in 1..Len(s) : s[i].at \notin Held /\ s[i].call # Foreign(b)
    BY <2>2, <2>5, <2>6 DEF Held, Foreign
  <2>8. Len(s) \in 1..2
    BY <2>6
  <2> QED BY <2>1, <2>6, <2>7, <2>8, BackCalls
<1>5. ASSUME NEW t \in Threads, ReadValue(t) PROVE LockInv'
  <2>1. /\ Busy(t) /\ Top(t).at \notin Held /\ Top(t).call = "enable"
        /\ lock' = lock /\ hidMgr' = hidMgr
    BY <1>5 DEF ReadValue, At, Held
  <2>2. t # Main /\ t \in Backs
    BY <2>1, TopFrame DEF Foreign, Threads
  <2>3. ASSUME Becomes(t, In("off", "begin")) PROVE LockInv'
    BY <2>1, <2>2, <2>3, FrameOf, CallChanges DEF Held, Calls, Places, Foreign
  <2>4. ASSUME Ends(t) PROVE LockInv'
    BY <2>1, <2>4, CallEnds
  <2>5. ASSUME NEW first \in {"setPulse", "off"},
               stack' = [stack EXCEPT ![t] = <<In("enable", "second"), In(first, "begin")>>]
        PROVE  LockInv'
    <3> DEFINE f == In("enable", "second")
               g == In(first, "begin")
    <3>1. /\ f \in Frame /\ f.at \notin Held /\ f.call # Foreign(t)
          /\ g \in Frame /\ g.at \notin Held /\ g.call # Foreign(t)
      BY <2>2, FrameOf DEF Calls, Places, Held, Foreign
    <3> HIDE DEF f, g
    <3> DEFINE s == <<f, g>>
    <3>2. /\ s \in Seq(Frame) /\ Len(s) = 2 /\ s[1] = f /\ s[2] = g
      BY <3>1
    <3>3. stack' = [stack EXCEPT ![t] = s]
      BY <2>5 DEF f, g
    <3> HIDE DEF s
    <3>4. \A i \in 1..Len(s) : s[i].at \notin Held /\ s[i].call # Foreign(t)
      BY <3>1, <3>2
    <3>5. stack[t] = <<>> \/ Last(stack[t]).at \notin Held
      BY <2>1 DEF Top
    <3>6. Len(s) \in 1..2
      BY <3>2
    <3> QED BY <2>1, <2>2, <3>2, <3>3, <3>4, <3>5, <3>6, BackCalls
  <2> QED BY <1>5, <2>3, <2>4, <2>5 DEF ReadValue
<1>6. ASSUME NEW t \in Threads, Step(t) PROVE LockInv'
  <2>top. ASSUME Busy(t) PROVE Top(t) \in Frame /\ Top(t).call # Foreign(t)
    BY <2>top, TopFrame
  <2>goes. ASSUME NEW p \in Places, Busy(t)
           PROVE  /\ [Top(t) EXCEPT !.at = p] \in Frame
                  /\ [Top(t) EXCEPT !.at = p].at = p
                  /\ [Top(t) EXCEPT !.at = p].call = Top(t).call
    BY <2>top, <2>goes DEF Frame
  <2>move. ASSUME NEW p \in Places, Busy(t), Goes(t, p),
                  Top(t).at \in Held <=> p \in Held, lock' = lock, hidMgr' = hidMgr
           PROVE  LockInv'
    BY <2>move, <2>goes, <2>top, CallChanges DEF Goes
  <2>take. ASSUME NEW p \in Places, Busy(t), Goes(t, p),
                  Top(t).at \notin Held, p \in Held, Acquire(t), hidMgr' = TRUE
           PROVE  LockInv'
    BY <2>take, <2>goes, <2>top, CallChanges DEF Goes
  <2>leave. ASSUME Busy(t), Top(t).call \in {"off", "pulse"}, Top(t).at \in Held,
                   Becomes(t, In(Top(t).call, "after")), Release(t), hidMgr' = FALSE
            PROVE  LockInv'
    <3>1. Top(t).call \in Calls /\ Top(t).call # Foreign(t)
      BY <2>leave, <2>top DEF Calls
    <3>2. "after" \in Places /\ "after" \notin Held
      BY DEF Places, Held
    <3> QED BY <2>leave, <3>1, <3>2, FrameOf, CallChanges
  <2>1. CASE SetColour(t)
    <3>1. \E p \in {"fade", "drop"} : Goes(t, p)
      BY <2>1 DEF SetColour
    <3> QED BY <2>1, <3>1, <2>move DEF SetColour, At, Held, Places
  <2>2. CASE DropTimer(t)
    <3>1. Top(t).call = "setPulse" /\ "pulse" # Foreign(t)
      BY <2>2 DEF DropTimer, At, Foreign
    <3> QED BY <2>2, <3>1, FrameOf, CallChanges DEF DropTimer, At, Held, Calls, Places
  <2>3. CASE InvalidateAfter(t)
    BY <2>3, CallEnds DEF InvalidateAfter, At, Held
  <2>4. CASE MakeTimer(t)
    BY <2>4, <2>move DEF MakeTimer, At, Held, Places
  <2>5. CASE AddTimer(t)
    BY <2>5, CallEnds DEF AddTimer, At, Held
  <2>6. CASE CheckHere(t)
    <3>1. /\ Busy(t) /\ Top(t).at \notin Held /\ lock' = lock /\ hidMgr' = hidMgr
          /\ "after" \in Places \ Held /\ "locking" \in Places \ Held
      BY <2>6 DEF CheckHere, At, Held, Places
    <3>2. ASSUME Goes(t, "after") PROVE LockInv'
      BY <3>1, <3>2, <2>move
    <3> DEFINE f == [Top(t) EXCEPT !.at = "locking", !.colour = currentColor]
    <3>3. f \in Frame /\ f.at = "locking" /\ f.call = Top(t).call
      BY <3>1, <2>top DEF Frame, ColourInv
    <3>4. Becomes(t, f) \/ Goes(t, "after")
      BY <2>6 DEF CheckHere
    <3> HIDE DEF f
    <3>5. ASSUME Becomes(t, f) PROVE LockInv'
      BY <3>1, <3>3, <3>5, <2>top, CallChanges
    <3> QED BY <3>2, <3>4, <3>5
  <2>7. CASE StartFade(t)
    BY <2>7, <2>take DEF StartFade, At, Held, Places
  <2>8. CASE FindDevice(t)
    <3>1. ASSUME Goes(t, "opening"), UNCHANGED <<lock, hidMgr>> PROVE LockInv'
      BY <2>8, <3>1, <2>move DEF FindDevice, At, Held, Places
    <3>2. ASSUME Becomes(t, In(Top(t).call, "after")), Release(t), hidMgr' = FALSE
          PROVE  LockInv'
      BY <2>8, <3>2, <2>leave DEF FindDevice, At, Held
    <3> QED BY <2>8, <3>1, <3>2 DEF FindDevice
  <2>9. CASE WriteColour(t)
    BY <2>9, <2>leave DEF WriteColour, At, Held
  <2>10. CASE StartEnumerate(t)
    BY <2>10, <2>take DEF StartEnumerate, At, Held, Places
  <2>11. CASE AddSerials(t)
    BY <2>11, CallEnds DEF AddSerials, At, Held
  <2>12. CASE Crash(t)
    BY <2>12, <1>same DEF Crash
  <2> QED BY <1>5, <1>6, <2>1, <2>2, <2>3, <2>4, <2>5, <2>6, <2>7, <2>8, <2>9,
             <2>10, <2>11, <2>12 DEF Step
<1>7. CASE Replug \/ RebuildWaits \/ RebuildEnds
  BY <1>7, <1>same DEF Replug, RebuildWaits, RebuildEnds, run
<1>8. CASE UNCHANGED vars
  BY <1>8, <1>same DEF vars, run
<1> QED BY <1>1, <1>2, <1>3, <1>4, <1>6, <1>7, <1>8 DEF Next, Dispatch

LEMMA ColourStep == ColourInv /\ [Next]_vars => ColourInv'
BY DEF ColourInv, Colours, Next, Dispatch, SwitchOff, Notice, TimerFires,
       EnableBlink, Step, ReadValue, SetColour, DropTimer, InvalidateAfter,
       MakeTimer, AddTimer, CheckHere, StartFade, FindDevice, WriteColour,
       StartEnumerate, AddSerials, Crash, Replug, RebuildWaits, RebuildEnds, vars, ivars

\* While a background thread lists or opens devices the manager is there: the
\* lock keeps blink1_close of every other thread away (Blink1.m:129).
THEOREM BackIsReady == Spec => []BackReady
<1>1. Init => ColourInv
  BY DEF Init, ColourInv, Colours
<1>2. LockInv => BackReady
  BY DEF LockInv
<1> QED BY <1>1, <1>2, LockInit, LockStep, ColourStep, PTL DEF Spec

\* Who holds the lock is inside hid_enumerate or hid_open_path, a background
\* thread with its innermost call.
HolderInside ==
  lock.held > 0 =>
    LET calling == stack[lock.owner]
    IN  /\ \E i \in DOMAIN calling : calling[i].at \in Held
        /\ lock.owner # Main => Last(calling).at \in Held

LEMMA HolderIsInside == LockInv => HolderInside
<1> SUFFICES ASSUME LockInv, lock.held > 0
             PROVE  LET calling == stack[lock.owner]
                    IN  /\ \E i \in DOMAIN calling : calling[i].at \in Held
                        /\ lock.owner # Main => Last(calling).at \in Held
  BY DEF HolderInside
<1> DEFINE t == lock.owner
           s == stack[lock.owner]
<1>1. t \in Threads /\ Shaped(t, s) /\ Depth(t, s) = lock.held /\ lock.held \in Nat
  BY DEF LockInv
<1>2. s \in Seq(Frame) /\ s # <<>>
  <2>1. s \in Seq(Frame)
    BY <1>1 DEF Shaped
  <2>2. s = <<>> => Depth(t, s) = 0
    BY EmptySeq DEF Depth
  <2> QED BY <1>1, <2>1, <2>2
<1>3. /\ Len(s) \in Nat \ {0} /\ DOMAIN s = 1..Len(s) /\ Last(s) = s[Len(s)]
  BY <1>2, FrontAndLast
<1> HIDE DEF s, t
<1>4. CASE Last(s).at \in Held
  <2>1. Len(s) \in DOMAIN s
    BY <1>3
  <2> QED BY <1>3, <1>4, <2>1 DEF s, t
<1>5. CASE Last(s).at \notin Held
  <2>1. t = Main /\ Len(s) - 1 > 0
    BY <1>1, <1>2, <1>5 DEF Depth
  <2>2. 1 \in 1..(Len(s) - 1) /\ 1 \in DOMAIN s
    BY <1>3, <2>1
  <2>3. s[1].at \in Held
    BY <1>1, <2>1, <2>2 DEF Shaped
  <2> QED BY <2>1, <2>2, <2>3 DEF s, t
<1> QED BY <1>4, <1>5

\* The lock is never left behind and never waited for in a circle: the thread
\* that has it is in the run loop of a fade or an enumerate, from where it goes
\* on without it, or is the main thread, which may take it again.  This is the
\* part of EnableEnds that needs no fairness.
THEOREM LockIsInUse == Spec => []HolderInside
<1>1. Init => ColourInv
  BY DEF Init, ColourInv, Colours
<1> QED BY <1>1, HolderIsInside, LockInit, LockStep, ColourStep, PTL DEF Spec
-----------------------------------------------------------------------------
(***************************************************************************)
(* The serials.  A notice that is still waiting will enumerate again.  With *)
(* none waiting, the last enumerate began after the last plug: from then on *)
(* nothing can add a serial of a device that is gone, and the enumerate     *)
(* that ends last adds the one that is there.                              *)
(***************************************************************************)
NoEnumerate(s) == \A i \in DOMAIN s : s[i].call # "enumerate"

SerialInv ==
  /\ serialnums \in Nat
  /\ ~noticed /\ ~plugged /\ ~At(Main, {"enumerate"}, "begin") => serialnums = 0
  /\ ~noticed /\ plugged /\ NoEnumerate(stack[Main]) => serialnums > 0

LEMMA EnumerateStays ==
  ASSUME NEW s \in Seq(Frame), NEW f \in Frame
  PROVE  /\ NoEnumerate(Append(s, f)) => NoEnumerate(s) /\ f.call # "enumerate"
         /\ s # <<>> /\ Last(s).call # "enumerate" /\ NoEnumerate(Front(s)) =>
              NoEnumerate(s)
         /\ s # <<>> /\ Last(s).call # "enumerate"
              /\ NoEnumerate(Append(Front(s), f)) => NoEnumerate(s)
<1> DEFINE n == Append(s, f)
           fr == Front(s)
           m == Append(Front(s), f)
<1>1. /\ n \in Seq(Frame) /\ Len(n) = Len(s) + 1 /\ Len(s) \in Nat
      /\ n[Len(s) + 1] = f /\ \A i \in 1..Len(s) : n[i] = s[i]
  BY AppendProperties, LenProperties
<1>2. s # <<>> =>
        /\ fr \in Seq(Frame) /\ Len(fr) = Len(s) - 1
        /\ \A i \in 1..(Len(s) - 1) : fr[i] = s[i]
  BY FrontAndLast
<1>3. s # <<>> =>
        /\ m \in Seq(Frame) /\ Len(m) = Len(s)
        /\ \A i \in 1..(Len(s) - 1) : m[i] = s[i]
  BY ReplaceTop
<1>4. Last(s) = s[Len(s)]
  BY DEF Last
<1> HIDE DEF n, fr, m
<1>5. NoEnumerate(n) => NoEnumerate(s) /\ f.call # "enumerate"
  <2>1. DOMAIN n = 1..(Len(s) + 1) /\ DOMAIN s = 1..Len(s)
    BY <1>1, LenProperties
  <2> QED BY <1>1, <2>1 DEF NoEnumerate
<1>6. s # <<>> /\ Last(s).call # "enumerate" /\ NoEnumerate(fr) => NoEnumerate(s)
  <2>1. DOMAIN s = 1..Len(s) /\ (s # <<>> => DOMAIN fr = 1..(Len(s) - 1))
    BY <1>2, LenProperties
  <2> QED BY <1>1, <1>2, <1>4, <2>1 DEF NoEnumerate
<1>7. s # <<>> /\ Last(s).call # "enumerate" /\ NoEnumerate(m) => NoEnumerate(s)
  <2>1. DOMAIN s = 1..Len(s) /\ (s # <<>> => DOMAIN m = 1..Len(s))
    BY <1>3, LenProperties
  <2> QED BY <1>1, <1>3, <1>4, <2>1 DEF NoEnumerate
<1> QED BY <1>5, <1>6, <1>7 DEF n, fr, m

\* A step of a call other than enumerate.
LEMMA SerialsStay ==
  ASSUME LockInv, SerialInv, NEW t \in Threads, Busy(t), Top(t).call # "enumerate",
         UNCHANGED <<serialnums, plugged, noticed>>,
         \/ Ends(t)
         \/ \E f \in Frame : Becomes(t, f)
         \/ t # Main /\ \E s : stack' = [stack EXCEPT ![t] = s]
  PROVE  SerialInv'
<1>1. /\ Main \in Threads /\ stack[Main] \in Seq(Frame)
      /\ \A u \in Threads : \A s : stack' = [stack EXCEPT ![u] = s] =>
           /\ stack'[u] = s
           /\ u # Main => stack'[Main] = stack[Main]
  BY DEF LockInv, Shaped, Threads
<1>2. CASE t # Main
  <2>1. stack'[Main] = stack[Main]
    BY <1>1, <1>2 DEF Ends, Becomes
  <2> QED BY <2>1 DEF SerialInv, At, Busy, Top
<1>3. CASE t = Main
  <2>1. /\ stack[Main] # <<>> /\ Last(stack[Main]).call # "enumerate"
        /\ ~At(Main, {"enumerate"}, "begin")
    BY <1>3 DEF Busy, Top, At
  <2>2. \/ stack'[Main] = Front(stack[Main])
        \/ \E f \in Frame : stack'[Main] = Append(Front(stack[Main]), f)
    BY <1>1, <1>3 DEF Ends, Becomes
  <2>3. NoEnumerate(stack'[Main]) => NoEnumerate(stack[Main])
    <3>1. \E f \in Frame : TRUE
      BY FrameOf DEF Calls, Places
    <3> QED BY <1>1, <2>1, <2>2, <3>1, EnumerateStays
  <2> QED BY <2>1, <2>3 DEF SerialInv
<1> QED BY <1>2, <1>3

LEMMA SerialInit == Init => SerialInv
<1> SUFFICES ASSUME Init PROVE SerialInv
  OBVIOUS
<1>1. /\ serialnums = IF plugged THEN 1 ELSE 0
      /\ plugged \in BOOLEAN
  BY DEF Init
<1> QED BY <1>1 DEF SerialInv

LEMMA SerialStep == LockInv /\ SerialInv /\ ColourInv /\ [Next]_vars => SerialInv'
<1> SUFFICES ASSUME LockInv, SerialInv, ColourInv, [Next]_vars PROVE SerialInv'
  OBVIOUS
<1>main. Main \in Threads /\ Shaped(Main, stack[Main]) /\ stack[Main] \in Seq(Frame)
  BY DEF LockInv, Shaped, Threads
<1>same. ASSUME UNCHANGED <<stack, serialnums, plugged, noticed>> PROVE SerialInv'
  BY <1>same DEF SerialInv, At, Busy, Top
<1>push. ASSUME Dispatching, NEW f \in Frame, Enter(Main, f),
                UNCHANGED <<serialnums, plugged>>,
                noticed' = noticed \/ (f.call = "enumerate" /\ f.at = "begin")
         PROVE  SerialInv'
  <2> DEFINE s == Append(stack[Main], f)
  <2>1. stack'[Main] = s
    BY <1>push, <1>main DEF Enter, LockInv
  <2>2. NoEnumerate(s) => NoEnumerate(stack[Main]) /\ f.call # "enumerate"
    BY <1>main, EnumerateStays
  <2>3. s # <<>> /\ Last(s) = f
    <3>1. /\ s \in Seq(Frame) /\ Len(s) = Len(stack[Main]) + 1
          /\ Len(stack[Main]) \in Nat /\ s[Len(stack[Main]) + 1] = f
      BY <1>main, AppendProperties, LenProperties
    <3> HIDE DEF s
    <3> QED BY <3>1, EmptySeq DEF Last
  <2>4. ~At(Main, {"enumerate"}, "begin")
    BY <1>push DEF Dispatching, At, Pending
  <2> HIDE DEF s
  <2>5. At(Main, {"enumerate"}, "begin")' <=> f.call = "enumerate" /\ f.at = "begin"
    BY <2>1, <2>3 DEF At, Busy, Top
  <2> QED BY <1>push, <2>1, <2>2, <2>4, <2>5 DEF SerialInv
<1>1. CASE SwitchOff
  BY <1>1, <1>push, FrameOf DEF SwitchOff, Calls, Places, ivars, usb
<1>2. CASE Notice
  BY <1>2, <1>push, FrameOf DEF Notice, Calls, Places, ivars
<1>3. CASE \E i \in Timers : TimerFires(i)
  BY <1>3, <1>push, FrameOf DEF TimerFires, Calls, Places, usb
<1>4. ASSUME NEW b \in Backs, EnableBlink(b) PROVE SerialInv'
  <2>1. b \in Threads /\ b # Main
    BY BlinkAssumption DEF Threads
  <2>2. stack'[Main] = stack[Main] /\ UNCHANGED <<serialnums, plugged, noticed>>
    BY <1>4, <1>main, <2>1 DEF EnableBlink, Enter, LockInv, ivars, usb
  <2> QED BY <2>2 DEF SerialInv, At, Busy, Top
<1>5. ASSUME NEW t \in Threads, Step(t) PROVE SerialInv'
  <2>at. ASSUME Busy(t) PROVE Top(t) \in Frame
    BY <2>at, TopFrame
  <2>go. \A p \in Places : Goes(t, p) /\ Busy(t) => \E f \in Frame : Becomes(t, f)
    <3>1. \A p \in Places : Busy(t) => [Top(t) EXCEPT !.at = p] \in Frame
      BY <2>at DEF Frame
    <3> QED BY <3>1 DEF Goes
  <2>to. \A c \in Calls, p \in Places :
           Becomes(t, In(c, p)) => \E f \in Frame : Becomes(t, f)
    BY FrameOf
  <2>1. CASE ReadValue(t)
    <3>1. Busy(t) /\ Top(t).call = "enable" /\ UNCHANGED <<serialnums, plugged, noticed>>
      BY <2>1 DEF ReadValue, At, ivars, usb
    <3>2. t # Main
      BY <3>1, TopFrame DEF Foreign
    <3>3. \E s : stack' = [stack EXCEPT ![t] = s]
      BY <2>1 DEF ReadValue, Becomes, Ends
    <3> QED BY <3>1, <3>2, <3>3, SerialsStay
  <2>2. CASE SetColour(t)
    <3>1. /\ \E p \in {"fade", "drop"} : Goes(t, p)
          /\ Busy(t) /\ Top(t).call # "enumerate"
          /\ UNCHANGED <<serialnums, plugged, noticed>>
      BY <2>2 DEF SetColour, At, usb
    <3>2. \E f \in Frame : Becomes(t, f)
      BY <3>1, <2>go DEF Places
    <3> QED BY <3>1, <3>2, SerialsStay
  <2>3. CASE DropTimer(t)
    BY <2>3, <2>to, SerialsStay DEF DropTimer, At, usb, Calls, Places
  <2>4. CASE InvalidateAfter(t)
    BY <2>4, SerialsStay DEF InvalidateAfter, At, usb
  <2>5. CASE MakeTimer(t)
    BY <2>5, <2>go, SerialsStay DEF MakeTimer, At, usb, Places
  <2>6. CASE AddTimer(t)
    BY <2>6, SerialsStay DEF AddTimer, At, usb
  <2>7. CASE CheckHere(t)
    <3>1. /\ Busy(t) /\ Top(t).call # "enumerate"
          /\ UNCHANGED <<serialnums, plugged, noticed>>
      BY <2>7 DEF CheckHere, At, ivars, usb
    <3>2. [Top(t) EXCEPT !.at = "locking", !.colour = currentColor] \in Frame
      BY <2>at, <3>1 DEF Frame, Places, ColourInv
    <3>3. \E f \in Frame : Becomes(t, f)
      BY <2>7, <2>go, <3>1, <3>2 DEF CheckHere, Places
    <3> QED BY <3>1, <3>3, SerialsStay
  <2>8. CASE StartFade(t)
    BY <2>8, <2>go, SerialsStay DEF StartFade, At, ivars, usb, Places
  <2>9. CASE FindDevice(t)
    <3>1. /\ Busy(t) /\ Top(t).call \in {"off", "pulse"}
          /\ UNCHANGED <<serialnums, plugged, noticed>>
          /\ Goes(t, "opening") \/ Becomes(t, In(Top(t).call, "after"))
      BY <2>9 DEF FindDevice, At, ivars, usb
    <3>2. Top(t).call \in Calls /\ "after" \in Places /\ "opening" \in Places
      BY <3>1 DEF Calls, Places
    <3> QED BY <3>1, <3>2, <2>go, <2>to, SerialsStay
  <2>10. CASE WriteColour(t)
    <3>1. /\ Busy(t) /\ Top(t).call \in {"off", "pulse"}
          /\ UNCHANGED <<serialnums, plugged, noticed>>
          /\ Becomes(t, In(Top(t).call, "after"))
      BY <2>10 DEF WriteColour, At, ivars
    <3>2. Top(t).call \in Calls /\ "after" \in Places
      BY <3>1 DEF Calls, Places
    <3> QED BY <3>1, <3>2, <2>to, SerialsStay
  <2>enum. ASSUME Busy(t), Top(t).call = "enumerate" PROVE t = Main
    BY <2>enum, TopFrame DEF Foreign
  <2>11. CASE StartEnumerate(t)
    <3>1. /\ t = Main /\ Busy(t) /\ Top(t) \in Frame /\ Top(t).call = "enumerate"
          /\ serialnums' = 0 /\ UNCHANGED <<plugged, noticed>> /\ Goes(t, "listing")
      BY <2>11, <2>enum, <2>at DEF StartEnumerate, At, usb
    <3> DEFINE f == [Top(t) EXCEPT !.at = "listing"]
               s == Append(Front(stack[Main]), f)
    <3>2. f \in Frame /\ f.call = "enumerate"
      BY <3>1 DEF Frame, Places
    <3>3. stack'[Main] = s
      BY <3>1, <1>main DEF Goes, Becomes, LockInv
    <3> HIDE DEF f
    <3>4. s \in Seq(Frame) /\ s # <<>> /\ Last(s) = f
      BY <1>main, <3>1, <3>2, ReplaceTop DEF Busy
    <3> HIDE DEF s
    <3>5. s[Len(s)] = f /\ Len(s) \in DOMAIN s
      BY <3>4, LenProperties, EmptySeq DEF Last
    <3>6. ~NoEnumerate(stack'[Main])
      BY <3>2, <3>3, <3>5 DEF NoEnumerate
    <3> QED BY <3>1, <3>6 DEF SerialInv
  <2>12. CASE AddSerials(t)
    <3>1. /\ t = Main /\ serialnums' = serialnums + (IF plugged THEN 1 ELSE 0)
          /\ UNCHANGED <<plugged, noticed>> /\ ~At(Main, {"enumerate"}, "begin")
      BY <2>12, <2>enum DEF AddSerials, At, usb
    <3> QED BY <3>1 DEF SerialInv
  <2>13. CASE Crash(t)
    BY <2>13, <1>same DEF Crash, ivars, usb
  <2> QED BY <1>5, <2>1, <2>2, <2>3, <2>4, <2>5, <2>6, <2>7, <2>8, <2>9, <2>10,
             <2>11, <2>12, <2>13 DEF Step
<1>6. CASE Replug
  <2>1. noticed' /\ serialnums' = serialnums
    BY <1>6 DEF Replug, ivars
  <2> QED BY <2>1 DEF SerialInv
<1>7. CASE RebuildWaits \/ RebuildEnds \/ UNCHANGED vars
  BY <1>7, <1>same DEF RebuildWaits, RebuildEnds, vars, ivars, usb, run
<1> QED BY <1>1, <1>2, <1>3, <1>4, <1>5, <1>6, <1>7 DEF Next, Dispatch

LEMMA SerialUse == LockInv /\ SerialInv => SerialsCurrent
<1> SUFFICES ASSUME LockInv, SerialInv, ~noticed, NoEnumerate(stack[Main])
             PROVE  serialnums > 0 <=> plugged
  BY DEF SerialsCurrent, NoEnumerate
<1>1. stack[Main] \in Seq(Frame)
  BY DEF LockInv, Shaped, Threads
<1>2. ~At(Main, {"enumerate"}, "begin")
  <2> SUFFICES ASSUME Busy(Main) PROVE Top(Main).call # "enumerate"
    BY DEF At
  <2>1. /\ Len(stack[Main]) \in DOMAIN stack[Main]
        /\ Top(Main) = stack[Main][Len(stack[Main])]
    BY <1>1, LenProperties, EmptySeq DEF Busy, Top, Last
  <2> QED BY <2>1 DEF NoEnumerate
<1> QED BY <1>2 DEF SerialInv

\* Once every USB notice is handled isHere is right, however enumerates nest in
\* fades and in each other (Blink1.m:36).
THEOREM SerialsAreCurrent == Spec => []SerialsCurrent
<1>1. Init => ColourInv
  BY DEF Init, ColourInv, Colours
<1> QED BY <1>1, LockInit, LockStep, ColourStep, SerialInit, SerialStep,
           SerialUse, PTL DEF Spec
-----------------------------------------------------------------------------
(***************************************************************************)
(* Dark stays dark.  An off that finds no call under way is alone on the   *)
(* main thread until it has set the colour; from then on, and until the    *)
(* next enableBlink, every call fades to the colour that is black.         *)
(***************************************************************************)
DarkFrames(s) ==
  \A i \in DOMAIN s : s[i].colour = "dark" /\ s[i].call # "setPulse"

OffInv ==
  quenched # "no" =>
    /\ \A b \in Backs : stack[b] = <<>>
    /\ DarkFrames(stack[Main])
    /\ currentColor = "dark" \/ At(Main, {"off"}, "begin")
    /\ quenched = "yes" => light = "dark"

LEMMA DarkKept ==
  ASSUME NEW s \in Seq(Frame), DarkFrames(s),
         NEW f \in Frame, f.colour = "dark", f.call # "setPulse"
  PROVE  /\ DarkFrames(Append(s, f))
         /\ s # <<>> => DarkFrames(Front(s)) /\ DarkFrames(Append(Front(s), f))
<1> DEFINE n == Append(s, f)
           fr == Front(s)
           m == Append(Front(s), f)
<1>1. /\ DOMAIN n = 1..(Len(s) + 1) /\ Len(s) \in Nat /\ DOMAIN s = 1..Len(s)
      /\ n[Len(s) + 1] = f /\ \A i \in 1..Len(s) : n[i] = s[i]
  BY AppendProperties, LenProperties
<1>2. s # <<>> => DOMAIN fr = 1..(Len(s) - 1) /\ \A i \in 1..(Len(s) - 1) : fr[i] = s[i]
  BY FrontAndLast
<1>3. s # <<>> => /\ DOMAIN m = 1..Len(s) /\ m[Len(s)] = f
                  /\ \A i \in 1..(Len(s) - 1) : m[i] = s[i]
  <2> SUFFICES ASSUME s # <<>>
               PROVE  /\ DOMAIN m = 1..Len(s) /\ m[Len(s)] = f
                      /\ \A i \in 1..(Len(s) - 1) : m[i] = s[i]
    OBVIOUS
  <2>1. /\ m \in Seq(Frame) /\ Len(m) = Len(s) /\ m[Len(s)] = f
        /\ \A i \in 1..(Len(s) - 1) : m[i] = s[i]
    BY ReplaceTop
  <2> HIDE DEF m
  <2> QED BY <2>1, LenProperties
<1> HIDE DEF n, fr, m
<1>4. DarkFrames(n)
  BY <1>1 DEF DarkFrames
<1>5. s # <<>> => DarkFrames(fr)
  BY <1>1, <1>2 DEF DarkFrames
<1>6. s # <<>> => DarkFrames(m)
  BY <1>1, <1>3 DEF DarkFrames
<1> QED BY <1>4, <1>5, <1>6 DEF n, fr, m

\* What lets OffInv alone, and what dispatches a call.
LEMMA OffSame ==
  ASSUME OffInv, UNCHANGED <<stack, currentColor, quenched>>, light' \in {light, "dark"}
  PROVE  OffInv'
  BY DEF OffInv, At, Busy, Top

LEMMA OffPush ==
  ASSUME LockInv, OffInv, Dispatching, NEW f \in Frame,
         f.colour = "dark", f.call # "setPulse", Enter(Main, f),
         UNCHANGED <<currentColor, quenched, light>>
  PROVE  OffInv'
<1> SUFFICES ASSUME quenched # "no" PROVE OffInv'
  BY DEF OffInv
<1>1. /\ stack[Main] \in Seq(Frame) /\ stack'[Main] = Append(stack[Main], f)
      /\ \A b \in Backs : stack'[b] = stack[b]
  BY BlinkAssumption DEF LockInv, Shaped, Threads, Enter
<1>2. DarkFrames(stack'[Main])
  BY <1>1, DarkKept DEF OffInv
<1>3. currentColor = "dark"
  BY DEF OffInv, Dispatching, At, Pending
<1> QED BY <1>1, <1>2, <1>3 DEF OffInv

\* A call of the main thread ends or goes on.
LEMMA OffMoves ==
  ASSUME LockInv, OffInv, quenched # "no", Busy(Main),
         \/ Ends(Main)
         \/ \E f \in Frame : f.colour = "dark" /\ f.call # "setPulse" /\ Becomes(Main, f),
         currentColor' = "dark",
         \/ UNCHANGED <<quenched, light>>
         \/ light' = "dark" /\ quenched' \in {quenched, "yes"}
  PROVE  OffInv'
<1>1. /\ stack[Main] \in Seq(Frame) /\ stack[Main] # <<>>
      /\ \A b \in Backs : stack'[b] = stack[b]
      /\ \/ stack'[Main] = Front(stack[Main])
         \/ \E f \in Frame : /\ f.colour = "dark" /\ f.call # "setPulse"
                             /\ stack'[Main] = Append(Front(stack[Main]), f)
  BY BlinkAssumption DEF LockInv, Shaped, Threads, Ends, Becomes, Busy
<1>2. In("off", "begin") \in Frame /\ In("off", "begin").colour = "dark"
      /\ In("off", "begin").call # "setPulse"
  BY FrameOf DEF In, Calls, Places
<1>3. DarkFrames(stack'[Main])
  BY <1>1, <1>2, DarkKept DEF OffInv
<1> QED BY <1>1, <1>3 DEF OffInv

LEMMA OffStep == LockInv /\ OffInv /\ [Next]_vars => OffInv'
<1> SUFFICES ASSUME LockInv, OffInv, [Next]_vars PROVE OffInv'
  OBVIOUS
<1>dark. \A c \in Calls, p \in Places : In(c, p) \in Frame /\ In(c, p).colour = "dark"
                                       /\ In(c, p).call = c
  BY FrameOf DEF In
<1>main. /\ Main \in Threads /\ stack[Main] \in Seq(Frame)
         /\ \A t \in Threads : t # Main => t \in Backs
  BY DEF LockInv, Shaped, Threads
<1>1. CASE SwitchOff
  <2> DEFINE f == In("off", "begin")
  <2>1. f \in Frame /\ f.colour = "dark" /\ f.call = "off" /\ f.at = "begin"
    BY <1>dark, FrameOf DEF Calls, Places
  <2>2. Enter(Main, f) /\ Dispatching /\ UNCHANGED <<currentColor, light>>
    BY <1>1 DEF SwitchOff, ivars, usb
  <2> HIDE DEF f
  <2>3. CASE quenched' = quenched
    BY <2>1, <2>2, <2>3, OffPush
  <2>4. CASE Quiet /\ quenched' = "begun"
    <3>1. stack[Main] = <<>> /\ \A b \in Backs : stack[b] = <<>>
      BY <2>4 DEF Quiet, Busy, Threads
    <3>2. stack'[Main] = Append(stack[Main], f) /\ \A b \in Backs : stack'[b] = stack[b]
      BY <1>main, <2>2, BlinkAssumption DEF Enter, LockInv, Threads
    <3> DEFINE s == stack'[Main]
    <3>3. s \in Seq(Frame) /\ Len(s) = 1 /\ s[1] = f
      BY <1>main, <2>1, <3>1, <3>2, AppendProperties, EmptySeq
    <3> HIDE DEF s
    <3>4. s # <<>> /\ Last(s) = f /\ DOMAIN s = {1}
      BY <3>3, EmptySeq, LenProperties DEF Last
    <3>5. DarkFrames(s)
      BY <2>1, <3>3, <3>4 DEF DarkFrames
    <3>6. At(Main, {"off"}, "begin")'
      BY <2>1, <3>4 DEF At, Busy, Top, s
    <3> QED BY <2>4, <3>1, <3>2, <3>5, <3>6 DEF OffInv, s
  <2> QED BY <1>1, <2>3, <2>4 DEF SwitchOff
<1>2. CASE Notice
  BY <1>2, <1>dark, OffPush DEF Notice, Calls, Places, ivars, history
<1>3. CASE \E i \in Timers : TimerFires(i)
  BY <1>3, <1>dark, OffPush DEF TimerFires, Calls, Places, usb, history
<1>4. ASSUME NEW b \in Backs, EnableBlink(b) PROVE OffInv'
  BY <1>4 DEF EnableBlink, OffInv
<1>5. ASSUME NEW t \in Threads, Step(t) PROVE OffInv'
  <2>no. ASSUME quenched = "no", quenched' = quenched PROVE OffInv'
    BY <2>no DEF OffInv
  <2>busy. Busy(t)
    BY <1>5 DEF Step, ReadValue, SetColour, DropTimer, InvalidateAfter, MakeTimer,
                AddTimer, CheckHere, StartFade, FindDevice, WriteColour,
                StartEnumerate, AddSerials, Crash, At, Pending
  <2>1. CASE quenched = "no"
    <3>1. quenched' = "no"
      BY <1>5, <2>1 DEF Step, ReadValue, SetColour, DropTimer, InvalidateAfter, MakeTimer,
                AddTimer, CheckHere, StartFade, FindDevice, WriteColour,
                StartEnumerate, AddSerials, Crash, history
    <3> QED BY <2>1, <3>1, <2>no
  <2>2. CASE quenched # "no"
    <3>main. t = Main
      BY <1>main, <2>busy, <2>2 DEF OffInv, Busy
    <3>top. /\ Top(Main) \in Frame /\ Top(Main).colour = "dark"
            /\ Top(Main).call \notin {"setPulse", "enable"}
      <4>1. Top(Main) \in Frame /\ Top(Main).call # "enable"
        BY <1>main, <2>busy, <3>main, TopFrame DEF Foreign
      <4>2. /\ Len(stack[Main]) \in DOMAIN stack[Main]
            /\ Top(Main) = stack[Main][Len(stack[Main])]
        BY <1>main, <2>busy, <3>main, LenProperties, EmptySeq DEF Busy, Top, Last
      <4> QED BY <2>2, <4>1, <4>2 DEF OffInv, DarkFrames
    <3>same. ASSUME UNCHANGED <<stack, currentColor, quenched, light>> PROVE OffInv'
      BY <3>same, OffSame
    <3>ends. ASSUME Ends(Main), ~At(Main, {"off"}, "begin"),
                    UNCHANGED <<currentColor, quenched, light>>
             PROVE  OffInv'
      BY <2>2, <2>busy, <3>main, <3>ends, OffMoves DEF OffInv
    <3>goes. ASSUME NEW p \in Places, Goes(Main, p), currentColor' = "dark",
                    UNCHANGED <<quenched, light>>
             PROVE  OffInv'
      <4> DEFINE f == [Top(Main) EXCEPT !.at = p]
      <4>1. f \in Frame /\ f.colour = "dark" /\ f.call # "setPulse"
        BY <3>top DEF Frame
      <4>2. Becomes(Main, f)
        BY <3>goes DEF Goes
      <4> HIDE DEF f
      <4> QED BY <2>2, <2>busy, <3>main, <3>goes, <4>1, <4>2, OffMoves
    <3>after. ASSUME Becomes(Main, In(Top(Main).call, "after")), currentColor' = "dark",
                     \/ UNCHANGED <<quenched, light>>
                     \/ light' = "dark" /\ quenched' \in {quenched, "yes"}
              PROVE  OffInv'
      <4>1. /\ In(Top(Main).call, "after") \in Frame
            /\ In(Top(Main).call, "after").colour = "dark"
            /\ In(Top(Main).call, "after").call # "setPulse"
        BY <3>top, <1>dark DEF Frame, Places
      <4> QED BY <2>2, <2>busy, <3>main, <3>after, <4>1, OffMoves
    <3>dark. ~At(Main, {"off"}, "begin") => currentColor = "dark"
      BY <2>2 DEF OffInv
    <3>1. CASE ReadValue(Main)
      BY <3>1, <3>top DEF ReadValue, At
    <3>2. CASE SetColour(Main)
      <4>1. /\ Top(Main).call = "off" /\ currentColor' = "dark"
            /\ Goes(Main, "fade") /\ UNCHANGED <<quenched, light>>
        BY <3>2, <3>top DEF SetColour, At, usb, history
      <4> QED BY <4>1, <3>goes DEF Places
    <3>3. CASE DropTimer(Main)
      BY <3>3, <3>top DEF DropTimer, At
    <3>4. CASE InvalidateAfter(Main)
      BY <3>4, <3>ends DEF InvalidateAfter, At, usb, history
    <3>5. CASE MakeTimer(Main)
      BY <3>5, <3>dark, <3>goes DEF MakeTimer, At, usb, history, Places
    <3>6. CASE AddTimer(Main)
      BY <3>6, <3>ends DEF AddTimer, At, usb, history
    <3>7. CASE CheckHere(Main)
      <4>1. currentColor = "dark" /\ UNCHANGED <<currentColor, quenched, light>>
        BY <3>7, <3>dark DEF CheckHere, At, ivars, usb, history
      <4>2. ASSUME Goes(Main, "after") PROVE OffInv'
        BY <4>1, <4>2, <3>goes DEF Places
      <4> DEFINE f == [Top(Main) EXCEPT !.at = "locking", !.colour = currentColor]
      <4>3. f \in Frame /\ f.colour = "dark" /\ f.call # "setPulse"
        BY <3>top, <4>1 DEF Frame, Places, Colours
      <4>4. Goes(Main, "after") \/ Becomes(Main, f)
        BY <3>7 DEF CheckHere
      <4> HIDE DEF f
      <4>5. ASSUME Becomes(Main, f) PROVE OffInv'
        BY <2>2, <2>busy, <3>main, <4>1, <4>3, <4>5, OffMoves
      <4> QED BY <4>2, <4>4, <4>5
    <3>8. CASE StartFade(Main)
      BY <3>8, <3>dark, <3>goes DEF StartFade, At, ivars, usb, history, Places
    <3>9. CASE FindDevice(Main)
      <4>1. /\ currentColor' = "dark" /\ UNCHANGED <<quenched, light>>
            /\ Goes(Main, "opening") \/ Becomes(Main, In(Top(Main).call, "after"))
        BY <3>9, <3>dark DEF FindDevice, At, ivars, usb, history
      <4>2. ASSUME Goes(Main, "opening") PROVE OffInv'
        BY <4>1, <4>2, <3>goes DEF Places
      <4>3. ASSUME Becomes(Main, In(Top(Main).call, "after")) PROVE OffInv'
        BY <4>1, <4>3, <3>after
      <4> QED BY <4>1, <4>2, <4>3
    <3>10. CASE WriteColour(Main)
      <4>1. /\ currentColor' = "dark" /\ Becomes(Main, In(Top(Main).call, "after"))
            /\ \/ light' = Top(Main).colour /\ quenched' \in {quenched, "yes"}
               \/ UNCHANGED <<quenched, light>>
        BY <3>10, <3>dark DEF WriteColour, At, ivars
      <4> QED BY <4>1, <3>top, <3>after
    <3>11. CASE StartEnumerate(Main)
      BY <3>11, <3>dark, <3>goes DEF StartEnumerate, At, usb, history, Places
    <3>12. CASE AddSerials(Main)
      BY <3>12, <3>ends DEF AddSerials, At, usb, history
    <3>13. CASE Crash(Main)
      BY <3>13, <3>same DEF Crash, ivars, usb, history
    <3> QED BY <1>5, <3>main, <3>1, <3>2, <3>3, <3>4, <3>5, <3>6, <3>7, <3>8, <3>9,
               <3>10, <3>11, <3>12, <3>13 DEF Step
  <2> QED BY <2>1, <2>2
<1>6. CASE Replug
  BY <1>6, OffSame DEF Replug, ivars, run, history
<1>7. CASE RebuildWaits \/ RebuildEnds \/ UNCHANGED vars
  BY <1>7, OffSame DEF RebuildWaits, RebuildEnds, vars, ivars, usb, run, history
<1> QED BY <1>1, <1>2, <1>3, <1>4, <1>5, <1>6, <1>7 DEF Next, Dispatch

\* Pulses left running when the Mac goes to sleep, also ones dispatched inside
\* the fade of that off, write black: SvrMnuAppDelegate's off needs no order
\* among the timers, only an enableBlink can light the device again.
THEOREM OffStays == Spec => []OffStaysDark
<1>1. Init => ColourInv
  BY DEF Init, ColourInv, Colours
<1>2. Init => OffInv
  BY DEF Init, OffInv
<1>3. OffInv => OffStaysDark
  BY DEF OffInv, OffStaysDark
<1> QED BY <1>1, <1>2, <1>3, LockInit, LockStep, ColourStep, OffStep, PTL DEF Spec
-----------------------------------------------------------------------------
(***************************************************************************)
(* Counting.  Where the frames of a set are in one stack, and in all.      *)
(***************************************************************************)
Where(M, s) == {i \in 1..Len(s) : s[i] \in M}
Marked(M) ==
  {c \in Threads \X (Nat \ {0}) : c[2] \in Where(M, stack[c[1]])}

LEMMA WhereMoves ==
  ASSUME NEW M, NEW s \in Seq(Frame), NEW f \in Frame
  PROVE  /\ f \notin M => Where(M, Append(s, f)) \subseteq Where(M, s)
         /\ Where(M, Append(s, f)) \subseteq Where(M, s) \cup {Len(s) + 1}
         /\ s # <<>> =>
              /\ Len(s) \in Where(M, s) <=> Last(s) \in M
              /\ Where(M, Front(s)) \subseteq Where(M, s) \ {Len(s)}
              /\ f \notin M =>
                   Where(M, Append(Front(s), f)) \subseteq Where(M, s) \ {Len(s)}
              /\ Where(M, Append(Front(s), f)) \subseteq Where(M, s) \cup {Len(s)}
<1> DEFINE n == Append(s, f)
           fr == Front(s)
           m == Append(Front(s), f)
<1>1. /\ Len(n) = Len(s) + 1 /\ Len(s) \in Nat
      /\ n[Len(s) + 1] = f /\ \A i \in 1..Len(s) : n[i] = s[i]
  BY AppendProperties, LenProperties
<1>2. s # <<>> => /\ Len(fr) = Len(s) - 1 /\ Len(s) \in 1..Len(s) /\ Last(s) = s[Len(s)]
                  /\ \A i \in 1..(Len(s) - 1) : fr[i] = s[i]
  <2> SUFFICES ASSUME s # <<>>
               PROVE  /\ Len(fr) = Len(s) - 1 /\ Len(s) \in 1..Len(s) /\ Last(s) = s[Len(s)]
                      /\ \A i \in 1..(Len(s) - 1) : fr[i] = s[i]
    OBVIOUS
  <2>1. /\ Len(fr) = Len(s) - 1 /\ Len(s) \in Nat \ {0} /\ Last(s) = s[Len(s)]
        /\ \A i \in 1..(Len(s) - 1) : fr[i] = s[i]
    BY FrontAndLast
  <2> HIDE DEF fr
  <2> QED BY <2>1
<1>3. s # <<>> => /\ Len(m) = Len(s) /\ m[Len(s)] = f
                  /\ \A i \in 1..(Len(s) - 1) : m[i] = s[i]
  BY ReplaceTop
<1> HIDE DEF n, fr, m
<1>4. /\ f \notin M => Where(M, n) \subseteq Where(M, s)
      /\ Where(M, n) \subseteq Where(M, s) \cup {Len(s) + 1}
  BY <1>1 DEF Where
<1>5. s # <<>> => /\ Len(s) \in Where(M, s) <=> Last(s) \in M
                  /\ Where(M, fr) \subseteq Where(M, s) \ {Len(s)}
  BY <1>1, <1>2 DEF Where
<1>6. s # <<>> => /\ f \notin M => Where(M, m) \subseteq Where(M, s) \ {Len(s)}
                  /\ Where(M, m) \subseteq Where(M, s) \cup {Len(s)}
  BY <1>1, <1>3 DEF Where
<1> QED BY <1>4, <1>5, <1>6 DEF n, fr, m

\* What leaves or joins a finite set.
LEMMA CountMoves ==
  ASSUME NEW S, IsFiniteSet(S), NEW T, NEW x
  PROVE  /\ Cardinality(S) \in Nat
         /\ T \subseteq S =>
              /\ IsFiniteSet(T) /\ Cardinality(T) \in Nat
              /\ Cardinality(T) <= Cardinality(S)
         /\ T \subseteq S \cup {x} =>
              /\ IsFiniteSet(T) /\ Cardinality(T) \in Nat
              /\ Cardinality(T) <= Cardinality(S) + 1
         /\ x \in S /\ T \subseteq S \ {x} =>
              /\ IsFiniteSet(T) /\ Cardinality(T) \in Nat
              /\ Cardinality(T) <= Cardinality(S) - 1
<1>1. Cardinality(S) \in Nat
  BY FS_CardinalityType
<1>2. /\ IsFiniteSet(S \cup {x}) /\ Cardinality(S \cup {x}) \in Nat
      /\ Cardinality(S \cup {x}) <= Cardinality(S) + 1
  <2>1. /\ IsFiniteSet(S \cup {x})
        /\ Cardinality(S \cup {x}) = IF x \in S THEN Cardinality(S) ELSE Cardinality(S) + 1
    BY FS_AddElement
  <2>2. Cardinality(S \cup {x}) \in {Cardinality(S), Cardinality(S) + 1}
    BY <2>1
  <2> QED BY <1>1, <2>1, <2>2
<1>3. x \in S => /\ IsFiniteSet(S \ {x}) /\ Cardinality(S \ {x}) \in Nat
                 /\ Cardinality(S \ {x}) = Cardinality(S) - 1
  BY <1>1, FS_RemoveElement, FS_CardinalityType
<1>4. T \subseteq S => /\ IsFiniteSet(T) /\ Cardinality(T) \in Nat
                       /\ Cardinality(T) <= Cardinality(S)
  BY FS_Subset, FS_CardinalityType
<1>5. T \subseteq S \cup {x} => /\ IsFiniteSet(T) /\ Cardinality(T) \in Nat
                                /\ Cardinality(T) <= Cardinality(S \cup {x})
  BY <1>2, FS_Subset, FS_CardinalityType
<1>6. x \in S /\ T \subseteq S \ {x} =>
        /\ IsFiniteSet(T) /\ Cardinality(T) \in Nat
        /\ Cardinality(T) <= Cardinality(S \ {x})
  BY <1>3, FS_Subset, FS_CardinalityType
<1>7. T \subseteq S \cup {x} => Cardinality(T) <= Cardinality(S) + 1
  BY <1>1, <1>2, <1>5
<1>8. x \in S /\ T \subseteq S \ {x} => Cardinality(T) <= Cardinality(S) - 1
  BY <1>1, <1>3, <1>6
<1> QED BY <1>1, <1>4, <1>5, <1>6, <1>7, <1>8

\* One thread's stack changes.
LEMMA MarkedMoves ==
  ASSUME LockInv, NEW M, NEW t \in Threads, NEW n, stack' = [stack EXCEPT ![t] = n],
         NEW x \in Nat \ {0}, NEW y \in Nat \ {0}
  PROVE  /\ x \in Where(M, stack[t]) => <<t, x>> \in Marked(M)
         /\ Where(M, n) \subseteq Where(M, stack[t]) => Marked(M)' \subseteq Marked(M)
         /\ Where(M, n) \subseteq Where(M, stack[t]) \cup {y} =>
              Marked(M)' \subseteq Marked(M) \cup {<<t, y>>}
         /\ Where(M, n) \subseteq Where(M, stack[t]) \ {x} =>
              Marked(M)' \subseteq Marked(M) \ {<<t, x>>}
<1>1. /\ stack'[t] = n /\ \A u \in Threads \ {t} : stack'[u] = stack[u]
  BY DEF LockInv
<1>2. \A u \in Threads, k \in Nat \ {0} :
        /\ <<u, k>> \in Marked(M) <=> k \in Where(M, stack[u])
        /\ <<u, k>> \in Marked(M)' <=> k \in Where(M, stack'[u])
  BY DEF Marked
<1>3. \A c \in Marked(M)' : c \in Threads \X (Nat \ {0})
  BY DEF Marked
<1>4. \A c \in Threads \X (Nat \ {0}) :
        /\ c = <<c[1], c[2]>> /\ c[1] \in Threads /\ c[2] \in Nat \ {0}
        /\ \A k : c = <<t, k>> <=> c[1] = t /\ c[2] = k
  OBVIOUS
<1>5. \A c \in Marked(M)' : \/ c[1] # t /\ c \in Marked(M)
                            \/ c[1] = t /\ c[2] \in Where(M, n)
  BY <1>1, <1>2, <1>3, <1>4
<1>6. \A c \in Marked(M)' : c[1] = t /\ c[2] \in Where(M, stack[t]) => c \in Marked(M)
  BY <1>2, <1>3, <1>4
<1>7. x \in Where(M, stack[t]) => <<t, x>> \in Marked(M)
  BY <1>2
<1>8. Where(M, n) \subseteq Where(M, stack[t]) => Marked(M)' \subseteq Marked(M)
  BY <1>5, <1>6
<1>9. Where(M, n) \subseteq Where(M, stack[t]) \cup {y} =>
        Marked(M)' \subseteq Marked(M) \cup {<<t, y>>}
  BY <1>3, <1>4, <1>5, <1>6
<1>10. Where(M, n) \subseteq Where(M, stack[t]) \ {x} =>
         Marked(M)' \subseteq Marked(M) \ {<<t, x>>}
  BY <1>3, <1>4, <1>5, <1>6
<1> QED BY <1>7, <1>8, <1>9, <1>10
-----------------------------------------------------------------------------
(***************************************************************************)
(* Chains of pulses.  As long as no setPulse came while another thread was *)
(* in startPulse or endPulse, either one such call is under way and no     *)
(* timer is live, or none is and `timer` is the one that may be live: a    *)
(* timer that fires gives way to the call, the call ends as it adds the    *)
(* next one, and setPulse invalidates the timer before it becomes the call.*)
(***************************************************************************)
Pulses == {f \in Frame : f.call = "pulse"}
Live == {i \in Timers : timers[i] = "live"}

TimersTyped ==
  /\ timer \in Timers \cup {None}
  /\ timers \in [Timers -> {"free", "made", "live"}]

ChainInv ==
  /\ TimersTyped
  /\ ~raced =>
       /\ \A c, d \in Marked(Pulses) : c = d
       /\ Marked(Pulses) # {} => Live = {}
       /\ Live \subseteq {timer}

LEMMA TimersStep == TimersTyped /\ [Next]_vars => TimersTyped'
<1> SUFFICES ASSUME TimersTyped, [Next]_vars PROVE TimersTyped'
  OBVIOUS
<1>1. CASE UNCHANGED <<timer, timers>>
  BY <1>1 DEF TimersTyped
<1>2. ASSUME NEW i \in Timers, TimerFires(i) PROVE TimersTyped'
  BY <1>2 DEF TimersTyped, TimerFires
<1>3. ASSUME NEW t \in Threads, DropTimer(t) \/ InvalidateAfter(t) PROVE TimersTyped'
  BY <1>3 DEF TimersTyped, DropTimer, InvalidateAfter, Invalidate
<1>4. ASSUME NEW t \in Threads, MakeTimer(t) PROVE TimersTyped'
  BY <1>4 DEF TimersTyped, MakeTimer
<1>5. ASSUME NEW t \in Threads, AddTimer(t) PROVE TimersTyped'
  BY <1>5 DEF TimersTyped, AddTimer
<1> QED
  BY <1>1, <1>2, <1>3, <1>4, <1>5
     DEF Next, Dispatch, SwitchOff, Notice, EnableBlink, Step, ReadValue, SetColour,
         CheckHere, StartFade, FindDevice, WriteColour, StartEnumerate,
         AddSerials, Crash, Replug, RebuildWaits, RebuildEnds, vars, ivars

\* One chain moves from its timer to a call, or from the call to a timer, or a
\* setPulse begins one, or the step does neither.
LEMMA ChainKept ==
  ASSUME ChainInv, TimersTyped', raced' => raced \/ Pulsing, raced => raced', NEW x,
         LET L == Live'
             C == Marked(Pulses)'
         IN  \/ C \subseteq Marked(Pulses) /\ L \subseteq Live /\ timer' = timer
             \/ /\ \E i \in Live : L \subseteq Live \ {i}
                /\ C \subseteq Marked(Pulses) \cup {x} /\ timer' = timer
             \/ /\ ~raced' => Marked(Pulses) = {}
                /\ C \subseteq Marked(Pulses) \cup {x}
                /\ L \subseteq Live \ {timer} /\ timer' = timer
             \/ /\ Marked(Pulses) # {}
                /\ C \subseteq Marked(Pulses) /\ L \subseteq Live
             \/ /\ x \in Marked(Pulses) /\ C \subseteq Marked(Pulses) \ {x}
                /\ L \subseteq Live \cup {timer} /\ timer' = timer
  PROVE  ChainInv'
<1> DEFINE L == Live
           C == Marked(Pulses)
<1> SUFFICES ASSUME ~raced'
             PROVE  /\ \A c, d \in C' : c = d
                    /\ C' # {} => L' = {}
                    /\ L' \subseteq {timer'}
  BY DEF ChainInv
<1>1. /\ \A c, d \in C : c = d
      /\ C # {} => L = {}
      /\ L \subseteq {timer}
  BY DEF ChainInv
<1>2. \/ C' \subseteq C /\ L' \subseteq L /\ timer' = timer
      \/ (\E i \in L : L' \subseteq L \ {i}) /\ C' \subseteq C \cup {x} /\ timer' = timer
      \/ C = {} /\ C' \subseteq C \cup {x} /\ L' \subseteq L \ {timer} /\ timer' = timer
      \/ C # {} /\ C' \subseteq C /\ L' \subseteq L
      \/ x \in C /\ C' \subseteq C \ {x} /\ L' \subseteq L \cup {timer} /\ timer' = timer
  OBVIOUS
<1> HIDE DEF L, C
<1>3. CASE C' \subseteq C /\ L' \subseteq L /\ timer' = timer
  BY <1>1, <1>3
<1>4. CASE (\E i \in L : L' \subseteq L \ {i}) /\ C' \subseteq C \cup {x} /\ timer' = timer
  <2>1. C = {} /\ L' = {}
    BY <1>1, <1>4
  <2> QED BY <1>4, <2>1
<1>5. CASE C = {} /\ C' \subseteq C \cup {x} /\ L' \subseteq L \ {timer} /\ timer' = timer
  <2>1. L' = {}
    BY <1>1, <1>5
  <2> QED BY <1>5, <2>1
<1>6. CASE C # {} /\ C' \subseteq C /\ L' \subseteq L
  <2>1. L' = {}
    BY <1>1, <1>6
  <2> QED BY <1>1, <1>6, <2>1
<1>7. CASE x \in C /\ C' \subseteq C \ {x} /\ L' \subseteq L \cup {timer} /\ timer' = timer
  <2>1. C' = {}
    BY <1>1, <1>7
  <2> QED BY <1>1, <1>7, <2>1
<1> QED BY <1>2, <1>3, <1>4, <1>5, <1>6, <1>7

\* What a thread's step does to the calls of startPulse and endPulse.
LEMMA PulsesMove ==
  ASSUME LockInv, NEW t \in Threads, Busy(t)
  PROVE  \E here \in Threads \X Nat :
           /\ Top(t) \in Pulses => here \in Marked(Pulses)
           /\ Ends(t) => Marked(Pulses)' \subseteq Marked(Pulses) \ {here}
           /\ \A f \in Frame : Becomes(t, f) =>
                /\ Marked(Pulses)' \subseteq Marked(Pulses) \cup {here}
                /\ (f \in Pulses => Top(t) \in Pulses) =>
                     Marked(Pulses)' \subseteq Marked(Pulses)
           /\ \A f, g \in Frame :
                /\ f \notin Pulses /\ g \notin Pulses
                /\ stack' = [stack EXCEPT ![t] = <<f, g>>]
                => Marked(Pulses)' \subseteq Marked(Pulses)
<1> DEFINE s == stack[t]
           n == Len(stack[t])
           here == <<t, Len(stack[t])>>
<1>1. s \in Seq(Frame) /\ s # <<>>
  BY DEF LockInv, Shaped, Busy
<1>2. n \in Nat \ {0}
  BY <1>1, FrontAndLast
<1>3. Top(t) \in Pulses => n \in Where(Pulses, s) /\ here \in Marked(Pulses)
  <2>1. \E f \in Frame : TRUE
    BY FrameOf DEF Calls, Places
  <2>2. n \in Where(Pulses, s) <=> Top(t) \in Pulses
    BY <1>1, <2>1, WhereMoves DEF Top
  <2>3. n \in Where(Pulses, s) => <<t, n>> \in Marked(Pulses)
    BY <1>2 DEF Marked
  <2> QED BY <2>2, <2>3
<1>4. ASSUME Ends(t) PROVE Marked(Pulses)' \subseteq Marked(Pulses) \ {here}
  <2>1. \E f \in Frame : TRUE
    BY FrameOf DEF Calls, Places
  <2>2. Where(Pulses, Front(s)) \subseteq Where(Pulses, s) \ {n}
    BY <1>1, <2>1, WhereMoves
  <2>3. stack' = [stack EXCEPT ![t] = Front(s)]
    BY <1>4 DEF Ends
  <2> QED BY <1>2, <2>2, <2>3, MarkedMoves
<1>5. ASSUME NEW f \in Frame, Becomes(t, f)
      PROVE  /\ Marked(Pulses)' \subseteq Marked(Pulses) \cup {here}
             /\ (f \in Pulses => Top(t) \in Pulses) =>
                  Marked(Pulses)' \subseteq Marked(Pulses)
  <2> DEFINE m == Append(Front(s), f)
  <2>1. /\ Where(Pulses, m) \subseteq Where(Pulses, s) \cup {n}
        /\ f \notin Pulses => Where(Pulses, m) \subseteq Where(Pulses, s) \ {n}
    BY <1>1, WhereMoves
  <2>2. stack' = [stack EXCEPT ![t] = m]
    BY <1>5 DEF Becomes
  <2> HIDE DEF m, s, n
  <2>3. Marked(Pulses)' \subseteq Marked(Pulses) \cup {here}
    BY <1>2, <2>1, <2>2, MarkedMoves DEF s, n
  <2>4. ASSUME f \in Pulses => Top(t) \in Pulses
        PROVE  Marked(Pulses)' \subseteq Marked(Pulses)
    <3>1. Where(Pulses, m) \subseteq Where(Pulses, s)
      BY <1>3, <2>1, <2>4
    <3> QED BY <1>2, <2>2, <3>1, MarkedMoves DEF s, n
  <2> QED BY <2>3, <2>4
<1>6. ASSUME NEW f \in Frame, NEW g \in Frame, f \notin Pulses, g \notin Pulses,
             stack' = [stack EXCEPT ![t] = <<f, g>>]
      PROVE  Marked(Pulses)' \subseteq Marked(Pulses)
  <2> DEFINE m == <<f, g>>
  <2>1. Where(Pulses, m) = {}
    BY <1>6 DEF Where
  <2>2. stack' = [stack EXCEPT ![t] = m]
    BY <1>6
  <2> HIDE DEF m
  <2> QED BY <1>2, <2>1, <2>2, MarkedMoves
<1>7. here \in Threads \X Nat
  BY <1>2
<1> HIDE DEF here, n, s
<1> QED BY <1>3, <1>4, <1>5, <1>6, <1>7

\* A thread is given a call.
LEMMA PulsesEnter ==
  ASSUME LockInv, NEW t \in Threads, NEW f \in Frame, Enter(t, f)
  PROVE  /\ \E there : Marked(Pulses)' \subseteq Marked(Pulses) \cup {there}
         /\ f \notin Pulses => Marked(Pulses)' \subseteq Marked(Pulses)
<1> DEFINE s == stack[t]
           n == Len(stack[t]) + 1
           m == Append(stack[t], f)
<1>1. s \in Seq(Frame) /\ stack' = [stack EXCEPT ![t] = m]
  BY DEF LockInv, Shaped, Enter
<1>2. n \in Nat \ {0}
  BY <1>1, LenProperties
<1>3. /\ Where(Pulses, m) \subseteq Where(Pulses, s) \cup {n}
      /\ f \notin Pulses => Where(Pulses, m) \subseteq Where(Pulses, s)
  BY <1>1, WhereMoves
<1> HIDE DEF m, n
<1>4. Marked(Pulses)' \subseteq Marked(Pulses) \cup {<<t, n>>}
  BY <1>1, <1>2, <1>3, MarkedMoves
<1>5. f \notin Pulses => Marked(Pulses)' \subseteq Marked(Pulses)
  BY <1>1, <1>2, <1>3, MarkedMoves
<1> QED BY <1>4, <1>5

\* Who sees no call of startPulse or endPulse has none to wait for.
LEMMA NotPulsing == LockInv /\ ~Pulsing => Marked(Pulses) = {}
<1> SUFFICES ASSUME LockInv, NEW c \in Marked(Pulses) PROVE Pulsing
  OBVIOUS
<1>1. c[1] \in Threads /\ c[2] \in 1..Len(stack[c[1]]) /\ stack[c[1]][c[2]] \in Pulses
  BY DEF Marked, Where
<1>2. stack[c[1]] \in Seq(Frame)
  BY <1>1 DEF LockInv, Shaped
<1>3. c[2] \in DOMAIN stack[c[1]]
  BY <1>1, <1>2, LenProperties
<1> QED BY <1>1, <1>3 DEF Pulsing, Pulses

LEMMA ChainStep == LockInv /\ ColourInv /\ ChainInv /\ [Next]_vars => ChainInv'
<1> SUFFICES ASSUME LockInv, ColourInv, ChainInv, [Next]_vars PROVE ChainInv'
  OBVIOUS
<1>typed. TimersTyped /\ TimersTyped'
  BY TimersStep DEF ChainInv
<1>pulses. \A f \in Frame : f \in Pulses <=> f.call = "pulse"
  BY DEF Pulses
<1>main. Main \in Threads /\ Backs \subseteq Threads
  BY DEF Threads
<1>rest. ASSUME Marked(Pulses)' \subseteq Marked(Pulses), Live' \subseteq Live,
                timer' = timer, raced' = raced
         PROVE  ChainInv'
  BY <1>typed, <1>rest, ChainKept
<1>enter. ASSUME NEW t \in Threads, NEW f \in Frame, Enter(t, f), f \notin Pulses,
                 Live' \subseteq Live, timer' = timer, raced' = raced
          PROVE  ChainInv'
  BY <1>enter, <1>rest, PulsesEnter
<1>same. ASSUME UNCHANGED <<stack, timer, timers, raced>> PROVE ChainInv'
  <2>1. Marked(Pulses)' \subseteq Marked(Pulses)
    BY <1>same DEF Marked
  <2> QED BY <1>same, <1>rest, <2>1 DEF Live
<1>1. CASE SwitchOff
  <2>1. /\ Enter(Main, In("off", "begin")) /\ Live' \subseteq Live
        /\ timer' = timer /\ raced' = raced
    BY <1>1 DEF SwitchOff, ivars, Live
  <2>2. In("off", "begin") \in Frame /\ In("off", "begin") \notin Pulses
    BY <1>pulses, FrameOf DEF Calls, Places
  <2> QED BY <1>main, <1>enter, <2>1, <2>2
<1>2. CASE Notice
  <2>1. /\ Enter(Main, In("enumerate", "begin")) /\ Live' \subseteq Live
        /\ timer' = timer /\ raced' = raced
    BY <1>2 DEF Notice, ivars, history, Live
  <2>2. In("enumerate", "begin") \in Frame /\ In("enumerate", "begin") \notin Pulses
    BY <1>pulses, FrameOf DEF Calls, Places
  <2> QED BY <1>main, <1>enter, <2>1, <2>2
<1>3. ASSUME NEW i \in Timers, TimerFires(i) PROVE ChainInv'
  <2>1. /\ Enter(Main, In("pulse", "fade")) /\ In("pulse", "fade") \in Frame
        /\ timer' = timer /\ raced' = raced
    BY <1>3, FrameOf DEF TimerFires, history, Calls, Places
  <2>2. i \in Live /\ Live' \subseteq Live \ {i}
    BY <1>3, <1>typed DEF TimerFires, Live, TimersTyped
  <2>3. PICK there : Marked(Pulses)' \subseteq Marked(Pulses) \cup {there}
    BY <1>main, <2>1, PulsesEnter
  <2> QED BY <1>typed, <2>1, <2>2, <2>3, ChainKept
<1>4. ASSUME NEW b \in Backs, EnableBlink(b) PROVE ChainInv'
  <2>1. /\ Enter(b, In("enable", "begin")) /\ Live' \subseteq Live
        /\ timer' = timer /\ raced' = raced
    BY <1>4 DEF EnableBlink, ivars, Live
  <2>2. In("enable", "begin") \in Frame /\ In("enable", "begin") \notin Pulses
    BY <1>pulses, FrameOf DEF Calls, Places
  <2> QED BY <1>main, <1>enter, <2>1, <2>2
<1>5. ASSUME NEW t \in Threads, Step(t) PROVE ChainInv'
  <2>busy. Busy(t)
    BY <1>5 DEF Step, ReadValue, SetColour, DropTimer, InvalidateAfter, MakeTimer,
                AddTimer, CheckHere, StartFade, FindDevice, WriteColour,
                StartEnumerate, AddSerials, Crash, At, Pending
  <2>top. Top(t) \in Frame
    BY <2>busy, TopFrame
  <2>1. PICK here \in Threads \X Nat :
          /\ Top(t) \in Pulses => here \in Marked(Pulses)
          /\ Ends(t) => Marked(Pulses)' \subseteq Marked(Pulses) \ {here}
          /\ \A f \in Frame : Becomes(t, f) =>
               /\ Marked(Pulses)' \subseteq Marked(Pulses) \cup {here}
               /\ (f \in Pulses => Top(t) \in Pulses) =>
                    Marked(Pulses)' \subseteq Marked(Pulses)
          /\ \A f, g \in Frame :
               /\ f \notin Pulses /\ g \notin Pulses
               /\ stack' = [stack EXCEPT ![t] = <<f, g>>]
               => Marked(Pulses)' \subseteq Marked(Pulses)
    BY <2>busy, PulsesMove
  <2>goes. ASSUME NEW p \in Places, Goes(t, p)
           PROVE  Marked(Pulses)' \subseteq Marked(Pulses)
    <3> DEFINE f == [Top(t) EXCEPT !.at = p]
    <3>1. f \in Frame /\ f.call = Top(t).call
      BY <2>top DEF Frame
    <3>2. f \in Pulses => Top(t) \in Pulses
      BY <1>pulses, <2>top, <3>1
    <3>3. Becomes(t, f)
      BY <2>goes DEF Goes
    <3> HIDE DEF f
    <3> QED BY <2>1, <3>1, <3>2, <3>3
  <2>after. ASSUME Becomes(t, In(Top(t).call, "after"))
            PROVE  Marked(Pulses)' \subseteq Marked(Pulses)
    <3> DEFINE f == In(Top(t).call, "after")
    <3>1. f \in Frame /\ f.call = Top(t).call
      BY <2>top, FrameOf DEF Frame, Places
    <3>2. f \in Pulses => Top(t) \in Pulses
      BY <1>pulses, <2>top, <3>1
    <3>3. Becomes(t, f)
      BY <2>after
    <3> HIDE DEF f
    <3> QED BY <2>1, <3>1, <3>2, <3>3
  <2>ends. Ends(t) => Marked(Pulses)' \subseteq Marked(Pulses)
    BY <2>1
  <2>same. timers' = timers => Live' \subseteq Live
    BY DEF Live
  <2>free. Invalidate => Live' \subseteq Live \ {timer}
    BY <1>typed DEF Invalidate, Live, TimersTyped
  <2>2. CASE ReadValue(t)
    <3>1. timer' = timer /\ raced' = raced /\ Live' \subseteq Live
      BY <2>2, <2>same DEF ReadValue, ivars, history
    <3>2. ASSUME NEW first \in {"setPulse", "off"},
                 stack' = [stack EXCEPT ![t] = <<In("enable", "second"), In(first, "begin")>>]
          PROVE  Marked(Pulses)' \subseteq Marked(Pulses)
      <4> DEFINE f == In("enable", "second")
                 g == In(first, "begin")
      <4>1. f \in Frame /\ g \in Frame /\ f \notin Pulses /\ g \notin Pulses
        BY <1>pulses, FrameOf DEF Calls, Places
      <4>2. stack' = [stack EXCEPT ![t] = <<f, g>>]
        BY <3>2
      <4> HIDE DEF f, g
      <4> QED BY <2>1, <4>1, <4>2
    <3>3. ASSUME Becomes(t, In("off", "begin"))
          PROVE  Marked(Pulses)' \subseteq Marked(Pulses)
      <4>1. In("off", "begin") \in Frame /\ In("off", "begin") \notin Pulses
        BY <1>pulses, FrameOf DEF Calls, Places
      <4> QED BY <2>1, <3>3, <4>1
    <3>4. Marked(Pulses)' \subseteq Marked(Pulses)
      BY <2>2, <2>ends, <3>2, <3>3 DEF ReadValue
    <3> QED BY <1>rest, <3>1, <3>4
  <2>3. CASE SetColour(t)
    <3>1. Goes(t, "fade") \/ Goes(t, "drop")
      BY <2>3 DEF SetColour
    <3>2. Marked(Pulses)' \subseteq Marked(Pulses)
      BY <2>goes, <3>1 DEF Places
    <3> QED BY <2>3, <2>same, <1>rest, <3>2 DEF SetColour, history
  <2>4. CASE DropTimer(t)
    <3>1. In("pulse", "fade") \in Frame /\ Becomes(t, In("pulse", "fade"))
      BY <2>4, FrameOf DEF DropTimer, Calls, Places
    <3>2. Marked(Pulses)' \subseteq Marked(Pulses) \cup {here}
      BY <2>1, <3>1
    <3>3. raced' = (raced \/ Pulsing) /\ timer' = timer /\ Live' \subseteq Live \ {timer}
      BY <2>4, <2>free DEF DropTimer
    <3>4. ~raced' => Marked(Pulses) = {}
      BY <3>3, NotPulsing
    <3> QED BY <1>typed, <3>2, <3>3, <3>4, ChainKept
  <2>5. CASE InvalidateAfter(t)
    BY <2>5, <2>free, <2>ends, <1>rest DEF InvalidateAfter, history
  <2>6. CASE MakeTimer(t)
    <3>1. Live' \subseteq Live /\ raced' = raced /\ Goes(t, "adding")
      BY <1>typed, <2>6 DEF MakeTimer, Live, TimersTyped, history
    <3>2. Marked(Pulses) # {}
      BY <1>pulses, <2>1, <2>6, <2>top DEF MakeTimer, At
    <3>3. Marked(Pulses)' \subseteq Marked(Pulses)
      BY <2>goes, <3>1 DEF Places
    <3> QED BY <1>typed, <3>1, <3>2, <3>3, ChainKept
  <2>7. CASE AddTimer(t)
    <3>1. Live' \subseteq Live \cup {timer} /\ timer' = timer /\ raced' = raced
      BY <1>typed, <2>7 DEF AddTimer, Live, TimersTyped, history
    <3>2. Ends(t) /\ Top(t) \in Pulses
      BY <1>pulses, <2>7, <2>top DEF AddTimer, At
    <3>3. here \in Marked(Pulses) /\ Marked(Pulses)' \subseteq Marked(Pulses) \ {here}
      BY <2>1, <3>2
    <3> QED BY <1>typed, <3>1, <3>3, ChainKept
  <2>8. CASE CheckHere(t)
    <3>1. Live' \subseteq Live /\ timer' = timer /\ raced' = raced
      BY <2>8, <2>same DEF CheckHere, ivars, history
    <3> DEFINE f == [Top(t) EXCEPT !.at = "locking", !.colour = currentColor]
    <3>2. f \in Frame /\ f.call = Top(t).call
      BY <2>top DEF Frame, Places, ColourInv
    <3>3. f \in Pulses => Top(t) \in Pulses
      BY <1>pulses, <2>top, <3>2
    <3>4. Goes(t, "after") \/ Becomes(t, f)
      BY <2>8 DEF CheckHere
    <3> HIDE DEF f
    <3>5. Marked(Pulses)' \subseteq Marked(Pulses)
      BY <2>1, <2>goes, <3>2, <3>3, <3>4 DEF Places
    <3> QED BY <1>rest, <3>1, <3>5
  <2>9. CASE StartFade(t)
    BY <2>9, <2>same, <2>goes, <1>rest DEF StartFade, ivars, history, Places
  <2>10. CASE FindDevice(t)
    <3>1. Live' \subseteq Live /\ timer' = timer /\ raced' = raced
      BY <2>10, <2>same DEF FindDevice, ivars, history
    <3>2. Goes(t, "opening") \/ Becomes(t, In(Top(t).call, "after"))
      BY <2>10 DEF FindDevice
    <3>3. Marked(Pulses)' \subseteq Marked(Pulses)
      BY <2>goes, <2>after, <3>2 DEF Places
    <3> QED BY <1>rest, <3>1, <3>3
  <2>11. CASE WriteColour(t)
    BY <2>11, <2>same, <2>after, <1>rest DEF WriteColour, ivars
  <2>12. CASE StartEnumerate(t)
    BY <2>12, <2>same, <2>goes, <1>rest DEF StartEnumerate, history, Places
  <2>13. CASE AddSerials(t)
    BY <2>13, <2>same, <2>ends, <1>rest DEF AddSerials, history
  <2>14. CASE Crash(t)
    BY <2>14, <1>same DEF Crash, ivars, history
  <2> QED BY <1>5, <2>2, <2>3, <2>4, <2>5, <2>6, <2>7, <2>8, <2>9, <2>10,
             <2>11, <2>12, <2>13, <2>14 DEF Step
<1>6. CASE Replug \/ RebuildWaits \/ RebuildEnds \/ UNCHANGED vars
  BY <1>6, <1>same DEF Replug, RebuildWaits, RebuildEnds, vars, ivars, run, history
<1> QED BY <1>1, <1>2, <1>3, <1>4, <1>5, <1>6 DEF Next, Dispatch

LEMMA ChainInit == Init => ChainInv
<1> SUFFICES ASSUME Init PROVE ChainInv
  OBVIOUS
<1>1. TimersTyped /\ Live = {}
  BY DEF Init, TimersTyped, Live
<1>2. Marked(Pulses) = {}
  <2>1. \A t \in Threads : stack[t] = <<>>
    BY DEF Init
  <2>2. Where(Pulses, <<>>) = {}
    BY EmptySeq DEF Where
  <2> QED BY <2>1, <2>2 DEF Marked
<1> QED BY <1>1, <1>2 DEF ChainInv

\* The next off or setPulse reaches the one chain there is, wherever the run
\* loop dispatches pulses and however enableBlink's threads interleave with
\* them, until a setPulse meets a pulse of another thread: that alone makes a
\* chain nothing can stop (Blink1.m:70, Blink1.m:78, Blink1.m:85).
THEOREM ChainsReachable == Spec => []NoOrphan
<1>1. Init => ColourInv
  BY DEF Init, ColourInv, Colours
<1>2. ChainInv => NoOrphan
  BY DEF ChainInv, NoOrphan, Live
<1> QED BY <1>1, <1>2, ChainInit, ChainStep, LockInit, LockStep, ColourStep, PTL DEF Spec
-----------------------------------------------------------------------------
(***************************************************************************)
(* Types.  The main thread's stack has at most MaxDepth calls, so it holds *)
(* the lock at most that often; an enumerate that lists devices can still  *)
(* add one serial, so they and the serials added since the array was last  *)
(* emptied are no more than the calls.                                     *)
(***************************************************************************)
Listing == {f \in Frame : f.call = "enumerate" /\ f.at = "listing"}

RoomInv ==
  /\ Len(stack[Main]) <= MaxDepth
  /\ serialnums \in Nat
  /\ serialnums + Cardinality(Where(Listing, stack[Main])) <= MaxDepth

SimpleTypes ==
  /\ currentColor \in Colours /\ light \in Colours
  /\ hidMgr \in BOOLEAN /\ plugged \in BOOLEAN /\ crashed \in BOOLEAN
  /\ noticed \in BOOLEAN
  /\ calls \in 0..MaxCalls /\ quenched \in {"no", "begun", "yes"}

LEMMA WhereFinite ==
  ASSUME NEW M, NEW s \in Seq(Frame)
  PROVE  /\ IsFiniteSet(Where(M, s)) /\ Cardinality(Where(M, s)) \in Nat
         /\ Cardinality(Where(M, s)) <= Len(s) /\ Len(s) \in Nat
<1>1. Len(s) \in Nat
  BY LenProperties
<1>2. IsFiniteSet(1..Len(s)) /\ Cardinality(1..Len(s)) = Len(s)
  <2>1. /\ IsFiniteSet(1..Len(s))
        /\ Cardinality(1..Len(s)) = IF 1 > Len(s) THEN 0 ELSE Len(s) - 1 + 1
    BY <1>1, FS_Interval
  <2> QED BY <1>1, <2>1
<1>3. Where(M, s) \subseteq 1..Len(s)
  BY DEF Where
<1> QED BY <1>1, <1>2, <1>3, FS_Subset, FS_CardinalityType

\* Another thread's stack changes, or nobody's.
LEMMA RoomOther ==
  ASSUME RoomInv, stack'[Main] = stack[Main], serialnums' = serialnums
  PROVE  RoomInv'
BY DEF RoomInv, Where

LEMMA OtherStack ==
  ASSUME LockInv, NEW t \in Threads, t # Main, NEW s, stack' = [stack EXCEPT ![t] = s]
  PROVE  stack'[Main] = stack[Main]
BY DEF LockInv, Threads

\* The main thread's stack changes, but no enumerate begins to list devices.
LEMMA RoomMoves ==
  ASSUME LockInv, RoomInv, NEW s \in Seq(Frame), stack'[Main] = s,
         Len(s) <= MaxDepth, Where(Listing, s) \subseteq Where(Listing, stack[Main]),
         serialnums' = serialnums
  PROVE  RoomInv'
<1>1. stack[Main] \in Seq(Frame)
  BY DEF LockInv, Shaped, Threads
<1> DEFINE here == Cardinality(Where(Listing, stack[Main]))
           there == Cardinality(Where(Listing, s))
<1>2. IsFiniteSet(Where(Listing, stack[Main])) /\ here \in Nat /\ there \in Nat
  BY <1>1, WhereFinite
<1>3. there <= here
  BY <1>2, FS_Subset
<1>4. serialnums \in Nat /\ serialnums + here <= MaxDepth
  BY DEF RoomInv
<1> HIDE DEF here, there
<1>5. serialnums' + there <= MaxDepth
  BY <1>2, <1>3, <1>4, BlinkAssumption
<1> QED BY <1>4, <1>5 DEF RoomInv, there

LEMMA RoomEnters ==
  ASSUME LockInv, RoomInv, Dispatching, NEW f \in Frame, f \notin Listing, Enter(Main, f),
         serialnums' = serialnums
  PROVE  RoomInv'
<1> DEFINE old == stack[Main]
           s == Append(stack[Main], f)
<1>1. old \in Seq(Frame) /\ stack'[Main] = s
  BY DEF LockInv, Shaped, Threads, Enter
<1>2. s \in Seq(Frame) /\ Len(s) = Len(old) + 1 /\ Len(old) \in Nat
  BY <1>1, AppendProperties, LenProperties
<1>3. Len(old) < MaxDepth
  BY <1>1, EmptySeq, BlinkAssumption DEF Dispatching, Busy
<1>4. Where(Listing, s) \subseteq Where(Listing, old)
  BY <1>1, WhereMoves
<1>5. Len(s) <= MaxDepth
  BY <1>2, <1>3, BlinkAssumption
<1> HIDE DEF s
<1> QED BY <1>1, <1>2, <1>4, <1>5, RoomMoves

\* A call of some thread ends or goes on.
LEMMA RoomSteps ==
  ASSUME LockInv, RoomInv, NEW t \in Threads, Busy(t), serialnums' = serialnums,
         Ends(t) \/ \E f \in Frame : f \notin Listing /\ Becomes(t, f)
  PROVE  RoomInv'
<1>1. CASE t # Main
  <2>1. \E s : stack' = [stack EXCEPT ![t] = s]
    BY DEF Ends, Becomes
  <2> QED BY <1>1, <2>1, OtherStack, RoomOther
<1>2. CASE t = Main
  <2> DEFINE old == stack[Main]
  <2>1. /\ old \in Seq(Frame) /\ old # <<>>
        /\ Ends(Main) => stack'[Main] = Front(old)
        /\ \A f \in Frame : Becomes(Main, f) => stack'[Main] = Append(Front(old), f)
    BY <1>2 DEF LockInv, Shaped, Threads, Ends, Becomes, Busy
  <2>2. Len(old) \in Nat /\ Len(old) <= MaxDepth
    BY <2>1, LenProperties DEF RoomInv
  <2>3. ASSUME Ends(Main) PROVE RoomInv'
    <3> DEFINE s == Front(old)
    <3>1. s \in Seq(Frame) /\ Len(s) = Len(old) - 1
      BY <2>1, FrontAndLast
    <3>2. \E f \in Frame : TRUE
      BY FrameOf DEF Calls, Places
    <3>3. Where(Listing, s) \subseteq Where(Listing, old)
      BY <2>1, <3>2, WhereMoves
    <3>4. Len(s) <= MaxDepth /\ stack'[Main] = s
      BY <2>1, <2>2, <2>3, <3>1, BlinkAssumption
    <3> HIDE DEF s
    <3> QED BY <3>1, <3>3, <3>4, RoomMoves
  <2>4. ASSUME NEW f \in Frame, f \notin Listing, Becomes(Main, f) PROVE RoomInv'
    <3> DEFINE s == Append(Front(old), f)
    <3>1. s \in Seq(Frame) /\ Len(s) = Len(old)
      BY <2>1, ReplaceTop
    <3>2. Where(Listing, s) \subseteq Where(Listing, old)
      BY <2>1, <2>4, WhereMoves
    <3>3. Len(s) <= MaxDepth /\ stack'[Main] = s
      BY <2>1, <2>2, <2>4, <3>1
    <3> HIDE DEF s
    <3> QED BY <3>1, <3>2, <3>3, RoomMoves
  <2> QED BY <1>2, <2>3, <2>4
<1> QED BY <1>1, <1>2

\* enumerate empties the array before it lists; what lists, adds one.
LEMMA RoomLists ==
  ASSUME LockInv, RoomInv, ColourInv, NEW t \in Threads, StartEnumerate(t)
  PROVE  RoomInv'
<1>1. t = Main /\ Busy(t) /\ Top(t) \in Frame
  BY TopFrame DEF StartEnumerate, At, Foreign
<1> DEFINE old == stack[Main]
           f == [Top(t) EXCEPT !.at = "listing"]
           s == Append(Front(old), f)
<1>2. /\ old \in Seq(Frame) /\ old # <<>> /\ f \in Frame
      /\ stack'[Main] = s /\ serialnums' = 0
  BY <1>1 DEF LockInv, Shaped, Threads, StartEnumerate, Goes, Becomes, Busy, Frame, Places
<1>3. s \in Seq(Frame) /\ Len(s) = Len(old)
  BY <1>2, ReplaceTop
<1> HIDE DEF s
<1>4. /\ Cardinality(Where(Listing, s)) \in Nat
      /\ Cardinality(Where(Listing, s)) <= Len(s) /\ Len(s) \in Nat
  BY <1>3, WhereFinite
<1>5. Len(s) <= MaxDepth
  BY <1>3 DEF RoomInv
<1>6. 0 + Cardinality(Where(Listing, s)) <= MaxDepth
  BY <1>4, <1>5, BlinkAssumption
<1> QED BY <1>2, <1>5, <1>6 DEF RoomInv

LEMMA RoomAdds ==
  ASSUME LockInv, RoomInv, NEW t \in Threads, AddSerials(t)
  PROVE  RoomInv'
<1>1. t = Main /\ Busy(t) /\ Top(t) \in Frame
  BY TopFrame DEF AddSerials, At, Foreign
<1> DEFINE old == stack[Main]
           s == Front(old)
           n == Len(old)
           before == Where(Listing, old)
           after == Where(Listing, s)
<1>2. /\ old \in Seq(Frame) /\ old # <<>> /\ stack'[Main] = s
      /\ Last(old) \in Listing
  BY <1>1 DEF LockInv, Shaped, Threads, AddSerials, Ends, Busy, At, Top, Listing
<1>3. s \in Seq(Frame) /\ Len(s) = n - 1 /\ n \in Nat \ {0}
  BY <1>2, FrontAndLast
<1>4. n \in before /\ after \subseteq before \ {n}
  BY <1>2, WhereMoves DEF Listing
<1>5. /\ IsFiniteSet(before) /\ Cardinality(before) \in Nat
  BY <1>2, WhereFinite
<1> HIDE DEF before, after
<1>6. Cardinality(after) \in Nat /\ Cardinality(after) <= Cardinality(before) - 1
  BY <1>4, <1>5, CountMoves
<1>7. /\ serialnums \in Nat /\ serialnums + Cardinality(before) <= MaxDepth
      /\ n <= MaxDepth
  BY DEF RoomInv, before
<1>8. serialnums' \in {serialnums, serialnums + 1}
  BY <1>7 DEF AddSerials
<1> HIDE DEF s, n
<1>9. /\ Len(s) <= MaxDepth /\ serialnums' \in Nat
      /\ serialnums' + Cardinality(after) <= MaxDepth
  BY <1>3, <1>5, <1>6, <1>7, <1>8, BlinkAssumption
<1> QED BY <1>2, <1>9 DEF RoomInv, after

LEMMA RoomStep == LockInv /\ ColourInv /\ RoomInv /\ [Next]_vars => RoomInv'
<1> SUFFICES ASSUME LockInv, ColourInv, RoomInv, [Next]_vars PROVE RoomInv'
  OBVIOUS
<1>listing. \A f \in Frame : f \in Listing <=> f.call = "enumerate" /\ f.at = "listing"
  BY DEF Listing
<1>1. CASE SwitchOff
  <2>1. In("off", "begin") \in Frame /\ In("off", "begin") \notin Listing
    BY <1>listing, FrameOf DEF Calls, Places
  <2> QED BY <1>1, <2>1, RoomEnters DEF SwitchOff, ivars
<1>2. CASE Notice
  <2>1. In("enumerate", "begin") \in Frame /\ In("enumerate", "begin") \notin Listing
    BY <1>listing, FrameOf DEF Calls, Places
  <2> QED BY <1>2, <2>1, RoomEnters DEF Notice, ivars
<1>3. ASSUME NEW i \in Timers, TimerFires(i) PROVE RoomInv'
  <2>1. In("pulse", "fade") \in Frame /\ In("pulse", "fade") \notin Listing
    BY <1>listing, FrameOf DEF Calls, Places
  <2> QED BY <1>3, <2>1, RoomEnters DEF TimerFires
<1>4. ASSUME NEW b \in Backs, EnableBlink(b) PROVE RoomInv'
  <2>1. b \in Threads /\ b # Main /\ \E s : stack' = [stack EXCEPT ![b] = s]
    BY <1>4, BlinkAssumption DEF Threads, EnableBlink, Enter
  <2> QED BY <1>4, <2>1, OtherStack, RoomOther DEF EnableBlink, ivars
<1>5. ASSUME NEW t \in Threads, Step(t) PROVE RoomInv'
  <2>busy. Busy(t)
    BY <1>5 DEF Step, ReadValue, SetColour, DropTimer, InvalidateAfter, MakeTimer,
                AddTimer, CheckHere, StartFade, FindDevice, WriteColour,
                StartEnumerate, AddSerials, Crash, At, Pending
  <2>top. Top(t) \in Frame /\ Top(t).call # Foreign(t)
    BY <2>busy, TopFrame
  <2>ends. ASSUME Ends(t), serialnums' = serialnums PROVE RoomInv'
    BY <2>busy, <2>ends, RoomSteps
  <2>becomes. ASSUME NEW f \in Frame, Becomes(t, f), f.call # "enumerate",
                     serialnums' = serialnums
              PROVE  RoomInv'
    BY <1>listing, <2>busy, <2>becomes, RoomSteps
  <2>goes. ASSUME NEW p \in Places, Goes(t, p), Top(t).call # "enumerate",
                  serialnums' = serialnums
           PROVE  RoomInv'
    <3> DEFINE f == [Top(t) EXCEPT !.at = p]
    <3>1. f \in Frame /\ f.call # "enumerate"
      BY <2>top, <2>goes DEF Frame
    <3>2. Becomes(t, f)
      BY <2>goes DEF Goes
    <3> HIDE DEF f
    <3> QED BY <2>becomes, <2>goes, <3>1, <3>2
  <2>in. ASSUME NEW c \in Calls, NEW p \in Places, Becomes(t, In(c, p)), c # "enumerate",
                serialnums' = serialnums
         PROVE  RoomInv'
    BY <2>becomes, <2>in, FrameOf
  <2>call. Top(t).call \in Calls
    BY <2>top DEF Frame
  <2>1. CASE ReadValue(t)
    <3>1. serialnums' = serialnums /\ Top(t).call = "enable" /\ t # Main
      BY <2>1, <2>top DEF ReadValue, ivars, At, Foreign
    <3>2. \E s : stack' = [stack EXCEPT ![t] = s]
      BY <2>1 DEF ReadValue, Becomes, Ends
    <3> QED BY <3>1, <3>2, OtherStack, RoomOther
  <2>2. CASE SetColour(t)
    BY <2>2, <2>goes DEF SetColour, At, Places
  <2>3. CASE DropTimer(t)
    BY <2>3, <2>in DEF DropTimer, Calls, Places
  <2>4. CASE InvalidateAfter(t)
    BY <2>4, <2>ends DEF InvalidateAfter
  <2>5. CASE MakeTimer(t)
    BY <2>5, <2>goes DEF MakeTimer, At, Places
  <2>6. CASE AddTimer(t)
    BY <2>6, <2>ends DEF AddTimer
  <2>7. CASE CheckHere(t)
    <3>1. serialnums' = serialnums /\ Top(t).call # "enumerate"
      BY <2>7 DEF CheckHere, At, ivars
    <3>2. ASSUME Goes(t, "after") PROVE RoomInv'
      BY <2>goes, <3>1, <3>2 DEF Places
    <3> DEFINE f == [Top(t) EXCEPT !.at = "locking", !.colour = currentColor]
    <3>3. f \in Frame /\ f.call # "enumerate"
      BY <2>top, <3>1 DEF Frame, Places, ColourInv
    <3>4. Goes(t, "after") \/ Becomes(t, f)
      BY <2>7 DEF CheckHere
    <3> HIDE DEF f
    <3>5. ASSUME Becomes(t, f) PROVE RoomInv'
      BY <2>becomes, <3>1, <3>3, <3>5
    <3> QED BY <3>2, <3>4, <3>5
  <2>8. CASE StartFade(t)
    BY <2>8, <2>goes DEF StartFade, At, ivars, Places
  <2>9. CASE FindDevice(t)
    <3>1. serialnums' = serialnums /\ Top(t).call # "enumerate"
      BY <2>9 DEF FindDevice, At, ivars
    <3>2. ASSUME Goes(t, "opening") PROVE RoomInv'
      BY <2>goes, <3>1, <3>2 DEF Places
    <3>3. ASSUME Becomes(t, In(Top(t).call, "after")) PROVE RoomInv'
      BY <2>in, <2>call, <3>1, <3>3 DEF Places
    <3> QED BY <2>9, <3>2, <3>3 DEF FindDevice
  <2>10. CASE WriteColour(t)
    BY <2>10, <2>in, <2>call DEF WriteColour, At, ivars, Places
  <2>11. CASE StartEnumerate(t)
    BY <2>11, RoomLists
  <2>12. CASE AddSerials(t)
    BY <2>12, RoomAdds
  <2>13. CASE Crash(t)
    BY <2>13, RoomOther DEF Crash, ivars
  <2> QED BY <1>5, <2>1, <2>2, <2>3, <2>4, <2>5, <2>6, <2>7, <2>8, <2>9, <2>10,
             <2>11, <2>12, <2>13 DEF Step
<1>6. CASE Replug \/ RebuildWaits \/ RebuildEnds \/ UNCHANGED vars
  BY <1>6, RoomOther DEF Replug, RebuildWaits, RebuildEnds, vars, ivars, run
<1> QED BY <1>1, <1>2, <1>3, <1>4, <1>5, <1>6 DEF Next, Dispatch

LEMMA SimpleStep == LockInv /\ SimpleTypes /\ [Next]_vars => SimpleTypes'
<1> SUFFICES ASSUME LockInv, SimpleTypes, [Next]_vars PROVE SimpleTypes'
  OBVIOUS
<1> USE DEF SimpleTypes, Colours
<1>1. CASE SwitchOff \/ Notice \/ \E i \in Timers : TimerFires(i)
  BY <1>1 DEF SwitchOff, Notice, TimerFires, ivars, usb, history
<1>2. ASSUME NEW b \in Backs, EnableBlink(b) PROVE SimpleTypes'
  <2>1. calls' \in 0..MaxCalls
    BY <1>2, BlinkAssumption DEF EnableBlink
  <2> QED BY <1>2, <2>1 DEF EnableBlink, ivars, usb
<1>3. ASSUME NEW t \in Threads, Step(t) PROVE SimpleTypes'
  <2>1. CASE WriteColour(t)
    <3>1. Top(t).colour \in Colours
      BY <2>1, TopFrame DEF WriteColour, At, Frame
    <3> QED BY <2>1, <3>1 DEF WriteColour, ivars
  <2>2. CASE ~WriteColour(t)
    BY <1>3, <2>2 DEF Step, ReadValue, SetColour, DropTimer, InvalidateAfter, MakeTimer,
              AddTimer, CheckHere, StartFade, FindDevice, StartEnumerate, AddSerials,
              Crash, ivars, usb, history
  <2> QED BY <2>1, <2>2
<1>4. CASE Replug \/ RebuildWaits \/ RebuildEnds \/ UNCHANGED vars
  BY <1>4 DEF Replug, RebuildWaits, RebuildEnds, vars, ivars, usb, run, history
<1> QED BY <1>1, <1>2, <1>3, <1>4 DEF Next, Dispatch

\* Where rebuilds wait, and whether a setPulse raced.
HistoryTypes == rebuilding \subseteq 1..MaxDepth /\ raced \in BOOLEAN

LEMMA HistoryStep == LockInv /\ RoomInv /\ HistoryTypes /\ [Next]_vars => HistoryTypes'
<1> SUFFICES ASSUME LockInv, RoomInv, HistoryTypes, [Next]_vars PROVE HistoryTypes'
  OBVIOUS
<1>1. CASE RebuildWaits
  <2>1. stack[Main] \in Seq(Frame) /\ stack[Main] # <<>>
    BY <1>1 DEF LockInv, Shaped, Threads, RebuildWaits, Pending, Busy
  <2>2. Len(stack[Main]) \in Nat \ {0}
    BY <2>1, FrontAndLast
  <2>3. Len(stack[Main]) \in 1..MaxDepth
    BY <2>2, BlinkAssumption DEF RoomInv
  <2> QED BY <1>1, <2>3 DEF RebuildWaits, HistoryTypes, history
<1>2. CASE RebuildEnds
  BY <1>2 DEF RebuildEnds, HistoryTypes, history
<1>3. ASSUME NEW t \in Threads, DropTimer(t) PROVE HistoryTypes'
  BY <1>3, Zenon DEF DropTimer, HistoryTypes
<1>4. CASE UNCHANGED <<rebuilding, raced>>
  BY <1>4 DEF HistoryTypes
<1> QED
  BY <1>1, <1>2, <1>3, <1>4
     DEF Next, Dispatch, SwitchOff, Notice, TimerFires, EnableBlink, Step, ReadValue,
         SetColour, InvalidateAfter, MakeTimer, AddTimer, CheckHere, StartFade,
         FindDevice, WriteColour, StartEnumerate, AddSerials, Crash, Replug, vars,
         history

\* The types of the light, whatever the threads, the timers and the depth to
\* which calls nest.
THEOREM LightTypes == Spec => []TypeOK
<1>1. Init => ColourInv /\ SimpleTypes
  <2> SUFFICES ASSUME Init PROVE ColourInv /\ SimpleTypes
    OBVIOUS
  <2>1. calls \in 0..MaxCalls
    BY BlinkAssumption DEF Init
  <2>2. hidMgr \in BOOLEAN /\ plugged \in BOOLEAN /\ crashed \in BOOLEAN
    BY Zenon DEF Init
  <2>3. /\ currentColor \in Colours /\ light \in Colours
        /\ noticed \in BOOLEAN /\ quenched \in {"no", "begun", "yes"}
    BY DEF Init, Colours
  <2> QED BY <2>1, <2>2, <2>3 DEF ColourInv, SimpleTypes
<1>2. Init => RoomInv
  <2> SUFFICES ASSUME Init PROVE RoomInv
    OBVIOUS
  <2>1. stack[Main] = <<>> /\ serialnums \in 0..1
    BY DEF Init, Threads
  <2>2. Where(Listing, <<>>) = {} /\ Len(<<>>) = 0
    BY EmptySeq DEF Where
  <2>3. Cardinality({}) = 0
    BY FS_EmptySet
  <2>4. Len(stack[Main]) = 0 /\ Cardinality(Where(Listing, stack[Main])) = 0
    BY <2>1, <2>2, <2>3
  <2> QED BY <2>1, <2>4, BlinkAssumption DEF RoomInv
<1>3. LockInv /\ RoomInv /\ SimpleTypes /\ TimersTyped /\ HistoryTypes => TypeOK
  <2> SUFFICES ASSUME LockInv, RoomInv, SimpleTypes, TimersTyped, HistoryTypes PROVE TypeOK
    OBVIOUS
  <2>1. stack \in [Threads -> Seq(Frame)]
    BY DEF LockInv, Shaped
  <2>2. \A t \in Threads : Depth(t, stack[t]) <= MaxDepth
    <3>1. stack[Main] \in Seq(Frame) /\ Len(stack[Main]) \in Nat
      BY <2>1, LenProperties DEF Threads
    <3> QED BY <3>1, BlinkAssumption DEF Depth, RoomInv
  <2>3. lock \in [owner : Threads, held : 0..MaxDepth]
    <3>1. lock \in [owner : Threads, held : Nat] /\ lock.held <= MaxDepth
      BY <2>2 DEF LockInv
    <3>2. lock.held \in 0..MaxDepth
      BY <3>1, BlinkAssumption
    <3> QED BY <3>1, <3>2
  <2>4. serialnums \in 0..MaxDepth
    <3>1. stack[Main] \in Seq(Frame)
      BY <2>1 DEF Threads
    <3>2. Cardinality(Where(Listing, stack[Main])) \in Nat
      BY <3>1, WhereFinite
    <3> QED BY <3>2, BlinkAssumption DEF RoomInv
  <2> QED BY <2>1, <2>3, <2>4 DEF TypeOK, SimpleTypes, TimersTyped, HistoryTypes
<1>4. Init => TimersTyped /\ HistoryTypes
  BY DEF Init, TimersTyped, HistoryTypes
<1> QED BY <1>1, <1>2, <1>3, <1>4, LockInit, LockStep, ColourStep, RoomStep, SimpleStep,
           TimersStep, HistoryStep, PTL DEF Spec
=============================================================================
