--------------------------- MODULE InputProofs ---------------------------
(***************************************************************************)
(* Proofs about what comes into the kernel, from its devices and its       *)
(* tasks.                                                                  *)
(*                                                                         *)
(* First module Keyboard, for any readers and keys, every size of the      *)
(* buffer and any number of events: what a reader that is alone gets, and  *)
(* how the handler decodes presses, releases and shift.                    *)
(*                                                                         *)
(* Then module Interrupts, for every number of tasks and every longest     *)
(* sleep: its types, and that a system call leaves with its own result.    *)
(* The argument is that only a keyboard read can have interrupts on inside *)
(* the kernel, so that every other exit stub runs undisturbed from its     *)
(* first step to its iretq.                                                *)
(***************************************************************************)
EXTENDS Keyboard, Interrupts, SequenceTheorems, TLAPS

(* Nobody else reads as long as shared says so.                            *)
SharedIsKnown ==
  \A r, q \in Readers : pc[r] # "idle" /\ ~shared[r] /\ q # r => pc[q] = "idle"

(* From the clearing of the slot on, a reader that is alone can find there *)
(* only what was pushed since its wait began.                              *)
SlotIsNew ==
  \A r \in Readers :
    /\ since[r] <= Len(log)
    /\ ~shared[r] =>
         /\ pc[r] \in {"wait", "copy"} =>
              kb_buf[key_pop_ptr] = 0 \/ kb_buf[key_pop_ptr] > since[r]
         /\ pc[r] = "copy" => kb_buf[key_pop_ptr] # 0

(* Only a later wait clears its slot in a step of its own.                 *)
ClearIsLater == \A r \in Readers : pc[r] = "clear" => ~intsOff[r]

(* What the bytes on the wire, and those fetched, say of the keys that are *)
(* down, until an extended key is released: each movement in turn, from    *)
(* its first byte to its last.                                             *)
Tracked == has_shift = (Shift \in held)

OnWire ==
  \/ wire = <<>> /\ ~prev_has_80 /\ Tracked
  \/ \E k \in Keys, up \in BOOLEAN :
       wire = <<[key |-> k, release |-> up]>> /\ ~prev_has_80 /\ Tracked
  \/ \E up \in BOOLEAN :
       wire = <<[key |-> Shift, release |-> up]>> /\ ~prev_has_80 /\ (Shift \in held) = ~up
  \/ \E k \in ExtKeys :
       /\ wire = <<[key |-> Prefix], [key |-> k, release |-> FALSE]>>
       /\ ~prev_has_80 /\ Tracked
  \/ \E k \in ExtKeys :
       wire = <<[key |-> k, release |-> FALSE]>> /\ prev_has_80 /\ Tracked

WireIsDecoded == ~extUsed => OnWire

IInv ==
  /\ TypeOK
  /\ SharedIsKnown /\ SlotIsNew /\ ClearIsLater
  /\ AloneReadsOnlyNewKeys /\ FirstWaitMissesNoKey
  /\ WireIsDecoded /\ PressIsPressUntilExt
-----------------------------------------------------------------------------
Plain == [key : Keys \cup ExtKeys, release : BOOLEAN]

LEMMA IncInSlot == ASSUME NEW i \in Slot PROVE Inc(i) \in Slot
BY KeyboardAssumption DEF Slot, Inc

LEMMA InitIInv == Init => IInv
<1> SUFFICES ASSUME Init PROVE IInv
  OBVIOUS
<1> USE KeyboardAssumption DEF Init
<1>1. TypeOK
  <2>1. 0 \in Slot /\ 0 \in Event /\ Len(log) = 0 /\ Len(wire) = 0 /\ MaxEvents >= 0
    BY DEF Slot, Event
  <2>2. wire \in Seq(Byte) /\ log \in Seq(Logged)
    OBVIOUS
  <2>3. kb_buf \in [Slot -> Event] /\ ret \in [Readers -> Event] /\ since \in [Readers -> Event]
    BY <2>1
  <2>4. /\ pc \in [Readers -> {"idle", "again", "clear", "wait", "copy", "advance"}]
        /\ shared \in [Readers -> BOOLEAN] /\ intsOff \in [Readers -> BOOLEAN]
    OBVIOUS
  <2>5. held \subseteq Keys \cup ExtKeys \cup {Shift}
    OBVIOUS
  <2>6. /\ has_shift \in BOOLEAN /\ prev_has_80 \in BOOLEAN /\ extUsed \in BOOLEAN
        /\ key_pop_ptr \in Slot /\ key_push_ptr \in Slot
    BY <2>1
  <2> HIDE DEF Init
  <2> QED  BY <2>1, <2>2, <2>3, <2>4, <2>5, <2>6 DEF TypeOK
<1>2. SharedIsKnown /\ SlotIsNew /\ ClearIsLater
  BY DEF SharedIsKnown, SlotIsNew, ClearIsLater
<1>3. AloneReadsOnlyNewKeys /\ FirstWaitMissesNoKey
  BY DEF AloneReadsOnlyNewKeys, FirstWaitMissesNoKey
<1>4. WireIsDecoded /\ PressIsPressUntilExt
  <2>1. WireIsDecoded
    <3>1. has_shift = FALSE /\ held = {}
      OBVIOUS
    <3>2. (Shift \in held) = FALSE
      BY <3>1
    <3> HIDE DEF Init
    <3>3. Tracked
      BY <3>1, <3>2, Zenon DEF Tracked
    <3> QED  BY <3>3 DEF WireIsDecoded, OnWire, Init
  <2>2. PressIsPressUntilExt
    BY DEF PressIsPressUntilExt
  <2> QED  BY <2>1, <2>2
<1> QED  BY <1>1, <1>2, <1>3, <1>4 DEF IInv
-----------------------------------------------------------------------------
(* What the handler does with a byte: it stores nothing, or one event for  *)
(* a key that is not shift.                                                *)
LEMMA HandlerPushes ==
  ASSUME TypeOK, kb_handler
  PROVE  /\ wire' = Tail(wire) /\ wire' \in Seq(Byte) /\ Len(wire') <= 2
         /\ has_shift' \in BOOLEAN /\ prev_has_80' \in BOOLEAN
         /\ NoPush \/ \E pressed \in BOOLEAN, b \in Plain :
                        b = Head(wire) /\ Push(pressed, b)
<1> DEFINE b == Head(wire)
<1>1. wire \in Seq(Byte) /\ wire # <<>> /\ Len(wire) <= 2
  BY DEF TypeOK, kb_handler
<1>2. b \in Byte /\ wire' = Tail(wire) /\ wire' \in Seq(Byte) /\ Len(wire') <= 2
  BY <1>1, HeadTailProperties DEF kb_handler
<1>3. b.key # Prefix => b \in [key : Keys \cup ExtKeys \cup {Shift}, release : BOOLEAN]
  BY <1>2 DEF Byte
<1>4. b.key # Prefix /\ b.key # Shift => b \in Plain
  BY <1>3 DEF Plain
<1>5. has_shift \in BOOLEAN /\ prev_has_80 \in BOOLEAN
  BY DEF TypeOK
<1> HIDE DEF b
<1>6. \/ b.key = Prefix /\ prev_has_80' = TRUE /\ UNCHANGED has_shift /\ NoPush
      \/ b.key # Prefix /\ ReleaseByte(b)
      \/ b.key # Prefix /\ PressByte(b)
  BY DEF kb_handler, b
<1>7. CASE b.key = Prefix /\ prev_has_80' = TRUE /\ UNCHANGED has_shift /\ NoPush
  BY <1>2, <1>5, <1>7
<1>8. CASE b.key # Prefix /\ ReleaseByte(b)
  <2>1. NoPush \/ (b \in Plain /\ Push(FALSE, b))
    BY <1>4, <1>8 DEF ReleaseByte
  <2>2. has_shift' \in BOOLEAN /\ prev_has_80' \in BOOLEAN
    BY <1>5, <1>8 DEF ReleaseByte
  <2> QED  BY <1>2, <2>1, <2>2 DEF b
<1>9. CASE b.key # Prefix /\ PressByte(b)
  <2>1. NoPush \/ (b \in Plain /\ (Push(FALSE, b) \/ Push(TRUE, b)))
    BY <1>4, <1>9 DEF PressByte
  <2>2. has_shift' \in BOOLEAN /\ prev_has_80' \in BOOLEAN
    BY <1>5, <1>9 DEF PressByte
  <2> QED  BY <1>2, <2>1, <2>2 DEF b
<1> QED  BY <1>6, <1>7, <1>8, <1>9

(* A push stores the number of a new event, later than every wait.         *)
LEMMA PushStep ==
  ASSUME TypeOK, Len(log) < MaxEvents, NEW pressed \in BOOLEAN, NEW b \in Plain,
         Push(pressed, b)
  PROVE  /\ kb_buf' \in [Slot -> Event] /\ key_push_ptr' \in Slot
         /\ log' \in Seq(Logged) /\ Len(log') = Len(log) + 1 /\ Len(log') <= MaxEvents
         /\ Len(log) \in Nat
         /\ \A i \in 1 .. Len(log) : log'[i] = log[i]
         /\ log'[Len(log) + 1] = [key |-> b.key, pressed |-> pressed, release |-> b.release]
         /\ kb_buf'[key_push_ptr] = Len(log) + 1
         /\ \A s \in Slot \ {key_push_ptr} : kb_buf'[s] = kb_buf[s]
<1> DEFINE e == [key |-> b.key, pressed |-> pressed, release |-> b.release]
<1>1. e \in Logged
  BY DEF Logged, Plain
<1> HIDE DEF e
<1>2. log \in Seq(Logged) /\ Len(log) \in Nat /\ log' = Append(log, e)
  BY DEF TypeOK, Push, e
<1>3. /\ log' \in Seq(Logged) /\ Len(log') = Len(log) + 1
      /\ \A i \in 1 .. Len(log) : log'[i] = log[i] /\ log'[Len(log) + 1] = e
  BY <1>1, <1>2, AppendProperties
<1>4. MaxEvents \in Nat /\ Len(log) + 1 \in Event
  BY <1>2, KeyboardAssumption DEF Event
<1>5. log'[Len(log) + 1] = e
  BY <1>1, <1>2, AppendProperties
<1>6. /\ kb_buf' \in [Slot -> Event] /\ kb_buf'[key_push_ptr] = Len(log) + 1
      /\ \A s \in Slot \ {key_push_ptr} : kb_buf'[s] = kb_buf[s]
  BY <1>4 DEF TypeOK, Push
<1>7. key_push_ptr' \in Slot
  BY IncInSlot DEF TypeOK, Push
<1> QED  BY <1>2, <1>3, <1>4, <1>5, <1>6, <1>7 DEF e
-----------------------------------------------------------------------------
(* As long as no extended key was released, the handler tells a press from *)
(* a release, keeps has_shift, and leaves a prefix behind only while the   *)
(* byte it belongs to is on the wire.                                      *)
LEMMA HandlerDecodes ==
  ASSUME TypeOK, OnWire, kb_handler
  PROVE  /\ OnWire'
         /\ NoPush \/ \E pressed \in BOOLEAN, b \in Plain :
                        Push(pressed, b) /\ (b.key \in Keys => pressed = ~b.release)
<1> DEFINE Decoded(pressed, b) == b \in Plain /\ Push(pressed, b) /\ (b.key \in Keys => pressed = ~b.release)
<1> SUFFICES OnWire' /\ (NoPush \/ \E pressed \in BOOLEAN, b \in Plain : Decoded(pressed, b))
  OBVIOUS
<1>0. Keys \cap ExtKeys = {} /\ {Prefix, Shift} \cap (Keys \cup ExtKeys) = {} /\ Prefix # Shift
  BY KeyboardAssumption DEF Prefix, Shift
<1>1. wire # <<>> /\ wire' = Tail(wire) /\ UNCHANGED held
  BY DEF kb_handler
<1>2. ASSUME NEW b, b = Head(wire)
      PROVE  /\ b.key = Prefix => prev_has_80' = TRUE /\ UNCHANGED has_shift /\ NoPush
             /\ b.key # Prefix /\ b.release => ReleaseByte(b)
             /\ b.key # Prefix /\ ~b.release => PressByte(b)
  BY <1>2 DEF kb_handler
<1>3. has_shift \in BOOLEAN /\ prev_has_80 \in BOOLEAN
  BY DEF TypeOK
<1>4. Tracked /\ UNCHANGED has_shift => Tracked'
  BY <1>1 DEF Tracked
<1>5. ASSUME NEW k \in Keys, NEW up \in BOOLEAN,
             wire = <<[key |-> k, release |-> up]>>, ~prev_has_80, Tracked
      PROVE  OnWire' /\ \E pressed \in BOOLEAN, b \in Plain : Decoded(pressed, b)
  <2> DEFINE b == [key |-> k, release |-> up]
  <2>1. Head(wire) = b /\ wire' = <<>>
    BY <1>1, <1>5
  <2>2. b \in Plain /\ b.key = k /\ b.release = up /\ b.key # Prefix /\ b.key # Shift
    BY <1>0 DEF Plain
  <2> HIDE DEF b
  <2>3. /\ up => ReleaseByte(b)
        /\ ~up => PressByte(b)
    BY <1>2, <2>1, <2>2
  <2>4. CASE up
    <3>1. UNCHANGED <<has_shift, prev_has_80>> /\ Push(FALSE, b)
      BY <1>3, <2>2, <2>3, <2>4 DEF ReleaseByte
    <3>2. Decoded(FALSE, b)
      BY <2>2, <2>4, <3>1
    <3>3. OnWire'
      BY <1>4, <1>5, <2>1, <3>1 DEF OnWire
    <3> QED  BY <2>2, <3>2, <3>3
  <2>5. CASE ~up
    <3>1. UNCHANGED <<has_shift, prev_has_80>> /\ Push(TRUE, b)
      BY <1>3, <1>5, <2>2, <2>3, <2>5 DEF PressByte
    <3>2. Decoded(TRUE, b)
      BY <2>2, <2>5, <3>1
    <3>3. OnWire'
      BY <1>4, <1>5, <2>1, <3>1 DEF OnWire
    <3> QED  BY <2>2, <3>2, <3>3
  <2> QED  BY <2>4, <2>5
<1>6. ASSUME NEW up \in BOOLEAN,
             wire = <<[key |-> Shift, release |-> up]>>, ~prev_has_80,
             (Shift \in held) = ~up
      PROVE  OnWire' /\ NoPush
  <2> DEFINE b == [key |-> Shift, release |-> up]
  <2>1. Head(wire) = b /\ wire' = <<>>
    BY <1>1, <1>6
  <2>2. b.key = Shift /\ b.release = up /\ b.key # Prefix
    BY <1>0
  <2> HIDE DEF b
  <2>3. /\ up => ReleaseByte(b)
        /\ ~up => PressByte(b)
    BY <1>2, <2>1, <2>2
  <2>4. (up => ~has_shift') /\ (~up => has_shift') /\ has_shift' \in BOOLEAN
        /\ UNCHANGED prev_has_80 /\ NoPush
    BY <1>3, <1>6, <2>2, <2>3 DEF ReleaseByte, PressByte
  <2>5. Tracked'
    BY <1>1, <1>6, <2>4, Zenon DEF Tracked
  <2> QED  BY <1>6, <2>1, <2>4, <2>5 DEF OnWire
<1>7. ASSUME NEW k \in ExtKeys,
             wire = <<[key |-> Prefix], [key |-> k, release |-> FALSE]>>, Tracked
      PROVE  OnWire' /\ NoPush
  <2> DEFINE p == [key |-> Prefix]
             b == [key |-> k, release |-> FALSE]
  <2>0. p.key = Prefix
    OBVIOUS
  <2> HIDE DEF p, b
  <2>1. Head(wire).key = Prefix /\ wire' = <<[key |-> k, release |-> FALSE]>>
    <3>1. wire = <<p, b>>
      BY <1>7 DEF p, b
    <3>2. Head(wire) = p /\ Tail(wire) = <<b>>
      BY <3>1
    <3> QED  BY <1>1, <2>0, <3>2 DEF b
  <2>2. prev_has_80' = TRUE /\ UNCHANGED has_shift /\ NoPush
    BY <1>2, <2>1
  <2> QED  BY <1>4, <1>7, <2>1, <2>2 DEF OnWire
<1>8. ASSUME NEW k \in ExtKeys,
             wire = <<[key |-> k, release |-> FALSE]>>, prev_has_80, Tracked
      PROVE  OnWire' /\ \E pressed \in BOOLEAN, b \in Plain : Decoded(pressed, b)
  <2> DEFINE b == [key |-> k, release |-> FALSE]
  <2>1. Head(wire) = b /\ wire' = <<>>
    BY <1>1, <1>8
  <2>2. b \in Plain /\ b.key = k /\ ~b.release /\ b.key # Prefix /\ b.key # Shift /\ b.key \notin Keys
    BY <1>0 DEF Plain
  <2> HIDE DEF b
  <2>3. ~prev_has_80' /\ UNCHANGED has_shift /\ Push(FALSE, b)
    BY <1>2, <1>3, <1>8, <2>1, <2>2 DEF PressByte
  <2>4. Decoded(FALSE, b)
    BY <2>2, <2>3
  <2>5. OnWire'
    BY <1>4, <1>8, <2>1, <2>3 DEF OnWire
  <2> QED  BY <2>2, <2>4, <2>5
<1> HIDE DEF Decoded
<1> QED  BY <1>1, <1>5, <1>6, <1>7, <1>8 DEF OnWire

(* The events that were logged say what they were.                         *)
LEMMA HandlerRecords ==
  ASSUME TypeOK, WireIsDecoded, PressIsPressUntilExt, kb_handler
  PROVE  WireIsDecoded' /\ PressIsPressUntilExt'
<1>1. UNCHANGED extUsed /\ Len(log) < MaxEvents
  BY DEF kb_handler
<1>2. CASE extUsed
  BY <1>1, <1>2 DEF WireIsDecoded, PressIsPressUntilExt
<1>3. CASE ~extUsed
  <2>1. OnWire
    BY <1>3 DEF WireIsDecoded
  <2>2. WireIsDecoded'
    BY <2>1, HandlerDecodes DEF WireIsDecoded
  <2>3. CASE NoPush
    BY <1>1, <2>2, <2>3 DEF NoPush, PressIsPressUntilExt
  <2>4. ASSUME NEW pressed \in BOOLEAN, NEW b \in Plain, Push(pressed, b),
               b.key \in Keys => pressed = ~b.release
        PROVE  PressIsPressUntilExt'
    <3>1. /\ log \in Seq(Logged) /\ log' \in Seq(Logged)
          /\ Len(log') = Len(log) + 1 /\ Len(log) \in Nat
          /\ \A i \in 1 .. Len(log) : log'[i] = log[i]
          /\ log'[Len(log) + 1] = [key |-> b.key, pressed |-> pressed, release |-> b.release]
      BY <1>1, <2>4, PushStep DEF TypeOK
    <3>2. ASSUME NEW i \in DOMAIN log', log'[i].key \in Keys
          PROVE  log'[i].pressed = ~log'[i].release
      <4>1. i \in 1 .. Len(log) + 1 /\ DOMAIN log = 1 .. Len(log)
        BY <3>1, LenProperties
      <4>2. CASE i \in 1 .. Len(log)
        BY <1>3, <3>1, <3>2, <4>1, <4>2 DEF PressIsPressUntilExt
      <4>3. CASE i = Len(log) + 1
        BY <2>4, <3>1, <3>2, <4>3
      <4> QED  BY <3>1, <4>1, <4>2, <4>3
    <3> QED  BY <3>2 DEF PressIsPressUntilExt
  <2> QED  BY <2>1, <2>2, <2>3, <2>4, HandlerDecodes
<1> QED  BY <1>2, <1>3
-----------------------------------------------------------------------------
(* What a step of the handler keeps of the readers' side.                  *)
ReadersInv ==
  SharedIsKnown /\ SlotIsNew /\ ClearIsLater /\ AloneReadsOnlyNewKeys /\ FirstWaitMissesNoKey

LEMMA HandlerKeeps ==
  ASSUME TypeOK, ReadersInv, kb_handler
  PROVE  TypeOK' /\ ReadersInv'
<1>1. /\ UNCHANGED <<held, key_pop_ptr, pc, ret, since, shared, intsOff, extUsed>>
      /\ Len(log) < MaxEvents
  BY DEF kb_handler
<1>2. ClearIsLater' /\ AloneReadsOnlyNewKeys' /\ SharedIsKnown'
  BY <1>1 DEF ReadersInv, ClearIsLater, AloneReadsOnlyNewKeys, SharedIsKnown
<1>3. CASE NoPush
  <2>1. SlotIsNew' /\ FirstWaitMissesNoKey'
    BY <1>1, <1>3 DEF ReadersInv, SlotIsNew, FirstWaitMissesNoKey, Watches, NoPush
  <2>2. TypeOK'
    BY <1>1, <1>3, HandlerPushes DEF TypeOK, NoPush
  <2> QED  BY <1>2, <2>1, <2>2 DEF ReadersInv
<1>4. ASSUME NEW pressed \in BOOLEAN, NEW b \in Plain, Push(pressed, b)
      PROVE  TypeOK' /\ ReadersInv'
  <2>1. /\ kb_buf' \in [Slot -> Event] /\ key_push_ptr' \in Slot
        /\ log' \in Seq(Logged) /\ Len(log') = Len(log) + 1 /\ Len(log') <= MaxEvents
        /\ Len(log) \in Nat
        /\ kb_buf'[key_push_ptr] = Len(log) + 1
        /\ \A s \in Slot \ {key_push_ptr} : kb_buf'[s] = kb_buf[s]
    BY <1>1, <1>4, PushStep
  <2>2. TypeOK'
    BY <1>1, <2>1, HandlerPushes DEF TypeOK
  <2>3. /\ key_pop_ptr \in Slot
        /\ \/ kb_buf'[key_pop_ptr'] = Len(log) + 1
           \/ key_pop_ptr # key_push_ptr /\ kb_buf'[key_pop_ptr'] = kb_buf[key_pop_ptr]
    BY <1>1, <2>1 DEF TypeOK
  <2>4. ASSUME NEW r \in Readers
        PROVE  since[r] \in Nat /\ since[r] <= Len(log) /\ since[r] < Len(log) + 1
    BY <2>1 DEF TypeOK, Event, ReadersInv, SlotIsNew
  <2>5. SlotIsNew'
    BY <1>1, <2>1, <2>3, <2>4 DEF ReadersInv, SlotIsNew
  <2>6. FirstWaitMissesNoKey'
    BY <1>1, <2>1, <2>3 DEF ReadersInv, FirstWaitMissesNoKey, Watches
  <2> QED  BY <1>2, <2>2, <2>5, <2>6 DEF ReadersInv
<1> QED  BY <1>3, <1>4, HandlerPushes

LEMMA MoveKeeps ==
  ASSUME IInv, NEW k \in Keys \cup ExtKeys \cup {Shift}, NEW up \in BOOLEAN, Move(k, up)
  PROVE  IInv'
<1> USE DEF IInv
<1>1. /\ wire = <<>> /\ UNCHANGED <<kbVars, pc, ret, log, since, shared, intsOff>>
      /\ held' = IF up THEN held \ {k} ELSE held \cup {k}
      /\ extUsed' = (extUsed \/ (up /\ k \in ExtKeys))
  BY DEF Move
<1>2. SharedIsKnown' /\ SlotIsNew' /\ ClearIsLater'
  BY <1>1 DEF SharedIsKnown, SlotIsNew, ClearIsLater, kbVars
<1>3. AloneReadsOnlyNewKeys' /\ FirstWaitMissesNoKey' /\ PressIsPressUntilExt'
  BY <1>1 DEF AloneReadsOnlyNewKeys, FirstWaitMissesNoKey, Watches, PressIsPressUntilExt, kbVars
<1>4. TypeOK'
  <2>1. [key |-> Prefix] \in Byte /\ [key |-> k, release |-> up] \in Byte
    BY DEF Byte
  <2>2. wire' \in Seq(Byte) /\ Len(wire') <= 2
    BY <2>1 DEF Move
  <2>3. held' \subseteq Keys \cup ExtKeys \cup {Shift} /\ extUsed' \in BOOLEAN
    BY <1>1 DEF TypeOK
  <2> QED  BY <1>1, <2>2, <2>3 DEF TypeOK, kbVars
<1>5. WireIsDecoded'
  <2> SUFFICES ASSUME ~extUsed' PROVE OnWire'
    BY DEF WireIsDecoded
  <2>1. ~extUsed /\ (k \in ExtKeys => ~up)
    BY <1>1
  <2>2. ~prev_has_80 /\ Tracked /\ UNCHANGED <<prev_has_80, has_shift>>
    BY <1>1, <2>1 DEF WireIsDecoded, OnWire, kbVars
  <2>3. Keys \cap ExtKeys = {} /\ Shift \notin Keys \cup ExtKeys
    BY KeyboardAssumption
  <2>4. wire' = IF k \in ExtKeys THEN <<[key |-> Prefix], [key |-> k, release |-> up]>>
                ELSE <<[key |-> k, release |-> up]>>
    BY DEF Move
  <2>5. ASSUME k # Shift PROVE Tracked'
    <3>1. (Shift \in held') = (Shift \in held)
      BY <1>1, <2>5
    <3> QED  BY <2>2, <3>1, Zenon DEF Tracked
  <2>6. CASE k \in Keys
    <3>1. wire' = <<[key |-> k, release |-> up]>> /\ Tracked'
      BY <2>3, <2>4, <2>5, <2>6
    <3> QED  BY <2>2, <2>6, <3>1 DEF OnWire
  <2>7. CASE k \in ExtKeys
    <3>1. wire' = <<[key |-> Prefix], [key |-> k, release |-> FALSE]>> /\ Tracked'
      BY <2>1, <2>3, <2>4, <2>5, <2>7
    <3> QED  BY <2>2, <2>7, <3>1 DEF OnWire
  <2>8. CASE k = Shift
    <3>1. wire' = <<[key |-> Shift, release |-> up]>> /\ (Shift \in held') = ~up
      BY <1>1, <2>3, <2>4, <2>8
    <3> QED  BY <2>2, <3>1 DEF OnWire
  <2> QED  BY <2>6, <2>7, <2>8
<1> QED  BY <1>2, <1>3, <1>4, <1>5
-----------------------------------------------------------------------------
(* A reader's step leaves the keyboard's side alone.                       *)
LEMMA ReaderStep ==
  ASSUME WireIsDecoded, PressIsPressUntilExt,
         UNCHANGED <<held, wire, has_shift, prev_has_80, log, extUsed>>
  PROVE  WireIsDecoded' /\ PressIsPressUntilExt'
<1>1. OnWire => OnWire'
  BY DEF OnWire, Tracked
<1> QED  BY <1>1 DEF WireIsDecoded, PressIsPressUntilExt

LEMMA ReadKeeps ==
  ASSUME IInv, NEW r \in Readers, Read(r)
  PROVE  IInv'
<1> USE DEF IInv, Read, Arm, Goto
<1>1. WireIsDecoded' /\ PressIsPressUntilExt'
  BY ReaderStep
<1>2. 0 \in Event /\ Len(log) \in Event
  BY KeyboardAssumption DEF Event, TypeOK
<1>3. TypeOK'
  BY <1>2 DEF TypeOK
<1>4. ASSUME NEW q \in Readers, q # r, pc'[q] # "idle"
      PROVE  shared'[q]
  BY <1>4 DEF TypeOK, Active
<1>5. ASSUME NEW q \in Readers, q # r, ~shared'[r]
      PROVE  pc'[q] = "idle"
  BY <1>5 DEF TypeOK, Active
<1>6. SharedIsKnown'
  BY <1>4, <1>5 DEF SharedIsKnown
<1>7. /\ pc'[r] = "wait" /\ key_pop_ptr' = key_push_ptr' /\ kb_buf'[key_pop_ptr'] = 0
      /\ since'[r] = Len(log)
  BY DEF TypeOK
<1>8. SlotIsNew'
  <2>1. \A q \in Readers : since'[q] <= Len(log')
    BY DEF TypeOK, SlotIsNew
  <2> QED  BY <1>4, <1>7, <2>1 DEF SlotIsNew
<1>9. ClearIsLater'
  BY DEF TypeOK, ClearIsLater
<1>10. AloneReadsOnlyNewKeys'
  BY <1>4, <1>7 DEF AloneReadsOnlyNewKeys
<1>11. FirstWaitMissesNoKey'
  BY <1>4, <1>7 DEF FirstWaitMissesNoKey, Watches
<1> QED  BY <1>1, <1>3, <1>6, <1>8, <1>9, <1>10, <1>11

(* Inside a read, another reader that is active is not alone.              *)
LEMMA Rivals ==
  ASSUME SharedIsKnown, NEW r \in Readers, pc[r] # "idle", NEW q \in Readers, q # r,
         pc[q] # "idle"
  PROVE  shared[q]
BY DEF SharedIsKnown

(* The steps inside a read: what they keep is about the reader itself.     *)
LEMMA InsideKeeps ==
  ASSUME IInv, NEW r \in Readers, pc[r] # "idle", NEW where,
         Goto(r, where),
         UNCHANGED <<held, wire, has_shift, prev_has_80, log, extUsed, shared>>,
         TypeOK',
         \A q \in Readers \ {r} : since'[q] = since[q] /\ ret'[q] = ret[q] /\ intsOff'[q] = intsOff[q],
         since'[r] <= Len(log),
         where = "clear" => ~intsOff'[r],
         ~shared[r] =>
           /\ where \in {"wait", "copy"} =>
                kb_buf'[key_pop_ptr'] = 0 \/ kb_buf'[key_pop_ptr'] > since'[r]
           /\ where = "copy" => kb_buf'[key_pop_ptr'] # 0
           /\ where = "advance" => ret'[r] > since'[r]
           /\ where = "wait" /\ intsOff'[r] => Watches'
  PROVE  IInv'
<1> USE DEF IInv
<1>1. WireIsDecoded' /\ PressIsPressUntilExt'
  BY ReaderStep
<1>2. pc'[r] = where /\ \A q \in Readers \ {r} : pc'[q] = pc[q]
  BY DEF TypeOK, Goto
<1>3. \A q \in Readers \ {r} : pc'[q] # "idle" => shared'[q]
  BY <1>2, Rivals
<1>4. SharedIsKnown'
  BY <1>2, <1>3 DEF SharedIsKnown
<1>5. SlotIsNew'
  <2>1. \A q \in Readers : since'[q] <= Len(log')
    BY DEF SlotIsNew
  <2> QED  BY <1>2, <1>3, <2>1 DEF SlotIsNew
<1>6. ClearIsLater'
  BY <1>2 DEF ClearIsLater
<1>7. AloneReadsOnlyNewKeys' /\ FirstWaitMissesNoKey'
  BY <1>2, <1>3 DEF AloneReadsOnlyNewKeys, FirstWaitMissesNoKey
<1> QED  BY <1>1, <1>4, <1>5, <1>6, <1>7

LEMMA InsideStepKeeps ==
  ASSUME IInv, NEW r \in Readers,
         \/ SkipAhead(r) \/ ClearSlot(r)
         \/ Wake(r) \/ Copy(r) \/ Advance(r)
  PROVE  IInv'
<1>0. TypeOK /\ since[r] <= Len(log) /\ since[r] \in Nat /\ Len(log) \in Event /\ 0 \in Event
  BY KeyboardAssumption DEF IInv, TypeOK, SlotIsNew, Event
<1>1. CASE SkipAhead(r)
  <2>1. TypeOK'
    BY <1>0, <1>1 DEF TypeOK, SkipAhead, Goto
  <2>2. since'[r] <= Len(log) /\ ~intsOff'[r]
    BY <1>0, <1>1 DEF TypeOK, SkipAhead, Event
  <2> QED  BY <1>1, <2>1, <2>2, InsideKeeps DEF TypeOK, SkipAhead
<1>2. CASE ClearSlot(r)
  <2>1. TypeOK' /\ kb_buf'[key_pop_ptr'] = 0
    BY <1>0, <1>2 DEF TypeOK, ClearSlot, Goto
  <2>2. ~intsOff[r]
    BY <1>2 DEF IInv, ClearIsLater, ClearSlot
  <2> QED  BY <1>0, <1>2, <2>1, <2>2, InsideKeeps DEF ClearSlot
<1>3. CASE Wake(r)
  <2>1. TypeOK'
    BY <1>0, <1>3 DEF TypeOK, Wake, Goto, kbVars
  <2>2. /\ kb_buf[key_pop_ptr] # 0
        /\ ~shared[r] => kb_buf[key_pop_ptr] > since[r]
    BY <1>3 DEF IInv, SlotIsNew, Wake, Seen
  <2> QED  BY <1>0, <1>3, <2>1, <2>2, InsideKeeps DEF Wake, kbVars
<1>4. CASE Copy(r)
  <2>1. TypeOK' /\ ret'[r] = kb_buf[key_pop_ptr] /\ \A q \in Readers \ {r} : ret'[q] = ret[q]
    BY <1>0, <1>4 DEF TypeOK, Copy, Goto, kbVars
  <2>2. ~shared[r] => ret'[r] > since[r]
    BY <1>4, <2>1 DEF IInv, SlotIsNew, Copy
  <2> QED  BY <1>0, <1>4, <2>1, <2>2, InsideKeeps DEF Copy, kbVars
<1>5. CASE Advance(r)
  <2> DEFINE where == IF ret[r] # 0 /\ log[ret[r]].pressed THEN "idle" ELSE "again"
  <2>1. TypeOK'
    BY <1>0, <1>5, IncInSlot DEF TypeOK, Advance, Goto
  <2>2. where \in {"idle", "again"} /\ Goto(r, where)
    BY <1>5 DEF Advance
  <2> HIDE DEF where
  <2> QED  BY <1>0, <1>5, <2>1, <2>2, InsideKeeps DEF Advance
<1> QED  BY <1>1, <1>2, <1>3, <1>4, <1>5

LEMMA NextIInv == IInv /\ [Next]_vars => IInv'
<1> SUFFICES ASSUME IInv, [Next]_vars PROVE IInv'
  OBVIOUS
<1>1. ASSUME NEW k \in Keys \cup ExtKeys \cup {Shift}, NEW up \in BOOLEAN, Move(k, up)
      PROVE  IInv'
  BY <1>1, MoveKeeps
<1>2. CASE kb_handler
  BY <1>2, HandlerKeeps, HandlerRecords DEF IInv, ReadersInv
<1>3. ASSUME NEW r \in Readers, Read(r)
      PROVE  IInv'
  BY <1>3, ReadKeeps
<1>4. ASSUME NEW r \in Readers,
             SkipAhead(r) \/ ClearSlot(r) \/ Wake(r) \/ Copy(r) \/ Advance(r)
      PROVE  IInv'
  BY <1>4, InsideStepKeeps
<1>5. CASE UNCHANGED vars
  <2>1. WireIsDecoded' /\ PressIsPressUntilExt'
    BY <1>5, ReaderStep DEF IInv, vars, kbVars
  <2> QED  BY <1>5, <2>1 DEF IInv, TypeOK, SharedIsKnown, SlotIsNew, ClearIsLater,
              AloneReadsOnlyNewKeys, FirstWaitMissesNoKey, Watches, vars, kbVars
<1> QED  BY <1>1, <1>2, <1>3, <1>4, <1>5 DEF Next
-----------------------------------------------------------------------------
(* The inductive invariant holds: it joins the two properties below with   *)
(* what the keyboard's bytes on the wire still have to say, and with who   *)
(* reads alone.                                                            *)
THEOREM Invariant == Spec => []IInv
BY InitIInv, NextIInv, PTL DEF Spec

(* kb_wait_and_pop_ev gives a reader that is alone only what was typed     *)
(* after its wait began, however often kb_buf wrapped; and no key passes   *)
(* by the first wait, which begins with interrupts off.                    *)
THEOREM ReaderCorrect == Spec => []KeysReachTheReader
<1>1. IInv => KeysReachTheReader
  BY DEF IInv, KeysReachTheReader
<1> QED  BY <1>1, Invariant, PTL

(* kb_handler keeps has_shift equal to the state of the shift keys, and    *)
(* records every press as a press, until an extended key was released.     *)
THEOREM HandlerCorrect == Spec => []KeysAreDecoded
<1>1. ASSUME IInv, ~extUsed, wire = <<>>
      PROVE  has_shift = (Shift \in held)
  <2>1. OnWire
    BY <1>1 DEF IInv, WireIsDecoded
  <2>2. Tracked
    BY <1>1, <2>1 DEF OnWire
  <2> QED  BY <2>2 DEF Tracked
<1>2. IInv => KeysAreDecoded
  BY <1>1 DEF KeysAreDecoded, ShiftIsTracked, IInv
<1> QED  BY <1>2, Invariant, PTL
-----------------------------------------------------------------------------
(***************************************************************************)
(* Module Interrupts, for every number of tasks and every longest sleep.   *)
(***************************************************************************)

(* Where a call is says which call it can be.  A task inside one has a     *)
(* call, and the keyboard's loop belongs to read.                          *)
CallsFit ==
  \A t \in Task :
    /\ (place[t] \in {"fresh", "user", "dead"}) <=> (call[t] = "none")
    /\ place[t] \in {"kbClear", "kbYield", "kbCheck"} => call[t] = "read"

(* Interrupts are on only in user mode and in a read, and a task gave up   *)
(* the CPU in the timer's stub only there.                                 *)
OnlyReadsAreOpen ==
  /\ ints => curr # Scheduler /\ call[curr] \in {"none", "read"}
  /\ \A t \in inTimer : t # curr /\ call[t] \in {"none", "read"}

(* A task in its exit stub is a read that was interrupted there, or it is  *)
(* on the CPU, and what it saved is still in the globals.                  *)
Undisturbed(t) ==
  /\ curr = t
  /\ place[t] \in {"saved", "restore", "back"} => rax_save = t
  /\ place[t] = "restore" => rip_save = "call"

ExitsAreSafe ==
  \A t \in Task : place[t] \in Exiting =>
    (call[t] = "read" /\ t \in hit) \/ Undisturbed(t)

EntryInv == EntryTypeOK /\ CallsFit /\ OnlyReadsAreOpen /\ ExitsAreSafe

-----------------------------------------------------------------------------
LEMMA InitEntryInv == EntryInit => EntryInv
<1> SUFFICES ASSUME EntryInit PROVE EntryInv
  OBVIOUS
<1> USE DEF EntryInit, Task, Scheduler
<1>1. EntryTypeOK
  <2>1. left \in [Task -> -1 .. MaxSleep]
    BY InterruptsAssumption
  <2>2. turn \in Task
    BY InterruptsAssumption
  <2>3. place \in [Task -> Pc] /\ call \in [Task -> Kind]
    BY DEF Pc, Kind
  <2> QED  BY <2>1, <2>2, <2>3 DEF EntryTypeOK, None
<1>2. CallsFit
  BY DEF CallsFit, Exiting
<1>3. OnlyReadsAreOpen
  BY DEF OnlyReadsAreOpen
<1>4. ExitsAreSafe
  BY DEF ExitsAreSafe, Exiting
<1> QED  BY <1>1, <1>2, <1>3, <1>4 DEF EntryInv
-----------------------------------------------------------------------------
(* Every step keeps the invariant, action by action.                       *)
LEMMA NextEntryInv ==
  EntryInv /\ [EntryNext]_entryVars => EntryInv'
<1> SUFFICES ASSUME EntryInv, [EntryNext]_entryVars PROVE EntryInv'
  OBVIOUS
<1> USE InterruptsAssumption DEF EntryInv, Task, Scheduler, None, Pc,
        Kind, Exiting
<1>1. CASE Dispatch
  <2> USE DEF Dispatch, ReturnInts
  <2>1. EntryTypeOK'
    BY <1>1 DEF EntryTypeOK, Live
  <2>2. CallsFit'
    BY <1>1 DEF EntryTypeOK, CallsFit
  <2>3. OnlyReadsAreOpen'
    <3> PICK t \in Live :
               /\ curr' = t /\ inTimer' = inTimer \ {t} /\ call' = call
               /\ t \notin inTimer => ints' = FALSE \/ place[t] = "fresh"
      BY <1>1
    <3>1. t \in Task /\ t # 0
      BY InterruptsAssumption DEF Live
    <3> QED  BY <3>1 DEF EntryTypeOK, CallsFit, OnlyReadsAreOpen
  <2>4. ExitsAreSafe'
    BY <1>1 DEF EntryTypeOK, CallsFit, OnlyReadsAreOpen, ExitsAreSafe, Undisturbed
  <2> QED  BY <2>1, <2>2, <2>3, <2>4
<1>2. CASE SleepLoop
  <2> USE DEF SleepLoop, Due, Yield, At, Reaches
  <2>1. EntryTypeOK'
    <3>1. CASE Due(left[curr])
      <4>1. left' = [left EXCEPT ![curr] = 0] /\ 0 \in -1 .. MaxSleep
        BY <1>2, <3>1
      <4>2. left' \in [Task -> -1 .. MaxSleep]
        BY <4>1 DEF EntryTypeOK
      <4> QED  BY <1>2, <3>1, <4>2 DEF EntryTypeOK
    <3>2. CASE ~Due(left[curr])
      BY <1>2, <3>2 DEF EntryTypeOK
    <3> QED  BY <3>1, <3>2
  <2>2. CallsFit'
    <3>1. CASE Due(left[curr])
      BY <1>2, <3>1 DEF EntryTypeOK, CallsFit
    <3>2. CASE ~(Due(left[curr]))
      BY <1>2, <3>2 DEF EntryTypeOK, CallsFit
    <3> QED  BY <3>1, <3>2
  <2>3. OnlyReadsAreOpen'
    BY <1>2 DEF EntryTypeOK, CallsFit, OnlyReadsAreOpen
  <2>4. ExitsAreSafe'
    BY <1>2 DEF EntryTypeOK, CallsFit, OnlyReadsAreOpen, ExitsAreSafe, Undisturbed
  <2> QED  BY <2>1, <2>2, <2>3, <2>4
<1>3. CASE MsgLoop
  <2> USE DEF MsgLoop, Yield, At, Reaches
  <2>1. EntryTypeOK'
    BY <1>3 DEF EntryTypeOK
  <2>2. CallsFit'
    <3>1. CASE curr \in mail
      BY <1>3, <3>1 DEF EntryTypeOK, CallsFit
    <3>2. CASE ~(curr \in mail)
      BY <1>3, <3>2 DEF EntryTypeOK, CallsFit
    <3> QED  BY <3>1, <3>2
  <2>3. OnlyReadsAreOpen'
    BY <1>3 DEF EntryTypeOK, CallsFit, OnlyReadsAreOpen
  <2>4. ExitsAreSafe'
    BY <1>3 DEF EntryTypeOK, CallsFit, OnlyReadsAreOpen, ExitsAreSafe, Undisturbed
  <2> QED  BY <2>1, <2>2, <2>3, <2>4
<1>4. CASE KbClear
  <2> USE DEF KbClear, Yield, At, Reaches
  <2>1. EntryTypeOK'
    BY <1>4 DEF EntryTypeOK
  <2>2. CallsFit'
    BY <1>4 DEF EntryTypeOK, CallsFit
  <2>3. OnlyReadsAreOpen'
    BY <1>4 DEF EntryTypeOK, CallsFit, OnlyReadsAreOpen
  <2>4. ExitsAreSafe'
    BY <1>4 DEF EntryTypeOK, CallsFit, OnlyReadsAreOpen, ExitsAreSafe, Undisturbed
  <2> QED  BY <2>1, <2>2, <2>3, <2>4
<1>5. CASE KbSti
  <2> USE DEF KbSti, At, Reaches
  <2>1. EntryTypeOK'
    BY <1>5 DEF EntryTypeOK
  <2>2. CallsFit'
    BY <1>5 DEF EntryTypeOK, CallsFit
  <2>3. OnlyReadsAreOpen'
    BY <1>5 DEF EntryTypeOK, CallsFit, OnlyReadsAreOpen
  <2>4. ExitsAreSafe'
    BY <1>5 DEF EntryTypeOK, CallsFit, OnlyReadsAreOpen, ExitsAreSafe, Undisturbed
  <2> QED  BY <2>1, <2>2, <2>3, <2>4
<1>6. CASE KbCheck
  <2> USE DEF KbCheck, Yield, At, Reaches
  <2>1. EntryTypeOK'
    BY <1>6 DEF EntryTypeOK
  <2>2. CallsFit'
    BY <1>6 DEF EntryTypeOK, CallsFit
  <2>3. OnlyReadsAreOpen'
    BY <1>6 DEF EntryTypeOK, CallsFit, OnlyReadsAreOpen
  <2>4. ExitsAreSafe'
    BY <1>6 DEF EntryTypeOK, CallsFit, OnlyReadsAreOpen, ExitsAreSafe, Undisturbed
  <2> QED  BY <2>1, <2>2, <2>3, <2>4
<1>7. CASE SaveResult
  <2> USE DEF SaveResult, At, Reaches
  <2>1. EntryTypeOK'
    BY <1>7 DEF EntryTypeOK
  <2>2. CallsFit'
    BY <1>7 DEF EntryTypeOK, CallsFit
  <2>3. OnlyReadsAreOpen'
    BY <1>7 DEF EntryTypeOK, CallsFit, OnlyReadsAreOpen
  <2>4. ExitsAreSafe'
    BY <1>7 DEF EntryTypeOK, CallsFit, OnlyReadsAreOpen, ExitsAreSafe, Undisturbed
  <2> QED  BY <2>1, <2>2, <2>3, <2>4
<1>8. CASE SaveLabel
  <2> USE DEF SaveLabel, At, Reaches
  <2>1. EntryTypeOK'
    BY <1>8 DEF EntryTypeOK
  <2>2. CallsFit'
    BY <1>8 DEF EntryTypeOK, CallsFit
  <2>3. OnlyReadsAreOpen'
    BY <1>8 DEF EntryTypeOK, CallsFit, OnlyReadsAreOpen
  <2>4. ExitsAreSafe'
    BY <1>8 DEF EntryTypeOK, CallsFit, OnlyReadsAreOpen, ExitsAreSafe, Undisturbed
  <2> QED  BY <2>1, <2>2, <2>3, <2>4
<1>9. CASE LoadRegs
  <2> USE DEF LoadRegs, Leave, At, Reaches
  <2>1. EntryTypeOK'
    BY <1>9 DEF EntryTypeOK
  <2>2. CallsFit'
    BY <1>9 DEF EntryTypeOK, CallsFit
  <2>3. OnlyReadsAreOpen'
    <3>1. CASE UNCHANGED <<curr, ints, inTimer, call>>
      BY <3>1 DEF OnlyReadsAreOpen
    <3>2. CASE Leave
      <4>1. curr' = curr /\ inTimer' = inTimer /\ call' = [call EXCEPT ![curr] = "none"]
        BY <3>2
      <4>2. call'[curr] = "none"
        BY <1>9, <4>1 DEF EntryTypeOK
      <4>3. curr \notin inTimer
        BY DEF OnlyReadsAreOpen
      <4>4. \A t \in inTimer : call'[t] = call[t]
        BY <4>1, <4>3 DEF EntryTypeOK
      <4> QED  BY <1>9, <4>1, <4>2, <4>4 DEF OnlyReadsAreOpen
    <3>3. UNCHANGED <<curr, ints, inTimer, call>> \/ Leave
      BY <1>9
    <3> QED  BY <3>1, <3>2, <3>3
  <2>4. ExitsAreSafe'
    BY <1>9 DEF EntryTypeOK, CallsFit, OnlyReadsAreOpen, ExitsAreSafe, Undisturbed
  <2> QED  BY <2>1, <2>2, <2>3, <2>4
<1>10. CASE Return
  <2> USE DEF Return, Leave, At, Reaches
  <2>1. EntryTypeOK'
    BY <1>10 DEF EntryTypeOK
  <2>2. CallsFit'
    BY <1>10 DEF EntryTypeOK, CallsFit
  <2>3. OnlyReadsAreOpen'
    BY <1>10 DEF EntryTypeOK, CallsFit, OnlyReadsAreOpen
  <2>4. ExitsAreSafe'
    BY <1>10 DEF EntryTypeOK, CallsFit, OnlyReadsAreOpen, ExitsAreSafe, Undisturbed
  <2> QED  BY <2>1, <2>2, <2>3, <2>4
<1>11. CASE QuickCall
  <2> USE DEF QuickCall, Enter, GateInts, At, Reaches
  <2>1. EntryTypeOK'
    BY <1>11 DEF EntryTypeOK
  <2>2. CallsFit'
    BY <1>11 DEF EntryTypeOK, CallsFit
  <2>3. OnlyReadsAreOpen'
    BY <1>11 DEF EntryTypeOK, CallsFit, OnlyReadsAreOpen
  <2>4. ExitsAreSafe'
    BY <1>11 DEF EntryTypeOK, CallsFit, OnlyReadsAreOpen, ExitsAreSafe, Undisturbed
  <2> QED  BY <2>1, <2>2, <2>3, <2>4
<1>12. CASE ReadCall
  <2> USE DEF ReadCall, Enter, GateInts, At, Reaches
  <2>1. EntryTypeOK'
    BY <1>12 DEF EntryTypeOK
  <2>2. CallsFit'
    BY <1>12 DEF EntryTypeOK, CallsFit
  <2>3. OnlyReadsAreOpen'
    BY <1>12 DEF EntryTypeOK, CallsFit, OnlyReadsAreOpen
  <2>4. ExitsAreSafe'
    BY <1>12 DEF EntryTypeOK, CallsFit, OnlyReadsAreOpen, ExitsAreSafe, Undisturbed
  <2> QED  BY <2>1, <2>2, <2>3, <2>4
<1>13. CASE GmsgCall
  <2> USE DEF GmsgCall, Enter, GateInts, At, Reaches
  <2>1. EntryTypeOK'
    BY <1>13 DEF EntryTypeOK
  <2>2. CallsFit'
    BY <1>13 DEF EntryTypeOK, CallsFit
  <2>3. OnlyReadsAreOpen'
    BY <1>13 DEF EntryTypeOK, CallsFit, OnlyReadsAreOpen
  <2>4. ExitsAreSafe'
    BY <1>13 DEF EntryTypeOK, CallsFit, OnlyReadsAreOpen, ExitsAreSafe, Undisturbed
  <2> QED  BY <2>1, <2>2, <2>3, <2>4
<1>14. ASSUME NEW n \in 0 .. MaxSleep, SleepCall(n) PROVE EntryInv'
  <2> USE DEF SleepCall, Enter, GateInts, At, Reaches
  <2>1. EntryTypeOK'
    <3>1. left' \in [Task -> -1 .. MaxSleep]
      BY <1>14 DEF EntryTypeOK
    <3>2. place' \in [Task -> Pc] /\ call' \in [Task -> Kind]
      BY <1>14 DEF EntryTypeOK
    <3> QED  BY <1>14, <3>1, <3>2 DEF EntryTypeOK
  <2>2. CallsFit'
    BY <1>14 DEF EntryTypeOK, CallsFit
  <2>3. OnlyReadsAreOpen'
    BY <1>14 DEF EntryTypeOK, CallsFit, OnlyReadsAreOpen
  <2>4. ExitsAreSafe'
    BY <1>14 DEF EntryTypeOK, CallsFit, OnlyReadsAreOpen, ExitsAreSafe, Undisturbed
  <2> QED  BY <2>1, <2>2, <2>3, <2>4
<1>15. CASE Die
  <2> USE DEF Die, Yield, At, Reaches
  <2>1. EntryTypeOK'
    <3>1. place' \in [Task -> Pc] /\ mail' \subseteq Task
      BY <1>15 DEF EntryTypeOK
    <3> QED  BY <1>15, <3>1 DEF EntryTypeOK
  <2>2. CallsFit'
    BY <1>15 DEF EntryTypeOK, CallsFit
  <2>3. OnlyReadsAreOpen'
    BY <1>15 DEF EntryTypeOK, CallsFit, OnlyReadsAreOpen
  <2>4. ExitsAreSafe'
    BY <1>15 DEF EntryTypeOK, CallsFit, OnlyReadsAreOpen, ExitsAreSafe, Undisturbed
  <2> QED  BY <2>1, <2>2, <2>3, <2>4
<1>16. CASE Timer
  <2> USE DEF Timer, Interrupted, GateInts
  <2>1. EntryTypeOK'
    BY <1>16 DEF EntryTypeOK
  <2>2. CallsFit'
    BY <1>16 DEF EntryTypeOK, CallsFit
  <2>3. OnlyReadsAreOpen'
    BY <1>16 DEF EntryTypeOK, CallsFit, OnlyReadsAreOpen
  <2>4. ExitsAreSafe'
    BY <1>16 DEF EntryTypeOK, CallsFit, OnlyReadsAreOpen, ExitsAreSafe, Undisturbed
  <2> QED  BY <2>1, <2>2, <2>3, <2>4
<1>17. CASE RtcTick
  <2> USE DEF RtcTick, Interrupted, Counted
  <2>1. EntryTypeOK'
    <3>1. \A l \in -1 .. MaxSleep : Counted(l) \in -1 .. MaxSleep
      OBVIOUS
    <3>2. left' \in [Task -> -1 .. MaxSleep]
      BY <1>17, <3>1 DEF EntryTypeOK
    <3>3. hit' \subseteq Task
      BY <1>17 DEF EntryTypeOK
    <3> QED  BY <1>17, <3>2, <3>3 DEF EntryTypeOK
  <2>2. CallsFit'
    BY <1>17 DEF EntryTypeOK, CallsFit
  <2>3. OnlyReadsAreOpen'
    BY <1>17 DEF EntryTypeOK, CallsFit, OnlyReadsAreOpen
  <2>4. ExitsAreSafe'
    BY <1>17 DEF EntryTypeOK, CallsFit, OnlyReadsAreOpen, ExitsAreSafe, Undisturbed
  <2> QED  BY <2>1, <2>2, <2>3, <2>4
<1>18. CASE KeyPress
  <2> USE DEF KeyPress, Interrupted
  <2>1. EntryTypeOK'
    BY <1>18 DEF EntryTypeOK
  <2>2. CallsFit'
    BY <1>18 DEF EntryTypeOK, CallsFit
  <2>3. OnlyReadsAreOpen'
    BY <1>18 DEF EntryTypeOK, CallsFit, OnlyReadsAreOpen
  <2>4. ExitsAreSafe'
    BY <1>18 DEF EntryTypeOK, CallsFit, OnlyReadsAreOpen, ExitsAreSafe, Undisturbed
  <2> QED  BY <2>1, <2>2, <2>3, <2>4
<1>19. CASE UNCHANGED entryVars
  BY <1>19 DEF entryVars, EntryTypeOK, CallsFit, OnlyReadsAreOpen, ExitsAreSafe, Undisturbed
<1> QED
  BY <1>1, <1>2, <1>3, <1>4, <1>5, <1>6, <1>7, <1>8, <1>9, <1>10, <1>11, <1>12, <1>13, <1>14, <1>15, <1>16, <1>17, <1>18, <1>19
     DEF EntryNext, Kernel, User, ExitStub, Exit, Fault,
         PageFault, GeneralProtection, DivideError, DoubleFault
-----------------------------------------------------------------------------
LEMMA EntryInvariant == EntrySpec => []EntryInv
<1>1. EntryInit => EntryInv
  BY InitEntryInv
<1>2. EntryInv /\ [EntryNext]_entryVars => EntryInv'
  BY NextEntryInv
<1> QED  BY <1>1, <1>2, PTL DEF EntrySpec

(* The variables of the entry keep their types: the CPU is a task's or the *)
(* scheduler's, and no sleep counts below -1.                              *)
THEOREM TypesOfTheEntry ==
  EntrySpec => []EntryTypeOK
<1>1. EntryInv => EntryTypeOK
  BY DEF EntryInv
<1> QED  BY <1>1, EntryInvariant, PTL

(* However tasks and interrupts interleave, a system call that leaves the  *)
(* kernel takes its own result with it, unless it is a keyboard read that  *)
(* was interrupted in its exit stub (src/asm/idt_handlers.S, kb.c:117).    *)
THEOREM ResultsOwn ==
  EntrySpec => []ResultsAreOwn
<1>1. EntryInv => ResultsAreOwn
  BY DEF EntryInv, EntryTypeOK, ExitsAreSafe, Undisturbed, ResultsAreOwn, Exiting
<1> QED  BY <1>1, EntryInvariant, PTL
=============================================================================
