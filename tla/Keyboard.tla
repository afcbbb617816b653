------------------------------ MODULE Keyboard ------------------------------
(***************************************************************************)
(* The keyboard of src/src/kb.c: the interrupt handler that decodes scan   *)
(* codes and pushes events into a circular buffer, and the tasks inside    *)
(* kb_read that wait for them.                                             *)
(*                                                                         *)
(* A read starts in a system call with interrupts off, but the wait loop   *)
(* turns them on and nothing turns them off again.  From its first wait on *)
(* a reader can be interrupted anywhere, by the keyboard and, through the  *)
(* timer, by the other readers, so every statement of a reader that        *)
(* touches the buffer or its two indices is a step of its own.             *)
(***************************************************************************)
EXTENDS Naturals, Sequences, FiniteSets

CONSTANTS
  Readers,     \* tasks that read //1/ps2kb, one character at a time
  Keys,        \* keys with a scan code of one byte, except the shift keys
  ExtKeys,     \* keys whose scan codes are prefixed by 0xe0
  Size,        \* slots of kb_buf (256 in the code)
  MaxEvents    \* bound: events pushed

Prefix == "e0"
Shift  == "shift"

ASSUME KeyboardAssumption ==
  /\ Size \in Nat /\ Size > 1
  /\ MaxEvents \in Nat
  /\ Keys \cap ExtKeys = {} /\ {Prefix, Shift} \cap (Keys \cup ExtKeys) = {}

Slot   == 0 .. Size - 1
Event  == 0 .. MaxEvents       \* an event is its number in log; 0 is EV_NULL

VARIABLES
  (* the keyboard *)
  held,         \* the keys that are down
  wire,         \* bytes of the last key movement that were not yet fetched
  (* src/src/kb.c *)
  kb_buf, key_pop_ptr, key_push_ptr, has_shift, prev_has_80,
  (* the readers *)
  pc, ret,
  (* history *)
  log,          \* what was pushed, and the movement it stands for
  since,        \* events pushed before the reader's present wait began
  shared,       \* another reader was active during this read
  intsOff,      \* the present wait began with interrupts off
  extUsed       \* an extended key has been released

kbVars == <<kb_buf, key_pop_ptr, key_push_ptr, has_shift, prev_has_80>>
vars   == <<held, wire, kbVars, pc, ret, log, since, shared, intsOff, extUsed>>

(* The two indices are bytes and the buffer has as many slots. *)
Inc(i) == (i + 1) % Size

Byte == [key : Keys \cup ExtKeys \cup {Shift}, release : BOOLEAN]
          \cup [key : {Prefix}]

Init ==
  /\ held = {}
  /\ wire = <<>>
  /\ kb_buf = [s \in Slot |-> 0]
  /\ key_pop_ptr = 0
  /\ key_push_ptr = 0
  /\ has_shift = FALSE
  /\ prev_has_80 = FALSE
  /\ pc = [r \in Readers |-> "idle"]
  /\ ret = [r \in Readers |-> 0]
  /\ log = <<>>
  /\ since = [r \in Readers |-> 0]
  /\ shared = [r \in Readers |-> FALSE]
  /\ intsOff = [r \in Readers |-> FALSE]
  /\ extUsed = FALSE

(* Someone presses, keeps down or releases a key; the controller holds the *)
(* bytes until the handler has fetched them.                               *)
Move(k, up) ==
  /\ wire = <<>>
  /\ up => k \in held
  /\ held' = IF up THEN held \ {k} ELSE held \cup {k}
  /\ LET b == [key |-> k, release |-> up]
     IN  wire' = IF k \in ExtKeys THEN <<[key |-> Prefix], b>> ELSE <<b>>
  /\ extUsed' = (extUsed \/ (up /\ k \in ExtKeys))
  /\ UNCHANGED <<kbVars, pc, ret, log, since, shared, intsOff>>
-----------------------------------------------------------------------------
(* A push that stays inside a full buffer (fault injection: the index is   *)
(* advanced first).                                                        *)
PushAfterInc(pressed, b) ==
  /\ kb_buf' = [kb_buf EXCEPT ![Inc(key_push_ptr)] = Len(log) + 1]
  /\ key_push_ptr' = Inc(key_push_ptr)
  /\ log' = Append(log, [key |-> b.key, pressed |-> pressed, release |-> b.release])

(* kb_push_ev: nothing keeps the push index from passing the pop index.    *)
Push(pressed, b) ==
  /\ kb_buf' = [kb_buf EXCEPT ![key_push_ptr] = Len(log) + 1]
  /\ key_push_ptr' = Inc(key_push_ptr)
  /\ log' = Append(log, [key |-> b.key, pressed |-> pressed, release |-> b.release])

NoPush == UNCHANGED <<kb_buf, key_push_ptr, log>>

(* A handler that leaves the shift state alone on release (fault injection). *)
ReleaseKeepsShift(b) ==
  /\ UNCHANGED prev_has_80
  /\ has_shift' = has_shift
  /\ IF b.key = Shift THEN NoPush ELSE Push(FALSE, b)

(* The bytes with bit 7 set, other than the prefix. *)
ReleaseByte(b) ==
  /\ UNCHANGED prev_has_80
  /\ has_shift' = (has_shift /\ b.key # Shift)
  /\ IF b.key = Shift THEN NoPush ELSE Push(FALSE, b)

(* A press handler that records every press as a release (fault            *)
(* injection).                                                             *)
PressTakenForRelease(b) ==
  /\ UNCHANGED prev_has_80
  /\ has_shift' = (has_shift \/ b.key = Shift)
  /\ IF b.key = Shift THEN NoPush ELSE Push(FALSE, b)

(* The other bytes.  After a prefix, and as long as no such byte has come  *)
(* since, they count as releases.                                          *)
PressByte(b) ==
  IF prev_has_80
  THEN /\ prev_has_80' = FALSE
       /\ has_shift' = (has_shift /\ b.key # Shift)
       /\ IF b.key = Shift THEN NoPush ELSE Push(FALSE, b)
  ELSE /\ UNCHANGED prev_has_80
       /\ has_shift' = (has_shift \/ b.key = Shift)
       /\ IF b.key = Shift THEN NoPush ELSE Push(TRUE, b)

(* kb_handler, for one byte. *)
kb_handler ==
  /\ wire # <<>>
  /\ Len(log) < MaxEvents
  /\ wire' = Tail(wire)
  /\ LET b == Head(wire)
     IN  IF b.key = Prefix
         THEN prev_has_80' = TRUE /\ UNCHANGED has_shift /\ NoPush
         ELSE IF b.release THEN ReleaseByte(b) ELSE PressByte(b)
  /\ UNCHANGED <<held, key_pop_ptr, pc, ret, since, shared, intsOff, extUsed>>
-----------------------------------------------------------------------------
Active == {r \in Readers : pc[r] # "idle"}

Goto(r, where) == pc' = [pc EXCEPT ![r] = where]

(* kb_wait_and_pop_ev up to its loop, in one piece: type-ahead is dropped  *)
(* and the slot that the next key will take is cleared.                    *)
Arm(r) == /\ key_pop_ptr' = key_push_ptr
          /\ kb_buf' = [kb_buf EXCEPT ![key_push_ptr] = 0]

(* syscall_read reaches kb_read and its first wait with interrupts off.    *)
Read(r) ==
  /\ pc[r] = "idle"
  /\ Arm(r)
  /\ Goto(r, "wait")
  /\ since' = [since EXCEPT ![r] = Len(log)]
  /\ shared' = [q \in Readers |->
                  IF q = r THEN Active # {}
                  ELSE shared[q] \/ q \in Active]
  /\ intsOff' = [intsOff EXCEPT ![r] = TRUE]
  /\ UNCHANGED <<held, wire, key_push_ptr, has_shift, prev_has_80, ret, log,
                 extUsed>>

(* A later wait of the same read begins with interrupts on, in two steps.  *)
SkipAhead(r) ==
  /\ pc[r] = "again"
  /\ key_pop_ptr' = key_push_ptr
  /\ since' = [since EXCEPT ![r] = Len(log)]
  /\ intsOff' = [intsOff EXCEPT ![r] = FALSE]
  /\ Goto(r, "clear")
  /\ UNCHANGED <<held, wire, kb_buf, key_push_ptr, has_shift, prev_has_80, ret,
                 log, shared, extUsed>>

ClearSlot(r) ==
  /\ pc[r] = "clear"
  /\ kb_buf' = [kb_buf EXCEPT ![key_pop_ptr] = 0]
  /\ Goto(r, "wait")
  /\ UNCHANGED <<held, wire, key_pop_ptr, key_push_ptr, has_shift, prev_has_80,
                 ret, log, since, shared, intsOff, extUsed>>

(* A wait that needs two events in the buffer (fault injection). *)
SeenLate == kb_buf[key_pop_ptr] # 0 /\ kb_buf[Inc(key_pop_ptr)] # 0

(* The condition that ends the wait loop. *)
Seen == kb_buf[key_pop_ptr] # 0

(* The loop of kb_wait_and_pop_ev sees an event. *)
Wake(r) ==
  /\ pc[r] = "wait"
  /\ Seen
  /\ Goto(r, "copy")
  /\ UNCHANGED <<held, wire, kbVars, ret, log, since, shared, intsOff, extUsed>>

(* kb_pop_ev, first the copy, ... *)
Copy(r) ==
  /\ pc[r] = "copy"
  /\ ret' = [ret EXCEPT ![r] = kb_buf[key_pop_ptr]]
  /\ Goto(r, "advance")
  /\ UNCHANGED <<held, wire, kbVars, log, since, shared, intsOff, extUsed>>

(* ... then the clearing of the slot and the index.  kb_read returns a     *)
(* character for a press and waits again after anything else.              *)
Advance(r) ==
  /\ pc[r] = "advance"
  /\ kb_buf' = [kb_buf EXCEPT ![key_pop_ptr] = 0]
  /\ key_pop_ptr' = Inc(key_pop_ptr)
  /\ Goto(r, IF ret[r] # 0 /\ log[ret[r]].pressed THEN "idle" ELSE "again")
  /\ UNCHANGED <<held, wire, key_push_ptr, has_shift, prev_has_80, ret, log,
                 since, shared, intsOff, extUsed>>

Next ==
  \/ \E k \in Keys \cup ExtKeys \cup {Shift}, up \in BOOLEAN : Move(k, up)
  \/ kb_handler
  \/ \E r \in Readers :
       \/ Read(r) \/ SkipAhead(r) \/ ClearSlot(r)
       \/ Wake(r) \/ Copy(r) \/ Advance(r)

(* The scheduler gives a waiting reader the CPU again and again. *)
Fairness == \A r \in Readers :
  /\ WF_vars(SkipAhead(r)) /\ WF_vars(ClearSlot(r))
  /\ WF_vars(Wake(r)) /\ WF_vars(Copy(r)) /\ WF_vars(Advance(r))

Spec     == Init /\ [][Next]_vars
FairSpec == Spec /\ Fairness
-----------------------------------------------------------------------------
Logged == [key : Keys \cup ExtKeys, pressed : BOOLEAN, release : BOOLEAN]

TypeOK ==
  /\ held \subseteq Keys \cup ExtKeys \cup {Shift}
  /\ wire \in Seq(Byte) /\ Len(wire) <= 2
  /\ kb_buf \in [Slot -> Event]
  /\ key_pop_ptr \in Slot
  /\ key_push_ptr \in Slot
  /\ has_shift \in BOOLEAN
  /\ prev_has_80 \in BOOLEAN
  /\ pc \in [Readers -> {"idle", "again", "clear", "wait", "copy", "advance"}]
  /\ ret \in [Readers -> Event]
  /\ log \in Seq(Logged) /\ Len(log) <= MaxEvents
  /\ since \in [Readers -> Event]
  /\ shared \in [Readers -> BOOLEAN]
  /\ intsOff \in [Readers -> BOOLEAN]
  /\ extUsed \in BOOLEAN

(* A reader that has the keyboard to itself takes only what was typed      *)
(* after its wait began, however often the buffer wrapped and whatever     *)
(* earlier readers left in it.                                             *)
AloneReadsOnlyNewKeys ==
  \A r \in Readers :
    pc[r] = "advance" /\ ~shared[r] => ret[r] > since[r]

(* A reader that has the keyboard to itself, and whose wait began with     *)
(* interrupts off, waits at the slot that the next key takes, or has an    *)
(* event there already: no key can pass it by.                             *)
Watches == kb_buf[key_pop_ptr] # 0 \/ key_pop_ptr = key_push_ptr

FirstWaitMissesNoKey ==
  \A r \in Readers : pc[r] = "wait" /\ ~shared[r] /\ intsOff[r] => Watches

(* Together: one reader at a time gets each key once, in order, and the   *)
(* wait of the first one misses none.                                     *)
KeysReachTheReader == TypeOK /\ AloneReadsOnlyNewKeys /\ FirstWaitMissesNoKey

(* has_shift follows the shift keys once the last byte is fetched, until   *)
(* the first extended key was released.                                    *)
ShiftIsTracked ==
  ~extUsed /\ wire = <<>> => has_shift = (Shift \in held)

(* A key that goes down is recorded as EV_PRESSED, until the first         *)
(* extended key was released (extended keys themselves never are).         *)
PressIsPressUntilExt ==
  \A i \in DOMAIN log :
    ~extUsed /\ log[i].key \in Keys => log[i].pressed = ~log[i].release

(* Together: what the handler stores is what was pressed and released.    *)
KeysAreDecoded == ShiftIsTracked /\ PressIsPressUntilExt

(* A reader that has the keyboard to itself, and finds an event, takes it  *)
(* and goes on.                                                            *)
SeenKeyIsTaken ==
  \A r \in Readers :
    pc[r] = "wait" /\ kb_buf[key_pop_ptr] # 0 ~> pc[r] \in {"idle", "again"} \/ shared[r]
=============================================================================
