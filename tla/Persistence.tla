----------------------------- MODULE Persistence -----------------------------
(***************************************************************************)
(* Coalesced configuration writes (core/balansun_persistence.cpp and its   *)
(* logic header) and the restarts that must not lose them                  *)
(* (core/balansun_reboot.cpp, the OTA hooks, the WiFi give-up of the main  *)
(* loop).  millis() counts modulo Clock; every deadline is a signed        *)
(* difference, as in the code.  All operations run on the main loop.       *)
(*                                                                         *)
(* The configuration is one value and persistConfigToEeprom writes it.  A  *)
(* write may fail, which leaves the old value or the new one (how, is      *)
(* module ConfigStore): a deferred write does not look at the result.      *)
(*                                                                         *)
(* A definition named ...Fault is a seeded error in the definition after   *)
(* it, kept to show that the properties can fail; no specification uses it. *)
(***************************************************************************)
EXTENDS Integers

CONSTANTS
  Values, Default,  \* configurations, and the one of a fresh device
  None,             \* nothing in flash yet
  Clock,            \* period of millis()
  Debounce,         \* debounce_ms
  MaxDefer,         \* max_defer_ms
  RebootDelay,      \* delay of RequestReboot
  Stall             \* longest time between two turns of the main loop

ASSUME PersistenceAssumption ==
  /\ Default \in Values /\ None \notin Values
  /\ {Clock, Debounce, MaxDefer, RebootDelay, Stall} \subseteq Nat \ {0}
  /\ Debounce <= MaxDefer /\ 2 * (MaxDefer + Stall) < Clock /\ 2 * (RebootDelay + Stall) < Clock

VARIABLES
  now,          \* millis()
  value,        \* the configuration in RAM
  disk,         \* the configuration in flash, or None
  dirty,        \* g_state.dirty
  dirtySince,   \* g_state.dirty_since_ms
  lastChange,   \* g_state.last_change_ms
  rebooting,    \* restartPending
  rebootAt,     \* restartAtMillis
  loaded,       \* balansun_eeprom_config_loaded
  idle,         \* time since the last turn of the main loop
  failed,       \* history: the last write failed, and no deferred change since
  batchAge,     \* history: time since the pending batch began
  changeAge     \* history: time since its last change

state  == <<dirty, dirtySince, lastChange>>
reboot == <<rebooting, rebootAt>>
ages   == <<batchAge, changeAge>>
vars == <<now, value, disk, state, reboot, loaded, idle, failed, ages>>

(* What a boot reads.                                                      *)
Loaded(d) == IF d = None THEN Default ELSE d

(* What a write of v leaves in flash.                                      *)
Outcomes(v, ok) == IF ok THEN {v} ELSE {disk, v}

(* The signed difference of two readings of the clock.                     *)
Since(t) == LET u == (now - t) % Clock IN IF 2 * u >= Clock THEN u - Clock ELSE u

AtMost(x, hi) == IF x > hi THEN hi ELSE x
AgeCap == MaxDefer + Stall + 1

Init ==
  /\ now \in 0 .. Clock - 1
  /\ value = Default /\ disk \in {None, Default}
  /\ dirty = FALSE /\ dirtySince = 0 /\ lastChange = 0
  /\ rebooting = FALSE /\ rebootAt = 0
  /\ loaded = (disk # None)
  /\ idle = 0 /\ failed = FALSE /\ batchAge = 0 /\ changeAge = 0

-----------------------------------------------------------------------------
(* The coalescer.                                                          *)

BatchStartFault == now
BatchStart      == IF dirty THEN dirtySince ELSE now

LastMarkFault == IF dirty THEN lastChange ELSE now
LastMark      == now

(* persistence_request_config_deferred, with the change it reports.        *)
Deferred(v) ==
  /\ value' = v
  /\ dirty' = TRUE /\ dirtySince' = BatchStart /\ lastChange' = LastMark
  /\ failed' = FALSE
  /\ batchAge' = IF dirty THEN batchAge ELSE 0
  /\ changeAge' = 0
  /\ UNCHANGED <<now, disk, reboot, loaded, idle>>

(* persist_should_flush.                                                   *)
ShouldFlushFault == dirty /\ Since(lastChange) >= Debounce
ShouldFlush      == dirty /\ (Since(lastChange) >= Debounce \/ Since(dirtySince) >= MaxDefer)

(* do_flush: the write, and the end of the batch whether it failed or not. *)
Stored == value

Cleared == dirty' = FALSE /\ batchAge' = 0 /\ changeAge' = 0

Flush(ok) ==
  /\ Cleared
  /\ disk' \in Outcomes(Stored, ok) /\ failed' = ~ok
  /\ UNCHANGED <<dirtySince, lastChange>>

(* persistence_flush_all *)
FlushAll(ok) == IF dirty THEN Flush(ok) ELSE UNCHANGED <<state, disk, failed, ages>>

(* A critical change calls persistConfigToEeprom itself, which takes the   *)
(* pending batch with it if the write succeeds (persistence_notify_flushed). *)
Critical(v, ok) ==
  /\ value' = v
  /\ disk' \in Outcomes(v, ok) /\ failed' = ~ok
  /\ IF ok THEN Cleared ELSE UNCHANGED <<dirty, ages>>
  /\ UNCHANGED <<now, dirtySince, lastChange, reboot, loaded, idle>>

-----------------------------------------------------------------------------
(* Restarts.                                                               *)

Deadline == (now + RebootDelay) % Clock

RequestReboot ==
  /\ rebooting' = TRUE /\ rebootAt' = Deadline
  /\ UNCHANGED <<now, value, disk, state, loaded, idle, failed, ages>>

(* ESP.restart, or a loss of power: the statics start over.                *)
Boot(stored) ==
  /\ now' = 0 /\ value' = Loaded(stored) /\ loaded' = (stored # None)
  /\ dirty' = FALSE /\ dirtySince' = 0 /\ lastChange' = 0
  /\ rebooting' = FALSE /\ rebootAt' = 0
  /\ idle' = 0 /\ failed' = FALSE /\ batchAge' = 0 /\ changeAge' = 0

RebootDue == rebooting /\ Since(rebootAt) >= 0

(* balansun_reboot_poll: a loaded configuration is persisted in full, else *)
(* what is pending is.                                                     *)
WrittenFault(ok) == {disk}
Written(ok)      == IF loaded \/ dirty THEN Outcomes(value, ok) ELSE {disk}

RebootPoll(ok) == RebootDue /\ disk' \in Written(ok) /\ Boot(disk')

(* The third failed WiFi join flushes and restarts.                        *)
Flushed(ok)     == IF dirty THEN Outcomes(value, ok) ELSE {disk}
WifiRestart(ok) == disk' \in Flushed(ok) /\ Boot(disk')

OtaStart(ok) == FlushAll(ok) /\ UNCHANGED <<now, value, reboot, loaded, idle>>

Crash == UNCHANGED disk /\ Boot(disk)

-----------------------------------------------------------------------------
(* A turn of the main loop polls the reboot, then services the coalescer.  *)
Turn(ok) ==
  \/ RebootPoll(ok)
  \/ /\ ~RebootDue
     /\ idle' = 0
     /\ IF ShouldFlush THEN Flush(ok) ELSE UNCHANGED <<state, disk, failed, ages>>
     /\ UNCHANGED <<now, value, reboot, loaded>>

Elapse ==
  /\ idle < Stall /\ idle' = idle + 1
  /\ now' = (now + 1) % Clock
  /\ batchAge' = IF dirty THEN AtMost(batchAge + 1, AgeCap) ELSE 0
  /\ changeAge' = IF dirty THEN AtMost(changeAge + 1, AgeCap) ELSE 0
  /\ UNCHANGED <<value, disk, state, reboot, loaded, failed>>

Next ==
  \/ Elapse \/ RequestReboot \/ Crash
  \/ \E v \in Values : Deferred(v)
  \/ \E ok \in BOOLEAN :
       \/ Turn(ok) \/ WifiRestart(ok) \/ OtaStart(ok)
       \/ \E v \in Values : Critical(v, ok)

Spec == Init /\ [][Next]_vars

(* The main loop keeps turning and the clock keeps counting.               *)
FairSpec == Spec /\ WF_vars(\E ok \in BOOLEAN : Turn(ok)) /\ WF_vars(Elapse)

-----------------------------------------------------------------------------
TypeOK ==
  /\ now \in 0 .. Clock - 1 /\ value \in Values /\ disk \in Values \union {None}
  /\ dirty \in BOOLEAN /\ dirtySince \in 0 .. Clock - 1 /\ lastChange \in 0 .. Clock - 1
  /\ rebooting \in BOOLEAN /\ rebootAt \in 0 .. Clock - 1
  /\ loaded \in BOOLEAN /\ failed \in BOOLEAN /\ idle \in 0 .. Stall
  /\ batchAge \in 0 .. AgeCap /\ changeAge \in 0 .. AgeCap

(* While nothing is pending and no write has failed since the last         *)
(* deferred change, flash holds what RAM holds.                            *)
CleanMeansStored == ~dirty /\ ~failed => value = Loaded(disk)

(* What the comment at persist_after_flush says, "after a flush actually   *)
(* happened", does not hold: the flag is cleared although the flush failed.*)
ClearMeansStored == ~dirty => value = Loaded(disk)

(* However often the configuration changes, and wherever millis() wraps,   *)
(* no batch waits longer than the ceiling plus one turn of the loop.       *)
FlushedInTime == dirty => batchAge <= MaxDefer + Stall

(* Wear: the service writes only after a quiet debounce, or at the ceiling *)
(* of the batch.                                                           *)
Served == ~RebootDue /\ \E ok \in BOOLEAN : Turn(ok)

Coalesces ==
  [][dirty /\ ~dirty' /\ Served => changeAge >= Debounce \/ batchAge >= MaxDefer]_vars

(* "so no deferred change is lost on a graceful restart": a restart the    *)
(* program asks for keeps the configuration if its own write succeeds,     *)
(* whatever writes failed before it.  It makes none of a change whose      *)
(* write failed: after a failed flush the WiFi give-up, and on a device    *)
(* that booted without a configuration the requested restart, lose it.     *)
Graceful ==
  \/ RebootPoll(TRUE) /\ (loaded \/ dirty \/ ~failed)
  \/ WifiRestart(TRUE) /\ (dirty \/ ~failed)

GracefulKeeps == [][Graceful => value' = value]_vars

(* The coalescer implements the write-back promise, its progress included. *)
Promise == INSTANCE WriteBack WITH disk <- Loaded(disk)
Implements == Promise!Spec
=============================================================================
