----------------------------- MODULE StoreData -----------------------------
(***************************************************************************)
(* The value kept by the update store (struct StoreData in                 *)
(* crates/abora-update/src/store.rs) and the edits its callers make.       *)
(*                                                                         *)
(* Time stamps are supplied by the callers.  A change is stamped with the  *)
(* number of the call that makes it; 0 stands for None.  `rev' is a history*)
(* field of the model, the stamp of the last change that led to the value. *)
(***************************************************************************)
EXTENDS Naturals, Sequences

CONSTANT MaxHistory     \* MAX_HISTORY: how many entries are kept

ASSUME MaxHistoryAssumption == MaxHistory \in Nat \ {0}

StoreData == [rev: Nat, last_check: Nat, reboot: Nat, history: Seq(Nat)]

\* StoreData::default()
EmptyData == [rev |-> 0, last_check |-> 0, reboot |-> 0, history |-> << >>]

\* Mutant of trim: one entry too many survives.
trim_KeepsOneMore(d) ==
    LET len == Len(d.history)
    IN  IF len > MaxHistory + 1
        THEN [d EXCEPT !.history = SubSeq(@, len - MaxHistory, len)]
        ELSE d

\* trim: drain the oldest entries until MaxHistory are left.
trim(d) ==
    LET len == Len(d.history)
    IN  IF len > MaxHistory
        THEN [d EXCEPT !.history = SubSeq(@, len - MaxHistory + 1, len)]
        ELSE d

EditKinds == {"record_check", "record_update", "set_reboot", "clear_reboot"}

\* The closures record_check, record_update and set_reboot hand to change().
edit(d, kind, when) ==
    [rev        |-> when,
     last_check |-> IF kind = "record_check" THEN when ELSE d.last_check,
     reboot     |-> IF kind = "set_reboot" THEN when
                    ELSE IF kind = "clear_reboot" THEN 0 ELSE d.reboot,
     history    |-> IF kind = "record_update" THEN Append(d.history, when)
                    ELSE d.history]
============================================================================
