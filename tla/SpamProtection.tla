--------------------------- MODULE SpamProtection ---------------------------
(***************************************************************************)
(* The statistics SpamProtection keeps of each sender of invites, and the  *)
(* block levels it derives from the rejections of a day.  The functions    *)
(* are synchronous and take one record from the storage and put one back,  *)
(* so each is an operator on the record; Invites says who calls them.      *)
(*                                                                         *)
(* A time is a day and an hour of it.  Block durations are whole days, as  *)
(* in BLOCK_LEVELS.  The accept counters and reset_user() are left out:    *)
(* no code calls record_accept() or reset_user().                          *)
(***************************************************************************)
EXTENDS Naturals

CONSTANTS
    MaxRejections,  \* MAX_REJECTIONS_PER_DAY
    BlockDays       \* the durations of levels 1 and 2 in BLOCK_LEVELS

ASSUME SpamAssumption ==
    /\ MaxRejections \in Nat \ {0}
    /\ BlockDays \in [1..2 -> Nat \ {0}]

Time == [day : Nat, hour : Nat]

Before(s, t) == s.day < t.day \/ (s.day = t.day /\ s.hour < t.hour)

\* block_until None: no time is before it.
NoTime == [day |-> 0, hour |-> 0]

(* blocks is len(block_history): the history is the list 1..blocks.        *)
Stats == [rejections_today : Nat, rejections_total : Nat,
          block_level : 0..3, block_until : Time,
          last_reset_date : Nat, blocks : 0..3]

\* A sender who has no record yet.  Its counts are zero, so that the date of
\* the last reset makes no difference.
NewStats == [rejections_today |-> 0, rejections_total |-> 0,
             block_level |-> 0, block_until |-> NoTime,
             last_reset_date |-> 0, blocks |-> 0]

-----------------------------------------------------------------------------
\* The count of a day goes on for ever.
CheckDailyReset_mut(s, now) == s

CheckDailyReset(s, now) ==
    IF s.last_reset_date = now.day THEN s
    ELSE [s EXCEPT !.rejections_today = 0, !.last_reset_date = now.day]

BlockIsRunning(s, now) == s.block_level > 0 /\ Before(now, s.block_until)

Block(s, level, until) ==
    [s EXCEPT !.block_level = level, !.block_until = until, !.blocks = level]

DaysLater(t, d) == [t EXCEPT !.day = @ + d]

\* The next level: 1 and 2 run out, 3 does not and is in the history once.
Escalate(s, now) ==
    IF s.blocks < 2
    THEN Block(s, s.blocks + 1, DaysLater(now, BlockDays[s.blocks + 1]))
    ELSE Block(s, 3, NoTime)

UpdateBlockLevel(s, now) ==
    IF s.rejections_today >= MaxRejections /\ ~ BlockIsRunning(s, now)
    THEN Escalate(s, now)
    ELSE s

RecordRejection(s, now) ==
    UpdateBlockLevel([CheckDailyReset(s, now) EXCEPT !.rejections_today = @ + 1,
                                                     !.rejections_total = @ + 1],
                     now)

IsBlocked(s, now) == s.block_level = 3 \/ BlockIsRunning(s, now)

\* get_remaining_invites() > 0; the record it resets is not saved.
HasRemainingInvites(s, now) ==
    CheckDailyReset(s, now).rejections_today < MaxRejections
=============================================================================
