---------------------------- MODULE ExpiringValue ----------------------------
(***************************************************************************)
(* ag::SteadyClock and ag::ExpiringValue: values that turn into the        *)
(* default one when their time is over.  get() is const and still forgets  *)
(* the value; until somebody calls it, the object keeps what it was given. *)
(***************************************************************************)
EXTENDS Integers

CONSTANTS
    Expirings,      \* the ExpiringValue objects
    Durations,     \* m_duration; an object keeps the one it was made with
    Stored,        \* the values given to them
    DEFAULT_VALUE,
    NoTimestamp,   \* nullopt
    NoAnswer,
    MaxClock       \* bound: the clock, and the shifts

ASSUME ExpiringAssumption ==
    /\ Durations \subseteq Nat /\ MaxClock \in Nat
    /\ {DEFAULT_VALUE, NoAnswer} \cap Stored = {} /\ NoTimestamp \notin Int

VARIABLES
    base_now,       \* Base::now()
    m_time_shift,
    expiring,       \* the objects
    last_answer     \* history: what get() said last, NoAnswer since the value was given

expiringVars == <<base_now, m_time_shift, expiring, last_answer>>

Fresh(d) == [m_value |-> DEFAULT_VALUE, m_expire_timestamp |-> NoTimestamp, m_duration |-> d]

\* The constructors without a value; ExpiringValue() has the duration zero.
ExpiringInit ==
    /\ base_now = 0 /\ m_time_shift = 0
    /\ expiring \in [Expirings -> {Fresh(d) : d \in Durations \cup {0}}]
    /\ last_answer = [h \in Expirings |-> NoAnswer]

\* SteadyClock::now()
SteadyNow == base_now + m_time_shift

ClockTick ==
    /\ base_now < MaxClock
    /\ base_now' = base_now + 1
    /\ UNCHANGED <<m_time_shift, expiring, last_answer>>

add_time_shift(value) ==
    /\ m_time_shift + value \in -MaxClock .. MaxClock
    /\ m_time_shift' = m_time_shift + value
    /\ UNCHANGED <<base_now, expiring, last_answer>>

reset_time_shift ==
    /\ m_time_shift' = 0
    /\ UNCHANGED <<base_now, expiring, last_answer>>

\* The object h becomes e.
Becomes(h, e) ==
    /\ expiring' = [expiring EXCEPT ![h] = e]
    /\ last_answer' = [last_answer EXCEPT ![h] = NoAnswer]
    /\ UNCHANGED <<base_now, m_time_shift>>

\* operator=(T), and with a duration of its own the constructor with a value.
Assign(h, v, d) ==
    Becomes(h, [m_value |-> v, m_expire_timestamp |-> SteadyNow + d, m_duration |-> d])

\* The copy takes over the deadline and the duration.
CopyFrom(h, other) == h # other /\ Becomes(h, expiring[other])

ResetValue(h) == Becomes(h, Fresh(expiring[h].m_duration))

is_timed_out(e) ==
    e.m_expire_timestamp # NoTimestamp /\ SteadyNow > e.m_expire_timestamp

\* Faulty variant: the value is hidden while it is out of date, and kept.
Forget_kept(e) == e

\* What get() leaves of an object that is out of date.
Forget(e) == [e EXCEPT !.m_value = DEFAULT_VALUE, !.m_expire_timestamp = NoTimestamp]

GetValue(h) ==
    LET e == expiring[h] IN
    /\ expiring' = [expiring EXCEPT ![h] = IF is_timed_out(e) THEN Forget(e) ELSE e]
    /\ last_answer' = [last_answer EXCEPT ![h] = IF is_timed_out(e) THEN DEFAULT_VALUE ELSE e.m_value]
    /\ UNCHANGED <<base_now, m_time_shift>>

ExpiringNext ==
    \/ ClockTick
    \/ \E value \in {-1, 1} : add_time_shift(value)
    \/ reset_time_shift
    \/ \E h \in Expirings :
          \/ \E v \in Stored : \/ Assign(h, v, expiring[h].m_duration)
                               \/ \E d \in Durations : Assign(h, v, d)
          \/ \E other \in Expirings : CopyFrom(h, other)
          \/ ResetValue(h) \/ GetValue(h)

-----------------------------------------------------------------------------

ExpiringTypeOK ==
    /\ SteadyNow \in Int
    /\ \A h \in Expirings : expiring[h].m_value \in Stored \cup {DEFAULT_VALUE}

\* A value that get() found out of date does not come back, although the clock may be
\* shifted back behind its deadline: only a new value, or a copy, changes the answer.
NeverComesBack ==
    [][\A h \in Expirings : last_answer[h] = DEFAULT_VALUE => last_answer'[h] \in {DEFAULT_VALUE, NoAnswer}]_last_answer
=============================================================================
