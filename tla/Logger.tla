-------------------------------- MODULE Logger --------------------------------
(***************************************************************************)
(* ag::Logger: threads log while others set the level and the callback.    *)
(* Both are global; the callback is held by a shared pointer, so that a    *)
(* thread may still be in a callback that is not the current one any more. *)
(***************************************************************************)
EXTENDS Naturals, FiniteSets

CONSTANTS
    LogThreads,
    LogLevels,   \* LogLevel, the gravest is 0
    Overrides,   \* the log_level_override of a logger; NoOverride is nullopt
    NoOverride,
    Callbacks,   \* what set_callback() may be given
    NoCallback,  \* an empty std::function
    ToStderr     \* LOG_TO_STDERR

ASSUME LoggerAssumption ==
    /\ LogLevels \subseteq Nat /\ Overrides \ {NoOverride} \subseteq LogLevels
    /\ {NoCallback, ToStderr} \cap Callbacks = {} /\ NoCallback # ToStderr

VARIABLES
    g_log_level,
    g_log_callback,
    alive,     \* the function objects that somebody still points to
    logging    \* for each thread, where its log() stands

loggerVars == <<g_log_level, g_log_callback, alive, logging>>

NotLogging == [at |-> "idle", level |-> 0, override |-> NoOverride, callback |-> NoCallback]

LoggerInit ==
    /\ g_log_level \in LogLevels
    /\ g_log_callback = ToStderr
    /\ alive = {ToStderr}
    /\ logging = [t \in LogThreads |-> NotLogging]

\* Faulty variant: the thread keeps a plain pointer.
Holders_current(current, calls) == {current}

\* The function objects that g_log_callback or a copy of it points to.
Holders(current, calls) == {current} \cup {calls[t].callback : t \in LogThreads}

\* The last pointer to go destroys the function object.
KeepAlive == alive' = (alive \cup {g_log_callback'}) \cap Holders(g_log_callback', logging')

-----------------------------------------------------------------------------

set_log_level(level) ==
    /\ g_log_level # level
    /\ g_log_level' = level
    /\ UNCHANGED <<g_log_callback, alive, logging>>

\* An empty callback stands for stderr.  A new function object is made in any case: a
\* callback given again is another object, of which the model has one each.
set_callback(callback) ==
    /\ callback \notin alive \ {ToStderr}
    /\ g_log_callback' = IF callback = NoCallback THEN ToStderr ELSE callback
    /\ UNCHANGED <<g_log_level, logging>>
    /\ KeepAlive

log(t, level, override) ==
    /\ logging[t] = NotLogging
    /\ logging' = [logging EXCEPT ![t] = [NotLogging EXCEPT !.at = "check", !.level = level,
                                                            !.override = override]]
    /\ UNCHANGED <<g_log_level, g_log_callback, alive>>

is_enabled(level, override) ==
    IF override # NoOverride THEN level <= override ELSE level <= g_log_level

\* vlog(): a message that is not enabled is not even formatted.
vlog(t) ==
    /\ logging[t].at = "check"
    /\ logging' = [logging EXCEPT ![t] = IF is_enabled(@.level, @.override)
                                         THEN [@ EXCEPT !.at = "load"] ELSE NotLogging]
    /\ UNCHANGED <<g_log_level, g_log_callback, alive>>

\* log_impl(): atomic_load, then the call.
LoadCallback(t) ==
    /\ logging[t].at = "load"
    /\ logging' = [logging EXCEPT ![t] = [@ EXCEPT !.at = "call", !.callback = g_log_callback]]
    /\ UNCHANGED <<g_log_level, g_log_callback>>
    /\ KeepAlive

CallReturns(t) ==
    /\ logging[t].at = "call"
    /\ logging' = [logging EXCEPT ![t] = NotLogging]
    /\ UNCHANGED <<g_log_level, g_log_callback>>
    /\ KeepAlive

LoggerNext ==
    \/ \E level \in LogLevels : set_log_level(level)
    \/ \E callback \in Callbacks \cup {NoCallback} : set_callback(callback)
    \/ \E t \in LogThreads :
          \/ \E level \in LogLevels, override \in Overrides : log(t, level, override)
          \/ vlog(t) \/ LoadCallback(t) \/ CallReturns(t)

-----------------------------------------------------------------------------

LoggerTypeOK ==
    /\ g_log_level \in LogLevels
    /\ g_log_callback \in Callbacks \cup {ToStderr}
    /\ alive \subseteq Callbacks \cup {ToStderr}

\* A callback that is being run is not destroyed, although set_callback() may replace
\* it at any time, and one that nobody can reach any more is.
CallbackAlive ==
    /\ g_log_callback \in alive
    /\ \A t \in LogThreads : logging[t].at = "call" => logging[t].callback \in alive
    /\ \A c \in alive : c = g_log_callback \/ \E t \in LogThreads : logging[t].callback = c
=============================================================================
