-------------------------------- MODULE Owners --------------------------------
(***************************************************************************)
(* ag::AutoFd and ag::AutoPod: objects that own a descriptor, or plain     *)
(* data with a deleter, and give it back exactly once.  The system         *)
(* (external) hands out any descriptor that is free, so that a descriptor  *)
(* closed twice may be somebody else's.                                    *)
(***************************************************************************)
EXTENDS Naturals

CONSTANTS
    AutoFds,     \* the AutoFd objects
    AutoPods,    \* the AutoPod objects
    MaxFd,       \* bound: descriptors
    Pods,        \* what an AutoPod may own
    InvalidFd, NoPod

ASSUME OwnersAssumption ==
    /\ MaxFd \in Nat /\ InvalidFd \notin 0 .. MaxFd /\ NoPod \notin Pods

VARIABLES
    fds,       \* the descriptors that are open
    raw,       \* those the application holds itself
    m_fd,      \* what each AutoFd holds
    pods,      \* the data that was made and not deleted
    raw_pods,  \* those the application holds itself
    pod_data,  \* what each AutoPod holds
    misuse     \* was something closed or deleted that was not open?

ownerVars == <<fds, raw, m_fd, pods, raw_pods, pod_data, misuse>>
fdVars == <<fds, raw, m_fd>>
podVars == <<pods, raw_pods, pod_data>>

OwnersInit ==
    /\ fds = {} /\ raw = {} /\ m_fd = [a \in AutoFds |-> InvalidFd]
    /\ pods = {} /\ raw_pods = {} /\ pod_data = [a \in AutoPods |-> NoPod]
    /\ misuse = FALSE

FreeFds == (0 .. MaxFd) \ fds

\* evutil_closesocket of a set of descriptors.
CloseAll(closed, opened) ==
    /\ fds' = (fds \cup opened) \ closed
    /\ misuse' = (misuse \/ ~(closed \subseteq fds))

-----------------------------------------------------------------------------
(* Descriptors *)

OpenFd(fd) ==
    /\ fd \in FreeFds
    /\ fds' = fds \cup {fd}
    /\ raw' = raw \cup {fd}
    /\ UNCHANGED <<m_fd, misuse, podVars>>

HeldFd(a) == {m_fd[a]} \ {InvalidFd}

\* A temporary from dup_fd() or adopt_fd(), moved into a.  dup() may fail.
dup_fd(a) ==
    /\ \/ CloseAll(HeldFd(a), {}) /\ m_fd' = [m_fd EXCEPT ![a] = InvalidFd]
       \/ \E new \in FreeFds : CloseAll(HeldFd(a), {new}) /\ m_fd' = [m_fd EXCEPT ![a] = new]
    /\ UNCHANGED <<raw, podVars>>

adopt_fd(a, fd) ==
    /\ CloseAll(HeldFd(a), {})
    /\ m_fd' = [m_fd EXCEPT ![a] = fd]
    /\ raw' = raw \ {fd}
    /\ UNCHANGED podVars

release(a) ==
    /\ m_fd[a] # InvalidFd
    /\ raw' = raw \cup HeldFd(a)
    /\ m_fd' = [m_fd EXCEPT ![a] = InvalidFd]
    /\ UNCHANGED <<fds, misuse, podVars>>

\* reset(get()) closes nothing.
ClosedByReset(a, new_fd) == HeldFd(a) \ {new_fd}

\* Also the destructor.
reset(a, new_fd) ==
    /\ CloseAll(ClosedByReset(a, new_fd), {})
    /\ m_fd' = [m_fd EXCEPT ![a] = new_fd]
    /\ raw' = raw \ {new_fd}
    /\ UNCHANGED podVars

\* a = std::move(b): what a held is closed first, so that a move to itself closes.
MoveFd(a, b) ==
    /\ CloseAll(HeldFd(a), {})
    /\ m_fd' = IF a = b THEN [m_fd EXCEPT ![a] = InvalidFd]
               ELSE [m_fd EXCEPT ![a] = m_fd[b], ![b] = InvalidFd]
    /\ UNCHANGED <<raw, podVars>>

-----------------------------------------------------------------------------
(* Plain data *)

MakePod(p) ==
    /\ p \notin pods
    /\ pods' = pods \cup {p}
    /\ raw_pods' = raw_pods \cup {p}
    /\ UNCHANGED <<pod_data, misuse, fdVars>>

\* DELETER is called for a default value too, which owns nothing.
Delete(p) ==
    /\ pods' = pods \ {p}
    /\ misuse' = (misuse \/ (p # NoPod /\ p \notin pods))

\* AutoPod(const T &), and reset(const T &): the old data goes first.
ResetPod(a, p) ==
    /\ Delete(pod_data[a])
    /\ pod_data' = [pod_data EXCEPT ![a] = p]
    /\ raw_pods' = raw_pods \ {p}
    /\ UNCHANGED fdVars

ReleasePod(a) ==
    /\ raw_pods' = raw_pods \cup ({pod_data[a]} \ {NoPod})
    /\ pod_data' = [pod_data EXCEPT ![a] = NoPod]
    /\ UNCHANGED <<pods, misuse, fdVars>>

\* The move swaps: the old data lives as long as the object that was moved from.
Moved(a, b) == [pod_data EXCEPT ![a] = pod_data[b], ![b] = pod_data[a]]

MovePod(a, b) == pod_data' = Moved(a, b) /\ UNCHANGED <<pods, raw_pods, misuse, fdVars>>

-----------------------------------------------------------------------------

OwnersNext ==
    \/ \E fd \in FreeFds : OpenFd(fd)
    \/ \E a \in AutoFds :
          \/ release(a)
          \/ reset(a, InvalidFd) \/ reset(a, m_fd[a])
          \/ \E fd \in raw : adopt_fd(a, fd) \/ reset(a, fd)
          \/ dup_fd(a)
          \/ \E b \in AutoFds : MoveFd(a, b)
    \/ \E p \in Pods : MakePod(p)
    \/ \E a \in AutoPods :
          \/ ReleasePod(a) \/ ResetPod(a, NoPod)
          \/ \E p \in raw_pods : ResetPod(a, p)
          \/ \E b \in AutoPods : MovePod(a, b)

OwnersSpec == OwnersInit /\ [][OwnersNext]_ownerVars

OwnersTypeOK ==
    /\ fds \subseteq 0 .. MaxFd /\ raw \subseteq 0 .. MaxFd
    /\ m_fd \in [AutoFds -> (0 .. MaxFd) \cup {InvalidFd}]
    /\ pods \subseteq Pods /\ raw_pods \subseteq Pods /\ pod_data \in [AutoPods -> Pods \cup {NoPod}]

FdsOwned ==
    /\ fds = raw \cup ({m_fd[a] : a \in AutoFds} \ {InvalidFd})
    /\ \A a \in AutoFds : m_fd[a] \notin raw
    /\ \A a, b \in AutoFds : a # b /\ m_fd[a] = m_fd[b] => m_fd[a] = InvalidFd

PodsOwned ==
    /\ pods = raw_pods \cup ({pod_data[a] : a \in AutoPods} \ {NoPod})
    /\ \A a \in AutoPods : pod_data[a] \notin raw_pods
    /\ \A a, b \in AutoPods : a # b /\ pod_data[a] = pod_data[b] => pod_data[a] = NoPod

\* Every open descriptor, and all data not deleted, has exactly one owner, and no owner
\* holds what is gone: nothing leaks and nothing is closed twice, whatever is moved.
OwnedOnce == ~misuse /\ FdsOwned /\ PodsOwned
=============================================================================
