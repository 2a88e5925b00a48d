----------------------------- MODULE InstallLock -----------------------------
(***************************************************************************)
(* formal_commands_with_lock: installers, upgraders and uninstallers of one *)
(* directory run their commands under flock on the file ascend.lock in it. *)
(* Each process opens the file (and creates it when there is none), tries  *)
(* the lock without waiting, works or gives up, closes the file, and then  *)
(* removes the file from the directory.  A flock belongs to the opened     *)
(* file, not to its name.                                                  *)
(***************************************************************************)
CONSTANTS Processes,  \* shells that run the parser on the directory, again and again
          Files,      \* inodes of lock files; one that nothing refers to is used again
          Nothing        \* no file, no process

ASSUME InstallAssumption == Nothing \notin Processes \cup Files

VARIABLES pc,       \* where each process is
          lockfile, \* the file that ascend.lock names, Nothing if there is none
          fd,       \* the file behind descriptor 9 of each process
          flock,    \* the process that holds the lock on each file
          leftover  \* a process died since the name was last removed
installVars == <<pc, lockfile, fd, flock, leftover>>

InstallInit ==
    /\ pc = [p \in Processes |-> "outside"]
    /\ lockfile = Nothing
    /\ fd = [p \in Processes |-> Nothing]
    /\ flock = [f \in Files |-> Nothing]
    /\ leftover = FALSE

NewFiles == {f \in Files : \A p \in Processes : fd[p] # f}

\* The kernel drops the lock with the last descriptor.
Unlocked(p) == [f \in Files |-> IF flock[f] = p THEN Nothing ELSE flock[f]]

\* The redirection of the subshell: 9> "${lockfile}".
Open(p) ==
    /\ pc[p] = "outside"
    /\ lockfile' \in IF lockfile = Nothing THEN NewFiles ELSE {lockfile}
    /\ fd' = [fd EXCEPT ![p] = lockfile']
    /\ pc' = [pc EXCEPT ![p] = "opened"]
    /\ UNCHANGED <<flock, leftover>>

\* flock -n 9: the lock, or the error message; nobody waits.
Granted_ByName(p) == lockfile = fd[p] /\ flock[fd[p]] = Nothing
Granted(p) == flock[fd[p]] = Nothing
TryLock(p) ==
    /\ pc[p] = "opened"
    /\ IF Granted(p)
       THEN /\ flock' = [flock EXCEPT ![fd[p]] = p]
            /\ pc' = [pc EXCEPT ![p] = "inside"]
       ELSE /\ pc' = [pc EXCEPT ![p] = "refused"]
            /\ UNCHANGED flock
    /\ UNCHANGED <<lockfile, fd, leftover>>

\* The subshell ends, after its commands or after its refusal.
Close(p) ==
    /\ pc[p] \in {"inside", "refused"}
    /\ pc' = [pc EXCEPT ![p] = "closed"]
    /\ fd' = [fd EXCEPT ![p] = Nothing]
    /\ flock' = Unlocked(p)
    /\ UNCHANGED <<lockfile, leftover>>

\* rm -f "${lockfile}", whatever the subshell returned; then the process ends.
RemoveName_AfterInstallOnly(p) ==
    /\ pc[p] = "closed"
    /\ pc' = [pc EXCEPT ![p] = "outside"]
    /\ \E done \in BOOLEAN :
          /\ lockfile' = IF done THEN Nothing ELSE lockfile
          /\ leftover' = (leftover /\ ~done)
    /\ UNCHANGED <<fd, flock>>
RemoveName(p) ==
    /\ pc[p] = "closed"
    /\ pc' = [pc EXCEPT ![p] = "outside"]
    /\ lockfile' = Nothing
    /\ leftover' = FALSE
    /\ UNCHANGED <<fd, flock>>

\* The shell and its subshell are killed: the descriptor is closed, the name stays.
Die(p) ==
    /\ pc[p] # "outside"
    /\ pc' = [pc EXCEPT ![p] = "outside"]
    /\ fd' = [fd EXCEPT ![p] = Nothing]
    /\ flock' = Unlocked(p)
    /\ leftover' = TRUE
    /\ UNCHANGED lockfile

InstallNext == \E p \in Processes : Open(p) \/ TryLock(p) \/ Close(p) \/ RemoveName(p) \/ Die(p)
InstallSpec == InstallInit /\ [][InstallNext]_installVars

Inside == {p \in Processes : pc[p] = "inside"}

-----------------------------------------------------------------------------
\* The type invariant. The lock on a file is held exactly by the process that is inside with
\* that file open, whether or not the directory still names it.
InstallTypeOK ==
    /\ pc \in [Processes -> {"outside", "opened", "inside", "refused", "closed"}]
    /\ lockfile \in Files \cup {Nothing}
    /\ fd \in [Processes -> Files \cup {Nothing}]
    /\ flock \in [Files -> Processes \cup {Nothing}]
    /\ leftover \in BOOLEAN
    /\ \A p \in Processes : pc[p] \in {"opened", "inside", "refused"} <=> fd[p] # Nothing
    /\ \A p \in Processes, f \in Files : flock[f] = p <=> pc[p] = "inside" /\ fd[p] = f

\* The lock's purpose, as the comment of formal_commands_with_lock states it: never are two
\* processes inside formal_commands on one directory.
MutualExclusion == \A p, q \in Inside : p = q

\* A process is turned away only while another one is inside: neither a file that a killed
\* process left in the directory nor one that was removed under its feet refuses anybody.
RefusedOnlyWhileAnotherWorks ==
    [][\A p \in Processes : pc[p] = "opened" /\ pc'[p] = "refused" => Inside \ {p} # {}]_installVars

\* When no process is at work the directory holds no lock file, unless one was killed: the last
\* one to leave removes it, however the openings, refusals and removals interleaved, and also
\* when it was itself refused.
QuietDirectoryIsClean ==
    (\A p \in Processes : pc[p] = "outside") /\ ~leftover => lockfile = Nothing
=============================================================================
