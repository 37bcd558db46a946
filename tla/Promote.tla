-------------------------------- MODULE Promote --------------------------------
(***************************************************************************)
(* promoteSite.sh from the sampler on: install the configuration files      *)
(* that differ, then make the services read them, and put the files back    *)
(* when a service refuses them.  The operator runs the script by hand, any   *)
(* number of times; it may end anywhere (set -e, Ctrl-C, a dropped session), *)
(* and the machine may restart.                                              *)
(*                                                                          *)
(* Whether a service has something new to read is decided by comparing the   *)
(* repository with /etc, not with what the service runs.                     *)
(***************************************************************************)
EXTENDS Naturals, Sequences

CONSTANTS
    Fallible,       \* services of which an edit may break the configuration
    MaxEdits,       \* bound: edits of the repository
    MaxInterrupts,  \* bound: runs that end in the middle
    MaxReboots      \* bound: restarts of the machine

Service == {"sampler", "nginx", "gophernicus", "molly-brown", "fail2ban"}

\* The files of a service; the managed nginx directories stand for nginx's.
FilesOf == [s \in Service |->
    CASE s = "sampler"     -> {"statusSample.sh"}
      [] s = "nginx"       -> {"sites-available", "snippets"}
      [] s = "gophernicus" -> {"default/gophernicus"}
      [] s = "molly-brown" -> {"molly-brown/dreamstation.conf"}
      [] s = "fail2ban"    -> {"fail2ban/filter.d"}]

EtcServices == {"gophernicus", "molly-brown", "fail2ban"}
EtcFiles    == UNION {FilesOf[s] : s \in EtcServices}
File        == EtcFiles \cup FilesOf["nginx"] \cup FilesOf["sampler"]
ServiceOf   == [f \in File |-> CHOOSE s \in Service : f \in FilesOf[s]]

ASSUME ConstantsAssumption ==
    /\ Fallible \subseteq Service
    /\ {MaxEdits, MaxInterrupts, MaxReboots} \subseteq Nat

VARIABLES
    repo,        \* repo[f]: the edit the repository holds
    installed,   \* installed[f]: the edit that is installed
    running,     \* running[f]: the edit its service has read
    broken,      \* edits that their service refuses, whatever the gates let pass
    todo,        \* files that this run has yet to compare
    changed,     \* files that this run has replaced
    backup,      \* what they held before
    pc,          \* index into Script; 0 when no promote runs
    undo,        \* what a rollback is about to do: "restore", "recover" or "none"
    outcome,     \* how the last run ended, and at which service
    before,      \* what was installed when it began
    edits, interrupts, reboots

vars == <<repo, installed, running, broken, todo, changed, backup, pc, undo, outcome,
          before, edits, interrupts, reboots>>

source   == <<repo, broken, edits>>
run      == <<todo, changed, backup, before>>
counters == <<interrupts, reboots>>

Absent == 0   \* no such file

\* The script, in its order: all of etc/ is installed before the first of its
\* services is restarted.
Script ==
    << <<"install", "sampler">>, <<"restart", "sampler">>,
       <<"check", "nginx">>, <<"install", "nginx">>,
       <<"test", "nginx">>, <<"reload", "nginx">>,
       <<"install", "etc">>,
       <<"restart", "gophernicus">>, <<"probe", "gophernicus">>,
       <<"restart", "molly-brown">>, <<"probe", "molly-brown">>,
       <<"test", "fail2ban">>, <<"reload", "fail2ban">> >>

FilesAt(s) == IF s = "etc" THEN EtcFiles ELSE FilesOf[s]

\* What a service makes of a set of files.
Accepts(s, files) == \A f \in FilesOf[s] : files[f] \notin broken
Up(s)             == Accepts(s, running)

Init ==
    /\ repo = [f \in File |-> 1]
    /\ installed = [f \in File |-> Absent]
    /\ running = installed
    /\ broken = {}
    /\ todo = {}
    /\ changed = {}
    /\ backup = installed
    /\ pc = 0
    /\ undo = "none"
    /\ outcome = [how |-> "success", at |-> "none"]
    /\ before = installed
    /\ edits = 0
    /\ interrupts = 0
    /\ reboots = 0

-------------------------------------------------------------------------------
(***************************************************************************)
(* The script                                                              *)
(***************************************************************************)

Doing(step, s) ==
    /\ pc # 0
    /\ undo = "none"
    /\ Script[pc] = <<step, s>>

End(how, s) ==
    /\ pc' = 0
    /\ undo' = "none"
    /\ outcome' = [how |-> how, at |-> s]

Advance ==
    IF pc = Len(Script) THEN End("success", "none")
                        ELSE pc' = pc + 1 /\ UNCHANGED <<undo, outcome>>

Changed(s) == FilesOf[s] \cap changed # {}

\* The files of s as in from.
Replace(files, s, from) == [f \in File |-> IF f \in s THEN from[f] ELSE files[f]]

BeginPromote ==
    /\ pc = 0
    /\ pc' = 1
    /\ todo' = FilesAt(Script[1][2])
    /\ changed' = {}
    /\ before' = installed
    /\ UNCHANGED <<source, installed, running, backup, undo, outcome, counters>>

\* `cmp -s` against what is installed; back up, or note that there was nothing,
\* and install.
Compare(f) ==
    /\ f \in todo
    /\ todo' = todo \ {f}
    /\ IF installed[f] = repo[f]
       THEN UNCHANGED <<installed, changed, backup>>
       ELSE /\ installed' = [installed EXCEPT ![f] = repo[f]]
            /\ backup' = [backup EXCEPT ![f] = installed[f]]
            /\ changed' = changed \cup {f}
    /\ UNCHANGED <<source, running, pc, undo, outcome, before, counters>>

EndInstall(s) ==
    /\ Doing("install", s)
    /\ todo = {}
    /\ Advance
    /\ UNCHANGED <<source, installed, running, run, counters>>

\* A configuration that was bad before this run is not touched.
CheckNginx ==
    /\ Doing("check", "nginx")
    /\ IF Accepts("nginx", installed)
       THEN Advance /\ todo' = FilesOf["nginx"]
       ELSE End("skip", "nginx") /\ UNCHANGED todo
    /\ UNCHANGED <<source, installed, running, changed, backup, before, counters>>

\* Nothing of a service was installed: nothing to do for it.
Skip(step, s) ==
    /\ Doing(step, s)
    /\ step \in {"restart", "probe", "test", "reload"}
    /\ ~ Changed(s)
    /\ Advance
    /\ todo' = IF step = "reload" /\ s = "nginx" THEN EtcFiles ELSE todo
    /\ UNCHANGED <<source, installed, running, changed, backup, before, counters>>

\* Mutant of Reread: one file of a service is enough.
RereadOne(step, s) ==
    /\ Doing(step, s)
    /\ step \in {"restart", "reload"}
    /\ Changed(s)
    /\ \E f \in FilesOf[s] : running' = [running EXCEPT ![f] = installed[f]]
    /\ Advance
    /\ todo' = IF s = "nginx" THEN EtcFiles ELSE todo
    /\ UNCHANGED <<source, installed, changed, backup, before, counters>>

\* systemctl restart or reload: the service reads what is installed.
Reread(step, s) ==
    /\ Doing(step, s)
    /\ step \in {"restart", "reload"}
    /\ Changed(s)
    /\ running' = Replace(running, FilesOf[s], installed)
    /\ Advance
    /\ todo' = IF s = "nginx" THEN EtcFiles ELSE todo
    /\ UNCHANGED <<source, installed, changed, backup, before, counters>>

\* Mutant of Verdict: the test looks at what the service runs.
VerdictOnRunning(step, s) == Up(s)

\* A probe asks the service that was restarted, a test the files.
Verdict(step, s) == IF step = "probe" THEN Up(s) ELSE Accepts(s, installed)

Verify(step, s) ==
    /\ Doing(step, s)
    /\ step \in {"probe", "test"}
    /\ Changed(s)
    /\ IF Verdict(step, s) THEN Advance
                           ELSE undo' = "restore" /\ UNCHANGED <<pc, outcome>>
    /\ UNCHANGED <<source, installed, running, run, counters>>

\* Mutant of Restore: a file that was not there stays.
RestoreExisting(s) ==
    /\ undo = "restore"
    /\ Script[pc][2] = s
    /\ installed' = Replace(installed,
                            {f \in FilesOf[s] \cap changed : backup[f] # Absent}, backup)
    /\ undo' = "recover"
    /\ UNCHANGED <<source, running, run, pc, outcome, counters>>

\* Put back what this run replaced, of this service.
Restore(s) ==
    /\ undo = "restore"
    /\ Script[pc][2] = s
    /\ installed' = Replace(installed, FilesOf[s] \cap changed, backup)
    /\ undo' = "recover"
    /\ UNCHANGED <<source, running, run, pc, outcome, counters>>

\* A service that was restarted is restarted again and probed; one that was not
\* is only tested.  Either way this is the end of the run.
Recover(s) ==
    /\ undo = "recover"
    /\ Script[pc][2] = s
    /\ running' = IF Script[pc][1] = "probe" THEN Replace(running, FilesOf[s], installed)
                                             ELSE running
    /\ End(IF Accepts(s, installed) THEN "abort" ELSE "human", s)
    /\ UNCHANGED <<source, installed, run, counters>>

-------------------------------------------------------------------------------
(***************************************************************************)
(* The operator and the machine                                            *)
(***************************************************************************)

\* An edit of the repository, at any time.
Edit(f) ==
    /\ edits < MaxEdits
    /\ edits' = edits + 1
    /\ repo' = [repo EXCEPT ![f] = edits + 2]
    /\ \/ UNCHANGED broken
       \/ ServiceOf[f] \in Fallible /\ broken' = broken \cup {edits + 2}
    /\ UNCHANGED <<installed, running, run, pc, undo, outcome, counters>>

\* A command fails under `set -e`, or the operator's session ends.  The trap
\* removes the backups and nothing else.
Interrupt ==
    /\ pc # 0
    /\ interrupts < MaxInterrupts
    /\ interrupts' = interrupts + 1
    /\ End("cut off", "none")
    /\ todo' = {}
    /\ UNCHANGED <<source, installed, running, changed, backup, before, reboots>>

\* Every service reads what is installed.
Reboot ==
    /\ reboots < MaxReboots
    /\ reboots' = reboots + 1
    /\ running' = installed
    /\ IF pc = 0 THEN UNCHANGED <<pc, undo, outcome>> ELSE End("cut off", "none")
    /\ todo' = {}
    /\ UNCHANGED <<source, installed, changed, backup, before, interrupts>>

Step ==
    \/ \E f \in File : Compare(f)
    \/ CheckNginx
    \/ \E s \in Service \cup {"etc"} : EndInstall(s)
    \/ \E s \in Service, step \in {"restart", "probe", "test", "reload"} :
         Skip(step, s) \/ Reread(step, s) \/ Verify(step, s)
    \/ \E s \in Service : Restore(s) \/ Recover(s)

Next ==
    \/ BeginPromote
    \/ Step
    \/ \E f \in File : Edit(f)
    \/ Interrupt
    \/ Reboot

Spec == Init /\ [][Next]_vars

\* The script goes on unless it is cut off, and the operator runs it until there
\* is nothing left to do ("fix that first, then re-run", promoteSite.sh:274).
FairSpec ==
    /\ Spec
    /\ WF_vars(Step)
    /\ WF_vars(BeginPromote)

-------------------------------------------------------------------------------
(***************************************************************************)
(* Properties                                                              *)
(***************************************************************************)

TypeOK ==
    /\ {repo, installed, running, backup, before} \subseteq [File -> 0 .. edits + 1]
    /\ broken \subseteq 2 .. edits + 1
    /\ todo \subseteq File
    /\ todo # {} => /\ pc # 0
                    /\ Script[pc][1] = "install"
                    /\ todo \subseteq FilesAt(Script[pc][2])
    /\ changed \subseteq File
    /\ pc \in 0 .. Len(Script)
    /\ undo \in {"none", "restore", "recover"}
    /\ undo # "none" => pc # 0 /\ Script[pc][1] \in {"probe", "test"}
    /\ outcome.how \in {"success", "abort", "human", "skip", "cut off"}
    /\ outcome.at \in Service \cup {"none"}
    /\ edits \in Nat /\ interrupts \in Nat /\ reboots \in Nat

Ended(how) == pc = 0 /\ outcome.how = how

\* As long as the machine stays up, no run of the script, cut off or not, makes
\* nginx or fail2ban read a configuration they refuse: what one run leaves
\* behind, the next one must not reload.
TestedStaysUp == reboots = 0 => Up("nginx") /\ Up("fail2ban")

\* "Rolled back; /etc/nginx is as it was" (promoteSite.sh:334): the service a run
\* gave up on has the files it had when the run began, new ones gone again.
RollbackRestores ==
    Ended("abort") => \A f \in FilesOf[outcome.at] : installed[f] = before[f]

\* After a promote that succeeded, the services run every file it installed, all
\* of the files of a service and not only the first: "each service is restarted,
\* PROBED over its own protocol, and rolled back if the probe fails"
\* (promoteSite.sh:346).  Files that an earlier run left behind are another matter.
InstalledIsReread == Ended("success") => \A f \in changed : running[f] = installed[f]

\* Once the repository holds configurations that every service accepts, running
\* the script again gets them installed: no rollback leads into a state from
\* which it would give up for ever.  A run that is cut off may leave nginx files
\* that stop every later run until somebody repairs them (promoteSite.sh:274).
Converges ==
    [](outcome.how # "cut off") =>
        (<>[](\A s \in Service : Accepts(s, repo)) => <>[](installed = repo))
===============================================================================
