------------------------------- MODULE SiteProofs ------------------------------
(***************************************************************************)
(* The two scripts that carry the site from its authors to its machine.     *)
(* First what promoteSite.sh keeps whatever it is interrupted by, for any   *)
(* number of edits, runs, interruptions and any choice of services that an  *)
(* edit may break; then the commit hook.                                    *)
(***************************************************************************)
EXTENDS Promote, PreCommit, TLAPS

\* Every file anybody holds is of an edit that has been made, so that the next
\* edit breaks nothing that is installed.
Typed ==
    /\ edits \in Nat
    /\ reboots \in Nat
    /\ repo \in [File -> 0 .. edits + 1]
    /\ installed \in [File -> 0 .. edits + 1]
    /\ running \in [File -> 0 .. edits + 1]
    /\ backup \in [File -> 0 .. edits + 1]
    /\ before \in [File -> 0 .. edits + 1]
    /\ broken \subseteq 2 .. edits + 1
    /\ todo \subseteq File
    /\ changed \subseteq File
    /\ pc \in 0 .. 13
    /\ undo \in {"none", "restore", "recover"}

\* Files are compared while a run installs, and undone where one verifies.  No
\* file is compared twice in one run.
Placed ==
    /\ todo # {} => pc \in {1, 4, 7}
    /\ undo # "none" => pc \in {5, 9, 11, 12}
    /\ pc = 1 => todo \subseteq FilesOf["sampler"]
    /\ pc = 4 => todo \subseteq FilesOf["nginx"]
    /\ pc \in 1 .. 3 => changed \subseteq FilesOf["sampler"]
    /\ pc \in 1 .. 6 => changed \cap EtcFiles = {}
    /\ todo \cap changed = {}

\* A reload comes after a test of what it will read.
Tested ==
    /\ pc = 6  /\ Changed("nginx")    => Accepts("nginx", installed)
    /\ pc = 13 /\ Changed("fail2ban") => Accepts("fail2ban", installed)

\* A run knows how to go back to where it began.
Undoable ==
    pc # 0 =>
        /\ \A f \in changed : backup[f] = before[f]
        /\ undo # "recover" => \A f \in File \ changed : installed[f] = before[f]
        /\ undo = "recover" =>
             \A f \in FilesOf[Script[pc][2]] : installed[f] = before[f]

Inv ==
    /\ Typed
    /\ Placed
    /\ Tested
    /\ TestedStaysUp
    /\ Undoable
    /\ RollbackRestores

-------------------------------------------------------------------------------
\* The steps of the script, one by one.
LEMMA ScriptSteps ==
    /\ Len(Script) = 13
    /\ Script[1]  = <<"install", "sampler">>
    /\ Script[2]  = <<"restart", "sampler">>
    /\ Script[3]  = <<"check", "nginx">>
    /\ Script[4]  = <<"install", "nginx">>
    /\ Script[5]  = <<"test", "nginx">>
    /\ Script[6]  = <<"reload", "nginx">>
    /\ Script[7]  = <<"install", "etc">>
    /\ Script[8]  = <<"restart", "gophernicus">>
    /\ Script[9]  = <<"probe", "gophernicus">>
    /\ Script[10] = <<"restart", "molly-brown">>
    /\ Script[11] = <<"probe", "molly-brown">>
    /\ Script[12] = <<"test", "fail2ban">>
    /\ Script[13] = <<"reload", "fail2ban">>
BY DEF Script

\* The files of the services, and that no two services share one.
LEMMA FilesOfServices ==
    /\ FilesOf["sampler"]     = {"statusSample.sh"}
    /\ FilesOf["nginx"]       = {"sites-available", "snippets"}
    /\ FilesOf["gophernicus"] = {"default/gophernicus"}
    /\ FilesOf["molly-brown"] = {"molly-brown/dreamstation.conf"}
    /\ FilesOf["fail2ban"]    = {"fail2ban/filter.d"}
    /\ EtcFiles = {"default/gophernicus", "molly-brown/dreamstation.conf", "fail2ban/filter.d"}
    /\ File = {"statusSample.sh", "sites-available", "snippets", "default/gophernicus",
               "molly-brown/dreamstation.conf", "fail2ban/filter.d"}
<1>1. /\ FilesOf["sampler"]     = {"statusSample.sh"}
      /\ FilesOf["nginx"]       = {"sites-available", "snippets"}
      /\ FilesOf["gophernicus"] = {"default/gophernicus"}
      /\ FilesOf["molly-brown"] = {"molly-brown/dreamstation.conf"}
      /\ FilesOf["fail2ban"]    = {"fail2ban/filter.d"}
  BY DEF FilesOf, Service
<1>2. EtcFiles = {"default/gophernicus", "molly-brown/dreamstation.conf", "fail2ban/filter.d"}
  <2>1. EtcFiles = FilesOf["gophernicus"] \cup FilesOf["molly-brown"] \cup FilesOf["fail2ban"]
    BY DEF EtcFiles, EtcServices
  <2> QED
    BY <1>1, <2>1
<1>3. File = {"default/gophernicus", "molly-brown/dreamstation.conf", "fail2ban/filter.d"}
               \cup {"sites-available", "snippets"} \cup {"statusSample.sh"}
  BY <1>1, <1>2 DEF File
<1>4. File = {"statusSample.sh", "sites-available", "snippets", "default/gophernicus",
              "molly-brown/dreamstation.conf", "fail2ban/filter.d"}
  BY <1>3, SMT
<1> QED
  BY <1>1, <1>2, <1>4

\* Which step of the script a service is at.
LEMMA Where ==
    ASSUME pc \in 0 .. 13, NEW step, NEW s, Doing(step, s)
    PROVE  /\ pc \in 1 .. 13
           /\ undo = "none"
           /\ step = "install" => pc \in {1, 4, 7}
           /\ step = "restart" => pc \in {2, 8, 10}
           /\ step = "probe"   => pc \in {9, 11}
           /\ step = "check"   => pc = 3
           /\ step = "test"    => pc \in {5, 12}
           /\ step = "reload"  => pc \in {6, 13}
           /\ pc \in {5, 6}    => s = "nginx"
           /\ pc \in {12, 13}  => s = "fail2ban"
           /\ pc \in {2}       => s = "sampler"
           /\ pc \in {8, 9}    => s = "gophernicus"
           /\ pc \in {10, 11}  => s = "molly-brown"
<1>1. pc \in 1 .. 13 /\ undo = "none" /\ Script[pc] = <<step, s>>
  BY DEF Doing
<1>2. Script[pc][1] = step /\ Script[pc][2] = s
  BY <1>1
<1> QED
  BY <1>1, <1>2, ScriptSteps

\* Going on to the next step keeps what concerns the place in the script.
LEMMA Onward ==
    ASSUME pc \in 1 .. 13, undo = "none", Advance
    PROVE  /\ pc' \in 0 .. 13
           /\ undo' = "none"
           /\ pc = 13 => pc' = 0 /\ outcome'.how = "success"
           /\ pc # 13 => pc' = pc + 1 /\ outcome' = outcome
BY ScriptSteps DEF Advance, End

-------------------------------------------------------------------------------
LEMMA InitInv == Init => Inv
<1> SUFFICES ASSUME Init PROVE Inv
  OBVIOUS
<1>1. Typed /\ Placed /\ Tested /\ Undoable
  BY DEF Init, Typed, Placed, Tested, Undoable, Absent
<1>2. TestedStaysUp
  BY DEF Init, TestedStaysUp, Up, Accepts
<1>3. RollbackRestores
  BY DEF Init, RollbackRestores, Ended
<1> QED
  BY <1>1, <1>2, <1>3 DEF Inv
-------------------------------------------------------------------------------
(***************************************************************************)
(* Each action keeps the invariant.                                        *)
(***************************************************************************)

LEMMA BeginInv == ASSUME Inv, BeginPromote PROVE Inv'
<1> USE DEF Inv, BeginPromote, source, counters
<1>1. Typed'
  <2>1. FilesAt(Script[1][2]) \subseteq File
    BY ScriptSteps, FilesOfServices DEF FilesAt
  <2> QED
    BY <2>1 DEF Typed
<1>2. Placed' /\ Tested'
  BY ScriptSteps DEF Placed, Tested, FilesAt
<1>3. TestedStaysUp'
  BY DEF TestedStaysUp, Up, Accepts
<1>4. Undoable'
  BY DEF Placed, Undoable
<1>5. RollbackRestores'
  BY DEF RollbackRestores, Ended
<1> QED
  BY <1>1, <1>2, <1>3, <1>4, <1>5

LEMMA CompareInv == ASSUME Inv, NEW f \in File, Compare(f) PROVE Inv'
<1> USE DEF Inv, Compare, source, counters
<1>1. pc \in {1, 4, 7} /\ undo = "none" /\ pc' = pc /\ undo' = undo
  BY DEF Placed
<1>2. Typed'
  BY DEF Typed
<1>3. Placed' /\ Tested'
  BY <1>1, FilesOfServices DEF Placed, Tested
<1>4. TestedStaysUp'
  BY DEF TestedStaysUp, Up, Accepts
<1>5. Undoable'
  <2>1. /\ \A g \in changed : backup[g] = before[g]
        /\ \A g \in File \ changed : installed[g] = before[g]
    BY <1>1 DEF Undoable
  <2>2. CASE installed[f] = repo[f]
    BY <1>1, <2>1, <2>2 DEF Undoable
  <2>3. CASE installed[f] # repo[f]
    <3>1. f \notin changed
      BY DEF Placed
    <3> QED
      BY <1>1, <2>1, <2>3, <3>1 DEF Undoable, Typed
  <2> QED
    BY <2>2, <2>3
<1>6. RollbackRestores'
  BY <1>1 DEF RollbackRestores, Ended
<1> QED
  BY <1>2, <1>3, <1>4, <1>5, <1>6

LEMMA EndInstallInv == ASSUME Inv, NEW s, EndInstall(s) PROVE Inv'
<1> USE DEF Inv, EndInstall, source, run, counters
<1>1. pc \in {1, 4, 7} /\ undo = "none"
  BY Where DEF Typed
<1>2. pc' = pc + 1 /\ undo' = "none" /\ outcome' = outcome
  BY <1>1, Onward
<1>3. Typed'
  BY <1>1, <1>2 DEF Typed
<1>4. Placed' /\ Tested'
  BY <1>1, <1>2 DEF Placed, Tested
<1>5. TestedStaysUp'
  BY DEF TestedStaysUp, Up, Accepts
<1>6. Undoable'
  BY <1>1, <1>2 DEF Undoable
<1>7. RollbackRestores'
  BY <1>1, <1>2 DEF RollbackRestores, Ended
<1> QED
  BY <1>3, <1>4, <1>5, <1>6, <1>7

LEMMA CheckInv == ASSUME Inv, CheckNginx PROVE Inv'
<1> USE DEF Inv, CheckNginx, source, counters
<1>1. pc = 3 /\ undo = "none"
  BY Where DEF Typed
<1>2. CASE Accepts("nginx", installed)
  <2>1. pc' = 4 /\ undo' = "none" /\ outcome' = outcome /\ todo' = FilesOf["nginx"]
    BY <1>1, <1>2, Onward
  <2>2. Typed' /\ Placed' /\ Tested'
    BY <1>1, <2>1, FilesOfServices DEF Typed, Placed, Tested
  <2>3. TestedStaysUp' /\ Undoable' /\ RollbackRestores'
    BY <1>1, <2>1 DEF TestedStaysUp, Up, Accepts, Undoable, RollbackRestores, Ended
  <2> QED
    BY <2>2, <2>3
<1>3. CASE ~ Accepts("nginx", installed)
  <2>1. pc' = 0 /\ undo' = "none" /\ outcome'.how = "skip" /\ todo' = todo
    BY <1>3 DEF End
  <2>2. Typed' /\ Placed' /\ Tested'
    BY <1>1, <2>1 DEF Typed, Placed, Tested
  <2>3. TestedStaysUp' /\ Undoable' /\ RollbackRestores'
    BY <1>1, <2>1 DEF TestedStaysUp, Up, Accepts, Undoable, RollbackRestores, Ended
  <2> QED
    BY <2>2, <2>3
<1> QED
  BY <1>2, <1>3

LEMMA SkipInv == ASSUME Inv, NEW s, NEW step, Skip(step, s) PROVE Inv'
<1> USE DEF Inv, Skip, source, counters
<1>1. /\ pc \in {2, 5, 6, 8, 9, 10, 11, 12, 13}
      /\ undo = "none"
      /\ pc = 6 <=> step = "reload" /\ s = "nginx"
      /\ pc = 5 => s = "nginx"
      /\ pc = 12 => s = "fail2ban"
  BY Where DEF Typed
<1>2. /\ pc' \in 0 .. 13 /\ undo' = "none"
      /\ pc = 13 => pc' = 0 /\ outcome'.how = "success"
      /\ pc # 13 => pc' = pc + 1 /\ outcome' = outcome
  BY <1>1, Onward
<1>3. todo' = IF pc = 6 THEN EtcFiles ELSE todo
  BY <1>1
<1>4. Typed'
  BY <1>2, <1>3, FilesOfServices DEF Typed
<1>5. Placed'
  BY <1>1, <1>2, <1>3 DEF Placed
<1>6. Tested'
  BY <1>1, <1>2 DEF Tested, Changed
<1>7. TestedStaysUp'
  BY DEF TestedStaysUp, Up, Accepts
<1>8. Undoable' /\ RollbackRestores'
  BY <1>1, <1>2 DEF Undoable, RollbackRestores, Ended
<1> QED
  BY <1>4, <1>5, <1>6, <1>7, <1>8

\* A reload reads what the test before it has accepted; a restart is of a
\* service that is neither nginx nor fail2ban.
LEMMA RereadInv == ASSUME Inv, NEW s \in Service, NEW step, Reread(step, s) PROVE Inv'
<1> USE DEF Inv, Reread, source, counters
<1>1. /\ pc \in {2, 6, 8, 10, 13}
      /\ undo = "none"
      /\ pc = 6 <=> s = "nginx"
      /\ pc = 13 <=> s = "fail2ban"
  BY Where DEF Typed
<1>2. /\ pc' \in 0 .. 13 /\ undo' = "none"
      /\ pc = 13 => pc' = 0 /\ outcome'.how = "success"
      /\ pc # 13 => pc' = pc + 1 /\ outcome' = outcome
  BY <1>1, Onward
<1>3. todo' = IF pc = 6 THEN EtcFiles ELSE todo
  BY <1>1
<1>4. Typed'
  BY <1>2, <1>3, FilesOfServices DEF Typed, Replace
<1>5. Placed'
  BY <1>1, <1>2, <1>3 DEF Placed
<1>6. Tested'
  BY <1>1, <1>2 DEF Tested
<1>7. TestedStaysUp'
  <2> SUFFICES ASSUME reboots = 0
               PROVE  Up("nginx")' /\ Up("fail2ban")'
    BY DEF TestedStaysUp
  <2>1. Up("nginx") /\ Up("fail2ban")
    BY DEF TestedStaysUp
  <2>2. \A f \in File : running'[f] = IF f \in FilesOf[s] THEN installed[f] ELSE running[f]
    BY DEF Replace
  <2>3. s = "nginx" => Accepts("nginx", installed)
    BY <1>1 DEF Tested
  <2>4. s = "fail2ban" => Accepts("fail2ban", installed)
    BY <1>1 DEF Tested
  <2>5. \A r \in {"nginx", "fail2ban"} :
          FilesOf[r] \subseteq File /\ (s # r => FilesOf[r] \cap FilesOf[s] = {})
    BY FilesOfServices DEF Service
  <2>6. \A r \in {"nginx", "fail2ban"} : Up(r)'
    BY <2>1, <2>2, <2>3, <2>4, <2>5 DEF Up, Accepts
  <2> QED
    BY <2>6
<1>8. Undoable' /\ RollbackRestores'
  BY <1>1, <1>2 DEF Undoable, RollbackRestores, Ended
<1> QED
  BY <1>4, <1>5, <1>6, <1>7, <1>8

LEMMA VerifyInv == ASSUME Inv, NEW s, NEW step, Verify(step, s) PROVE Inv'
<1> USE DEF Inv, Verify, source, run, counters
<1>1. /\ pc \in {5, 9, 11, 12}
      /\ undo = "none"
      /\ step = "test" <=> pc \in {5, 12}
      /\ pc = 5 => s = "nginx"
      /\ pc = 12 => s = "fail2ban"
  BY Where DEF Typed
<1>2. CASE Verdict(step, s)
  <2>1. pc' = pc + 1 /\ undo' = "none" /\ outcome' = outcome
    BY <1>1, <1>2, Onward
  <2>2. Typed' /\ Placed' /\ Undoable'
    BY <1>1, <2>1 DEF Typed, Placed, Undoable
  <2>3. Tested'
    BY <1>1, <1>2, <2>1 DEF Tested, Verdict, Accepts
  <2>4. TestedStaysUp' /\ RollbackRestores'
    BY <1>1, <2>1 DEF TestedStaysUp, Up, Accepts, RollbackRestores, Ended
  <2> QED
    BY <2>2, <2>3, <2>4
<1>3. CASE ~ Verdict(step, s)
  <2>1. pc' = pc /\ undo' = "restore" /\ outcome' = outcome
    BY <1>3
  <2>2. Typed' /\ Placed' /\ Undoable'
    BY <1>1, <2>1 DEF Typed, Placed, Undoable
  <2>3. Tested' /\ TestedStaysUp' /\ RollbackRestores'
    BY <1>1, <2>1 DEF Tested, TestedStaysUp, Up, Accepts, RollbackRestores, Ended
  <2> QED
    BY <2>2, <2>3
<1> QED
  BY <1>2, <1>3

\* What this run replaced goes back to what it was, and the rest never changed.
LEMMA RestoreInv == ASSUME Inv, NEW s \in Service, Restore(s) PROVE Inv'
<1> USE DEF Inv, Restore, source, run, counters
<1>1. /\ pc \in {5, 9, 11, 12} /\ pc' = pc /\ outcome' = outcome
      /\ undo = "restore" /\ undo' = "recover"
      /\ Script[pc][2] = s
  BY DEF Placed
<1>2. Typed' /\ Placed'
  BY <1>1 DEF Typed, Placed, Replace
<1>3. Tested' /\ TestedStaysUp' /\ RollbackRestores'
  BY <1>1 DEF Tested, TestedStaysUp, Up, Accepts, RollbackRestores, Ended
<1>4. FilesOf[s] \subseteq File
  BY FilesOfServices DEF Service
<1>5. \A f \in FilesOf[s] : installed'[f] = before[f]
  BY <1>1, <1>4 DEF Undoable, Replace
<1>6. Undoable'
  BY <1>1, <1>5 DEF Undoable
<1> QED
  BY <1>2, <1>3, <1>6

LEMMA RecoverInv == ASSUME Inv, NEW s \in Service, Recover(s) PROVE Inv'
<1> USE DEF Inv, Recover, source, run, counters
<1>1. /\ pc \in {5, 9, 11, 12} /\ pc' = 0 /\ undo' = "none"
      /\ Script[pc][2] = s
      /\ outcome'.at = s
  BY DEF Placed, End
<1>2. running' = running \/ s \in {"gophernicus", "molly-brown"}
  BY <1>1, ScriptSteps
<1>3. \A f \in File : f \notin FilesOf[s] => running'[f] = running[f]
  BY DEF Replace, Typed
<1>4. Typed' /\ Placed' /\ Tested' /\ Undoable'
  BY <1>1 DEF Typed, Placed, Tested, Undoable, Replace
<1>5. TestedStaysUp'
  <2>1. \A r \in {"nginx", "fail2ban"} :
          FilesOf[r] \subseteq File
          /\ (s \in {"gophernicus", "molly-brown"} => FilesOf[r] \cap FilesOf[s] = {})
    BY FilesOfServices
  <2>2. ASSUME NEW r \in {"nginx", "fail2ban"}, Up(r)
        PROVE  Up(r)'
    BY <1>2, <1>3, <2>1, <2>2 DEF Up, Accepts
  <2> QED
    BY <2>2 DEF TestedStaysUp
<1>6. RollbackRestores'
  BY <1>1 DEF Undoable, RollbackRestores, Ended
<1> QED
  BY <1>4, <1>5, <1>6

\* A new edit may break a configuration, but none that anybody has yet.
LEMMA EditInv == ASSUME Inv, NEW f \in File, Edit(f) PROVE Inv'
<1> USE DEF Inv, Edit, run, counters
<1>1. /\ edits' = edits + 1
      /\ repo' = [repo EXCEPT ![f] = edits + 2]
      /\ broken \subseteq broken'
      /\ broken' \subseteq broken \cup {edits + 2}
      /\ UNCHANGED <<installed, running, backup, before, todo, changed, pc, undo, outcome, reboots>>
  OBVIOUS
<1>2. Typed'
  <2>1. edits \in Nat /\ edits' + 1 = edits + 2
    BY <1>1 DEF Typed
  <2>2. 0 .. edits + 1 \subseteq 0 .. edits' + 1 /\ edits + 2 \in 0 .. edits' + 1
    BY <2>1
  <2>3. repo' \in [File -> 0 .. edits' + 1]
    BY <1>1, <2>2 DEF Typed
  <2>4. /\ installed \in [File -> 0 .. edits' + 1]
        /\ running \in [File -> 0 .. edits' + 1]
        /\ backup \in [File -> 0 .. edits' + 1]
        /\ before \in [File -> 0 .. edits' + 1]
    BY <2>2 DEF Typed
  <2>5. broken' \subseteq 2 .. edits' + 1
    BY <1>1, <2>1 DEF Typed
  <2> QED
    BY <1>1, <2>1, <2>3, <2>4, <2>5 DEF Typed
<1>3. ASSUME NEW s \in Service, NEW files \in [File -> 0 .. edits + 1], Accepts(s, files)
      PROVE  Accepts(s, files)'
  <2>1. FilesOf[s] \subseteq File
    BY FilesOfServices DEF Service
  <2>2. \A g \in FilesOf[s] : files[g] \in 0 .. edits + 1
    BY <2>1
  <2>3. edits \in Nat
    BY DEF Typed
  <2>4. \A g \in FilesOf[s] : files[g] # edits + 2
    BY <2>2, <2>3
  <2> QED
    BY <1>1, <1>3, <2>4 DEF Accepts
<1>4. Tested'
  BY <1>1, <1>3 DEF Tested, Typed, Changed, Accepts, Service
<1>5. TestedStaysUp'
  BY <1>1, <1>3 DEF TestedStaysUp, Up, Typed, Accepts, Service
<1>6. Placed' /\ Undoable' /\ RollbackRestores'
  BY <1>1 DEF Placed, Undoable, RollbackRestores, Ended
<1> QED
  BY <1>2, <1>4, <1>5, <1>6

\* A run that ends in the middle leaves the files, and nothing to go on with.
LEMMA CutOff ==
    ASSUME Inv, pc' = 0, undo' = "none", todo' = {},
           UNCHANGED <<source, installed, changed, backup, before>>,
           running' \in [File -> 0 .. edits + 1], reboots' \in Nat
    PROVE  Typed' /\ Placed' /\ Tested' /\ Undoable'
<1> USE DEF source
<1>1. Typed'
  BY DEF Inv, Typed
<1>2. Placed' /\ Tested' /\ Undoable'
  BY DEF Placed, Tested, Undoable
<1> QED
  BY <1>1, <1>2

LEMMA InterruptInv == ASSUME Inv, Interrupt PROVE Inv'
<1>1. /\ pc' = 0 /\ undo' = "none" /\ outcome'.how = "cut off" /\ todo' = {}
      /\ UNCHANGED <<source, installed, running, changed, backup, before, reboots>>
  BY DEF Interrupt, End
<1>2. running \in [File -> 0 .. edits + 1] /\ reboots \in Nat
  BY DEF Inv, Typed
<1>3. Typed' /\ Placed' /\ Tested' /\ Undoable'
  BY <1>1, <1>2, CutOff
<1>4. TestedStaysUp' /\ RollbackRestores'
  BY <1>1 DEF Inv, TestedStaysUp, Up, Accepts, RollbackRestores, Ended, source
<1> QED
  BY <1>3, <1>4 DEF Inv

LEMMA RebootInv == ASSUME Inv, Reboot PROVE Inv'
<1>1. /\ reboots' = reboots + 1
      /\ running' = installed
      /\ todo' = {}
      /\ UNCHANGED <<source, installed, changed, backup, before>>
  BY DEF Reboot
<1>2. /\ reboots \in Nat
      /\ installed \in [File -> 0 .. edits + 1]
      /\ undo \in {"none", "restore", "recover"}
  BY DEF Inv, Typed
<1>3. CASE pc = 0
  <2>1. pc' = 0 /\ undo' = undo /\ outcome' = outcome
    BY <1>3 DEF Reboot
  <2>2. undo = "none"
    BY <1>2, <1>3 DEF Inv, Placed
  <2>3. Typed' /\ Placed' /\ Tested' /\ Undoable'
    BY <1>1, <1>2, <2>1, <2>2, CutOff
  <2>4. TestedStaysUp' /\ RollbackRestores'
    BY <1>1, <1>2, <1>3, <2>1 DEF Inv, TestedStaysUp, RollbackRestores, Ended
  <2> QED
    BY <2>3, <2>4 DEF Inv
<1>4. CASE pc # 0
  <2>1. End("cut off", "none")
    BY <1>4 DEF Reboot
  <2>2. pc' = 0 /\ undo' = "none"
    BY <2>1 DEF End
  <2>3. outcome'.how = "cut off"
    BY <2>1 DEF End
  <2>4. Typed' /\ Placed' /\ Tested' /\ Undoable'
    BY <1>1, <1>2, <2>2, CutOff
  <2>5. reboots' # 0
    BY <1>1, <1>2
  <2>6. TestedStaysUp' /\ RollbackRestores'
    BY <2>3, <2>5 DEF TestedStaysUp, RollbackRestores, Ended
  <2> QED
    BY <2>4, <2>6 DEF Inv
<1> QED
  BY <1>3, <1>4

LEMMA NextInv == Inv /\ [Next]_vars => Inv'
<1> SUFFICES ASSUME Inv, [Next]_vars PROVE Inv'
  OBVIOUS
<1>1. CASE BeginPromote
  BY <1>1, BeginInv
<1>2. CASE Step
  BY <1>2, CompareInv, CheckInv, EndInstallInv, SkipInv, RereadInv, VerifyInv,
     RestoreInv, RecoverInv DEF Step
<1>3. CASE \E f \in File : Edit(f)
  BY <1>3, EditInv
<1>4. CASE Interrupt
  BY <1>4, InterruptInv
<1>5. CASE Reboot
  BY <1>5, RebootInv
<1>6. CASE UNCHANGED vars
  BY <1>6 DEF vars, Inv, Typed, Placed, Tested, TestedStaysUp, Undoable, RollbackRestores,
              Up, Accepts, Changed, Ended
<1> QED
  BY <1>1, <1>2, <1>3, <1>4, <1>5, <1>6 DEF Next

-------------------------------------------------------------------------------
\* No run of promoteSite.sh, cut off or not, makes nginx or fail2ban read a
\* configuration they refuse (nginx section, fail2ban section).
THEOREM TestedServicesStayUp == Spec => []TestedStaysUp
<1>1. Inv => TestedStaysUp
  BY DEF Inv
<1> QED
  BY <1>1, InitInv, NextInv, PTL DEF Spec

\* A service a run has given up on has the files it had before that run
\* (rollback, etc_restore).
THEOREM RollbackIsExact == Spec => []RollbackRestores
<1>1. Inv => RollbackRestores
  BY DEF Inv
<1> QED
  BY <1>1, InitInv, NextInv, PTL DEF Spec

-------------------------------------------------------------------------------
(***************************************************************************)
(* Types.  Inv has most of them; the rest is how runs end, and that what is *)
(* left to compare in the third section is of /etc.                        *)
(***************************************************************************)

Outcomes == {"success", "abort", "human", "skip", "cut off"}

Remaining ==
    /\ pc = 7 => todo \subseteq EtcFiles
    /\ outcome.how \in Outcomes
    /\ outcome.at \in Service \cup {"none"}
    /\ interrupts \in Nat

LEMMA TypesFollow == ASSUME Inv, Remaining PROVE TypeOK
<1> USE DEF Inv, Typed, Placed, Remaining
<1>1. \A S \in {repo, installed, running, backup, before} : S \in [File -> 0 .. edits + 1]
  OBVIOUS
<1>2. todo # {} => pc # 0 /\ Script[pc][1] = "install" /\ todo \subseteq FilesAt(Script[pc][2])
  BY ScriptSteps DEF FilesAt
<1>3. undo # "none" => pc # 0 /\ Script[pc][1] \in {"probe", "test"}
  BY ScriptSteps
<1> QED
  BY <1>1, <1>2, <1>3, ScriptSteps DEF TypeOK, Outcomes

\* A run ends in one of the ways there are.
LEMMA Endings ==
    ASSUME Remaining, NEW how \in Outcomes, NEW s \in Service \cup {"none"}, End(how, s)
    PROVE  outcome'.how \in Outcomes /\ outcome'.at \in Service \cup {"none"} /\ pc' = 0
  BY DEF End

LEMMA AdvanceEnds ==
    ASSUME Remaining, Advance
    PROVE  outcome'.how \in Outcomes /\ outcome'.at \in Service \cup {"none"}
<1>1. CASE pc = Len(Script)
  BY <1>1, Endings DEF Advance, Outcomes
<1>2. CASE pc # Len(Script)
  BY <1>2 DEF Advance, Remaining
<1> QED
  BY <1>1, <1>2

LEMMA RemainingStep == ASSUME Inv, Remaining, [Next]_vars PROVE Remaining'
<1> USE DEF counters
<1>1. CASE BeginPromote
  BY <1>1 DEF BeginPromote, Remaining
<1>2. ASSUME NEW f \in File, Compare(f) PROVE Remaining'
  BY <1>2 DEF Compare, Remaining
<1>3. CASE CheckNginx
  <2>1. pc = 3 /\ interrupts' = interrupts
    BY <1>3, Where DEF CheckNginx, Inv, Typed
  <2>2. CASE Accepts("nginx", installed)
    BY <1>3, <2>1, <2>2, AdvanceEnds, Onward, Where DEF CheckNginx, Inv, Typed, Remaining
  <2>3. CASE ~ Accepts("nginx", installed)
    <3>1. End("skip", "nginx")
      BY <1>3, <2>3 DEF CheckNginx
    <3>2. "skip" \in Outcomes /\ "nginx" \in Service \cup {"none"}
      BY DEF Outcomes, Service
    <3>3. outcome'.how \in Outcomes /\ outcome'.at \in Service \cup {"none"} /\ pc' = 0
      BY <3>1, <3>2, Endings
    <3> QED
      BY <2>1, <3>3 DEF Remaining
  <2> QED
    BY <2>2, <2>3
<1>4. ASSUME NEW s, EndInstall(s) PROVE Remaining'
  BY <1>4, AdvanceEnds DEF EndInstall, run, Remaining
<1>5. ASSUME NEW s, NEW step, Skip(step, s) PROVE Remaining'
  <2>1. /\ pc \in {2, 5, 6, 8, 9, 10, 11, 12, 13} /\ undo = "none"
        /\ pc = 6 => step = "reload" /\ s = "nginx"
    BY <1>5, Where DEF Skip, Inv, Typed
  <2>2. pc' = 7 => todo' = EtcFiles
    BY <1>5, <2>1, Onward DEF Skip
  <2> QED
    BY <1>5, <2>2, AdvanceEnds DEF Skip, Remaining
<1>6. ASSUME NEW s, NEW step, Reread(step, s) PROVE Remaining'
  <2>1. pc \in {2, 6, 8, 10, 13} /\ undo = "none" /\ (pc = 6 => s = "nginx")
    BY <1>6, Where DEF Reread, Inv, Typed
  <2>2. pc' = 7 => todo' = EtcFiles
    BY <1>6, <2>1, Onward DEF Reread
  <2> QED
    BY <1>6, <2>2, AdvanceEnds DEF Reread, Remaining
<1>7. ASSUME NEW s, NEW step, Verify(step, s) PROVE Remaining'
  <2>1. pc \in {5, 9, 11, 12} /\ undo = "none" /\ interrupts' = interrupts
    BY <1>7, Where DEF Verify, Inv, Typed
  <2>2. CASE Verdict(step, s)
    BY <1>7, <2>1, <2>2, AdvanceEnds, Onward DEF Verify, Remaining
  <2>3. CASE ~ Verdict(step, s)
    BY <1>7, <2>1, <2>3 DEF Verify, Remaining
  <2> QED
    BY <2>2, <2>3
<1>8. ASSUME NEW s \in Service, Restore(s) PROVE Remaining'
  BY <1>8 DEF Restore, run, Remaining
<1>9. ASSUME NEW s \in Service, Recover(s) PROVE Remaining'
  <2>1. PICK how \in {"abort", "human"} : End(how, s)
    BY <1>9 DEF Recover
  <2>2. outcome'.how \in Outcomes /\ outcome'.at \in Service \cup {"none"} /\ pc' = 0
    BY <2>1, Endings DEF Outcomes
  <2> QED
    BY <1>9, <2>2 DEF Recover, Remaining
<1>10. ASSUME NEW f \in File, Edit(f) PROVE Remaining'
  BY <1>10 DEF Edit, run, Remaining
<1>11. CASE Interrupt
  <2>1. interrupts' \in Nat
    <3>1. interrupts \in Nat
      BY DEF Remaining
    <3>2. interrupts' = interrupts + 1
      BY <1>11 DEF Interrupt
    <3> QED
      BY <3>1, <3>2
  <2> QED
    BY <1>11, <2>1, Endings DEF Interrupt, Remaining, Outcomes
<1>12. CASE Reboot
  <2>1. CASE pc = 0
    BY <1>12, <2>1 DEF Reboot, Remaining
  <2>2. CASE pc # 0
    <3>1. End("cut off", "none") /\ interrupts' = interrupts
      BY <1>12, <2>2 DEF Reboot
    <3>2. "cut off" \in Outcomes /\ "none" \in Service \cup {"none"}
      BY DEF Outcomes
    <3>3. outcome'.how \in Outcomes /\ outcome'.at \in Service \cup {"none"} /\ pc' = 0
      BY <3>1, <3>2, Endings
    <3>4. interrupts' \in Nat
      BY <3>1 DEF Remaining
    <3> QED
      BY <3>3, <3>4 DEF Remaining
  <2> QED
    BY <2>1, <2>2
<1>13. CASE UNCHANGED vars
  BY <1>13 DEF vars, run, Remaining
<1>14. CASE Step
  BY <1>14, <1>2, <1>3, <1>4, <1>5, <1>6, <1>7, <1>8, <1>9 DEF Step
<1> QED
  BY <1>1, <1>10, <1>11, <1>12, <1>13, <1>14 DEF Next

\* Type correctness of promoteSite.sh (Promote.tla): nobody holds an edit that
\* was not made, and files are compared, undone and given up only where the
\* script does so.
THEOREM TypeCorrect == Spec => []TypeOK
<1>1. Init => Inv /\ Remaining
  <2>1. Init => Remaining
    BY DEF Init, Remaining, Outcomes
  <2> QED
    BY <2>1, InitInv
<1>2. (Inv /\ Remaining) /\ [Next]_vars => (Inv /\ Remaining)'
  BY NextInv, RemainingStep
<1>3. Inv /\ Remaining => TypeOK
  BY TypesFollow
<1> QED
  BY <1>1, <1>2, <1>3, PTL DEF Spec

-------------------------------------------------------------------------------
(***************************************************************************)
(* A run that succeeds has made the services read what it installed: at each *)
(* step of the script, those that it is past run what it has replaced.       *)
(***************************************************************************)

\* The files of the services that this run has restarted or reloaded.
Past ==
    {f \in File :
        \/ pc \in 3 .. 13  /\ f \in FilesOf["sampler"]
        \/ pc \in 7 .. 13  /\ f \in FilesOf["nginx"]
        \/ pc \in 9 .. 13  /\ f \in FilesOf["gophernicus"]
        \/ pc \in 11 .. 13 /\ f \in FilesOf["molly-brown"]}

\* A rollback may leave a service running what it has just been denied, until
\* it is restarted and the run given up.
PastIsReread == undo # "recover" => \A f \in changed \cap Past : running[f] = installed[f]

ReadInv == Inv /\ Remaining /\ PastIsReread /\ InstalledIsReread

\* Going on past step pc: what becomes past is of the service of that step.
LEMMA PastGrows ==
    ASSUME pc \in 1 .. 13, pc # 13 => pc' = pc + 1, pc = 13 => pc' = 0
    PROVE  /\ pc \notin {2, 6, 8, 10} => Past' \subseteq Past
           /\ pc = 2  => Past' \subseteq Past \cup FilesOf["sampler"]
           /\ pc = 6  => Past' \subseteq Past \cup FilesOf["nginx"]
           /\ pc = 8  => Past' \subseteq Past \cup FilesOf["gophernicus"]
           /\ pc = 10 => Past' \subseteq Past \cup FilesOf["molly-brown"]
BY DEF Past

\* At the end of the script only fail2ban is left.
LEMMA PastAtEnd ==
    ASSUME pc = 13
    PROVE  \A f \in File : f \in Past \/ f \in FilesOf["fail2ban"]
BY FilesOfServices DEF Past

\* Nothing is compared whose service has read already.
LEMMA TodoIsAhead ==
    ASSUME Inv, Remaining, NEW f \in todo
    PROVE  f \notin Past
<1>1. /\ pc \in {1, 4, 7}
      /\ pc = 1 => f \in FilesOf["sampler"]
      /\ pc = 4 => f \in FilesOf["nginx"]
      /\ pc = 7 => f \in EtcFiles
  BY DEF Inv, Placed, Remaining
<1> QED
  BY <1>1, FilesOfServices DEF Past

LEMMA ReadCompare == ASSUME ReadInv, NEW f \in File, Compare(f) PROVE PastIsReread' /\ InstalledIsReread'
<1> USE DEF ReadInv
<1>1. /\ pc' = pc /\ undo' = undo /\ outcome' = outcome /\ running' = running /\ pc # 0
      /\ changed' \subseteq changed \cup {f}
      /\ \A g \in File \ {f} : installed'[g] = installed[g]
  BY DEF Compare, Inv, Placed, Typed
<1>2. f \notin Past /\ Past' = Past /\ Past \subseteq File
  BY <1>1, TodoIsAhead DEF Compare, Past
<1>3. PastIsReread'
  BY <1>1, <1>2 DEF PastIsReread
<1>4. InstalledIsReread'
  BY <1>1 DEF InstalledIsReread, Ended
<1> QED
  BY <1>3, <1>4

\* A step that moves the script on and replaces no file.
LEMMA ReadOnward ==
    ASSUME ReadInv, pc \in 1 .. 13, undo = "none", Advance, UNCHANGED <<installed, changed>>,
           \A f \in changed \cap Past : running'[f] = running[f] \/ running'[f] = installed[f],
           \A f \in changed :
               \/ running'[f] = installed[f]
               \/ /\ pc = 2  => f \notin FilesOf["sampler"]
                  /\ pc = 6  => f \notin FilesOf["nginx"]
                  /\ pc = 8  => f \notin FilesOf["gophernicus"]
                  /\ pc = 10 => f \notin FilesOf["molly-brown"]
                  /\ pc = 13 => f \notin FilesOf["fail2ban"]
    PROVE  PastIsReread' /\ InstalledIsReread'
<1>1. /\ undo' = "none"
      /\ pc = 13 => pc' = 0
      /\ pc # 13 => pc' = pc + 1
  BY Onward
<1>2. \A f \in changed \cap Past : running'[f] = installed[f]
  BY DEF ReadInv, PastIsReread
<1>3. PastIsReread'
  BY <1>1, <1>2, PastGrows DEF PastIsReread
<1>4. InstalledIsReread'
  <2>1. CASE pc = 13
    <3>1. \A f \in changed : f \in Past \/ f \in FilesOf["fail2ban"]
      BY <2>1, PastAtEnd DEF ReadInv, Inv, Typed
    <3> QED
      BY <1>2, <2>1, <3>1 DEF InstalledIsReread
  <2>2. CASE pc # 13
    BY <1>1, <2>2 DEF InstalledIsReread, Ended
  <2> QED
    BY <2>1, <2>2
<1> QED
  BY <1>3, <1>4

\* A run that ends otherwise than by success promises nothing.
LEMMA ReadOver ==
    ASSUME pc' = 0, outcome'.how # "success"
    PROVE  PastIsReread' /\ InstalledIsReread'
BY DEF PastIsReread, Past, InstalledIsReread, Ended

LEMMA ReadStep == ASSUME ReadInv, [Next]_vars PROVE PastIsReread' /\ InstalledIsReread'
<1> DEFINE Goal == PastIsReread' /\ InstalledIsReread'
<1> USE DEF ReadInv
<1>1. CASE BeginPromote
  BY <1>1 DEF BeginPromote, PastIsReread, InstalledIsReread, Ended
<1>2. ASSUME NEW f \in File, Compare(f) PROVE Goal
  BY <1>2, ReadCompare
<1>3. CASE CheckNginx
  <2>1. pc = 3 /\ undo = "none"
    BY <1>3, Where DEF CheckNginx, Inv, Typed
  <2>2. CASE Accepts("nginx", installed)
    BY <1>3, <2>1, <2>2, ReadOnward DEF CheckNginx
  <2>3. CASE ~ Accepts("nginx", installed)
    BY <1>3, <2>3, ReadOver DEF CheckNginx, End
  <2> QED
    BY <2>2, <2>3
<1>4. ASSUME NEW s, EndInstall(s) PROVE Goal
  <2>1. pc \in {1, 4, 7} /\ undo = "none"
    BY <1>4, Where DEF EndInstall, Inv, Typed
  <2> QED
    BY <1>4, <2>1, ReadOnward DEF EndInstall, run
<1>5. ASSUME NEW s, NEW step, Skip(step, s) PROVE Goal
  <2>1. /\ pc \in {2, 5, 6, 8, 9, 10, 11, 12, 13} /\ undo = "none"
        /\ pc \in {5, 6}   => s = "nginx"
        /\ pc \in {12, 13} => s = "fail2ban"
        /\ pc = 2          => s = "sampler"
        /\ pc \in {8, 9}   => s = "gophernicus"
        /\ pc \in {10, 11} => s = "molly-brown"
    BY <1>5, Where DEF Skip, Inv, Typed
  <2>2. \A f \in changed : f \notin FilesOf[s]
    BY <1>5 DEF Skip, Changed
  <2> QED
    BY <1>5, <2>1, <2>2, ReadOnward DEF Skip
<1>6. ASSUME NEW s \in Service, NEW step, Reread(step, s) PROVE Goal
  <2>1. /\ pc \in {2, 6, 8, 10, 13} /\ undo = "none"
        /\ pc = 2  => s = "sampler"
        /\ pc = 6  => s = "nginx"
        /\ pc = 8  => s = "gophernicus"
        /\ pc = 10 => s = "molly-brown"
        /\ pc = 13 => s = "fail2ban"
    BY <1>6, Where DEF Reread, Inv, Typed
  <2>2. \A f \in changed : running'[f] = IF f \in FilesOf[s] THEN installed[f] ELSE running[f]
    BY <1>6 DEF Reread, Replace, Inv, Typed
  <2> QED
    BY <1>6, <2>1, <2>2, ReadOnward DEF Reread
<1>7. ASSUME NEW s, NEW step, Verify(step, s) PROVE Goal
  <2>1. pc \in {5, 9, 11, 12} /\ undo = "none"
    BY <1>7, Where DEF Verify, Inv, Typed
  <2>2. CASE Verdict(step, s)
    BY <1>7, <2>1, <2>2, ReadOnward DEF Verify, run
  <2>3. CASE ~ Verdict(step, s)
    BY <1>7, <2>1, <2>3 DEF Verify, run, PastIsReread, Past, InstalledIsReread, Ended
  <2> QED
    BY <2>2, <2>3
<1>8. ASSUME NEW s \in Service, Restore(s) PROVE Goal
  BY <1>8 DEF Restore, Inv, Placed, PastIsReread, InstalledIsReread, Ended
<1>9. ASSUME NEW s \in Service, Recover(s) PROVE Goal
  BY <1>9, ReadOver DEF Recover, End
<1>10. ASSUME NEW f \in File, Edit(f) PROVE Goal
  BY <1>10 DEF Edit, run, PastIsReread, Past, InstalledIsReread, Ended
<1>11. CASE Interrupt
  BY <1>11, ReadOver DEF Interrupt, End
<1>12. CASE Reboot
  BY <1>12 DEF Reboot, End, PastIsReread, Past, InstalledIsReread, Ended
<1>13. CASE UNCHANGED vars
  BY <1>13 DEF vars, PastIsReread, Past, InstalledIsReread, Ended
<1>14. CASE Step
  BY <1>14, <1>2, <1>3, <1>4, <1>5, <1>6, <1>7, <1>8, <1>9 DEF Step
<1> QED
  BY <1>1, <1>10, <1>11, <1>12, <1>13, <1>14 DEF Next

\* After a promote that succeeded, every service runs every file it installed
\* (promoteSite.sh, "each service is restarted, PROBED over its own protocol").
THEOREM InstalledFilesAreRead == Spec => []InstalledIsReread
<1>1. Init => ReadInv
  <2>1. Init => Remaining /\ PastIsReread /\ InstalledIsReread
    BY DEF Init, Remaining, Outcomes, PastIsReread, InstalledIsReread
  <2> QED
    BY <2>1, InitInv DEF ReadInv
<1>2. ReadInv /\ [Next]_vars => ReadInv'
  BY NextInv, RemainingStep, ReadStep DEF ReadInv
<1>3. ReadInv => InstalledIsReread
  BY DEF ReadInv
<1> QED
  BY <1>1, <1>2, <1>3, PTL DEF Spec

-------------------------------------------------------------------------------
(***************************************************************************)
(* What the chain of steps of the commit hook keeps, for any number of      *)
(* edits, dates and failures.                                               *)
(***************************************************************************)

\* The trees of git, and what has been counted.
TreesTyped ==
    /\ work \in Tree /\ index \in Tree /\ head \in Tree /\ asked \in Tree
    /\ unasked \subseteq SiteFile
    /\ figures \in [Figure -> Nat] /\ changes \in Nat /\ aborts \in Nat
    /\ place \in {"idle", "render", "date", "ntp", "feeds", "fonts", "badges", "commit"}

\* A tree whose files show only what they may.
Shown(w) == \A f \in SiteFile, s \in Source : s \notin Shows[f] => w[f][s] = 0

ShowsWhatItMay == Shown(work)

\* The index is the one the author made, and so is the working tree.
AsBegun == index = asked /\ unasked = {f \in SiteFile : Dirty(f)}

\* The chain begins with the index the author made.  If the first step does
\* nothing, so does the second, and otherwise the source has no edits.
BeginsAsAsked ==
    /\ place = "render" => AsBegun
    /\ place = "date" => AsBegun \/ work["tri"] = index["tri"]

\* A source may differ from what was asked only where a step sweeps it.
MaySweep(f) ==
    /\ f \in unasked
    /\ \/ f = "hand" /\ unasked \cap {"tri", "post"} = {}
       \/ f = "tri" /\ Dated /\ "page" \notin unasked /\ asked["page"] # head["page"]

SourcesAsAsked == place # "idle" => \A f \in Authored : index[f][f] # asked[f][f] => MaySweep(f)

\* The feed is the author's until it is made of the page that is staged.
FeedFollows ==
    /\ work["feed"] = index["feed"]
    /\ place \in {"date", "ntp", "feeds"} => index["feed"] = asked["feed"]
    /\ place \in {"fonts", "badges", "commit"} =>
           index["feed"] = asked["feed"] \/ \A s \in {"tri", "post"} : index["feed"][s] = index["page"][s]

PageFollows ==
    place \in {"date", "ntp", "feeds", "fonts", "badges", "commit"} =>
        \A s \in {"tri", "post"} :
            Tracked(s) /\ index["page"][s] # asked["page"][s] => index["page"][s] = index[s][s]

ChainInv == TreesTyped /\ ShowsWhatItMay /\ BeginsAsAsked /\ SourcesAsAsked /\ FeedFollows /\ PageFollows

LEMMA SomeFiles ==
    /\ Blank \in Content
    /\ \A f \in Authored : f \in Source /\ f \in Shows[f] /\ f \in SiteFile
    /\ Figure \subseteq Source
BY DEF Blank, Content, Authored, Source, Shows, SiteFile, Figure, Generated

LEMMA ChainInit == HookInit => ChainInv
<1> SUFFICES ASSUME HookInit PROVE ChainInv
  OBVIOUS
<1>1. /\ work = [f \in SiteFile |-> Blank] /\ index = work /\ head = work /\ asked = work /\ unasked = {}
      /\ figures = [s \in Figure |-> 0] /\ place = "idle" /\ changes = 0 /\ aborts = 0
  BY DEF HookInit
<1>2. work \in Tree
  BY <1>1, SomeFiles DEF Tree
<1>3. TreesTyped
  BY <1>1, <1>2 DEF TreesTyped
<1>4. ShowsWhatItMay
  BY <1>1 DEF ShowsWhatItMay, Shown, Blank
<1> QED
  BY <1>1, <1>3, <1>4 DEF ChainInv, BeginsAsAsked, SourcesAsAsked, FeedFollows, PageFollows

\* The trees after a step that changes files of the index and the working tree.
LEMMA TreesStay ==
    ASSUME ChainInv, work' \in Tree, index' \in Tree, UNCHANGED <<head, asked, unasked, figures, changes, aborts>>,
           place' \in {"idle", "date", "ntp", "feeds", "fonts", "badges", "commit"},
           place' = "date" => AsBegun' \/ work'["tri"] = index'["tri"],
           ShowsWhatItMay', SourcesAsAsked', FeedFollows', PageFollows'
    PROVE  ChainInv'
BY DEF ChainInv, TreesTyped, BeginsAsAsked

\* What `git add` puts into the index.
LEMMA AddedIs ==
    ASSUME index \in Tree, NEW w \in Tree, NEW fs, index' = Added(fs, w)
    PROVE  /\ index' \in Tree
           /\ \A f \in SiteFile : index'[f] = IF f \in fs THEN w[f] ELSE index[f]
BY DEF Added, Tree

LEMMA Names ==
    /\ Authored = {"tri", "post", "hand", "home", "csv"}
    /\ SiteFile = {"tri", "post", "hand", "home", "csv", "page", "feed", "font"}
    /\ Source = {"tri", "post", "hand", "home", "csv", "day", "ntp"}
    /\ Pages = {"page", "hand"} /\ Swept = {"page", "hand", "feed", "font"}
    /\ Shows["page"] = {"tri", "post", "csv", "day"}
    /\ Shows["tri"] = {"tri", "day"}
    /\ Shows["feed"] = {"tri", "post"}
    /\ Shows["font"] = {"tri", "post", "hand"}
    /\ Shows["hand"] = {"hand", "csv"}
    /\ Shows["home"] = {"home", "day", "ntp"}
BY DEF Authored, SiteFile, Source, Pages, Swept, Shows, Generated, Figure

\* A file of the working tree that is written anew.
LEMMA WrittenIn ==
    \A w \in Tree, f \in SiteFile, c \in Content :
        /\ Shown(w)
        /\ \A s \in Source : s \notin Shows[f] => c[s] = 0
        => /\ [w EXCEPT ![f] = c] \in Tree /\ Shown([w EXCEPT ![f] = c])
           /\ [w EXCEPT ![f] = c][f] = c
           /\ \A g \in SiteFile \ {f} : [w EXCEPT ![f] = c][g] = w[g]
BY DEF Tree, Shown

LEMMA WrittenIs ==
    ASSUME work \in Tree, ShowsWhatItMay, NEW f \in SiteFile, NEW c \in Content,
           \A s \in Source : s \notin Shows[f] => c[s] = 0,
           work' = [work EXCEPT ![f] = c]
    PROVE  /\ work' \in Tree /\ ShowsWhatItMay'
           /\ work'[f] = c /\ \A g \in SiteFile \ {f} : work'[g] = work[g]
BY DEF Tree, ShowsWhatItMay, Shown

\* The page as triptych.pl makes it.
LEMMA RepagedIs ==
    ASSUME NEW w \in Tree, Shown(w)
    PROVE  /\ Repaged(w) \in Tree /\ Shown(Repaged(w))
           /\ \A g \in SiteFile \ {"page"} : Repaged(w)[g] = w[g]
           /\ \A s \in {"tri", "post"} : Repaged(w)["page"][s] = w[s][s]
<1> DEFINE c == [w["page"] EXCEPT !["tri"] = w["tri"]["tri"], !["day"] = w["tri"]["day"],
                                !["post"] = w["post"]["post"]]
<1>1. w["page"] \in Content /\ w["tri"] \in Content /\ w["post"] \in Content
  BY Names DEF Tree
<1>2. /\ c \in Content /\ c["tri"] = w["tri"]["tri"] /\ c["post"] = w["post"]["post"]
      /\ \A s \in Source \ {"tri", "post", "day"} : c[s] = w["page"][s]
  BY <1>1, Names DEF Content
<1>3. \A s \in Source : s \notin Shows["page"] => c[s] = 0
  BY <1>2, Names DEF Shown
<1>4. "page" \in SiteFile /\ Repaged(w) = [w EXCEPT !["page"] = c]
  BY Names DEF Repaged
<1> HIDE DEF c
<1>5. PICK v : v = [w EXCEPT !["page"] = c]
  OBVIOUS
<1>6. v \in Tree /\ Shown(v) /\ v["page"] = c /\ \A g \in SiteFile \ {"page"} : v[g] = w[g]
  <2>1. c \in Content /\ "page" \in SiteFile
    BY <1>2, <1>4
  <2>2. v \in Tree
    BY <2>1, <1>3, <1>5, WrittenIn
  <2>3. Shown(v)
    BY <2>1, <1>3, <1>5, WrittenIn
  <2>4. v["page"] = c
    BY <2>1, <1>3, <1>5, WrittenIn
  <2>5. \A g \in SiteFile \ {"page"} : v[g] = w[g]
    BY <2>1, <1>3, <1>5, WrittenIn
  <2> QED
    BY <2>2, <2>3, <2>4, <2>5
<1>7. Repaged(w) = v
  BY <1>4, <1>5
<1> QED
  BY <1>2, <1>6, <1>7, Names

LEMMA RenderedIs ==
    ASSUME work \in Tree, ShowsWhatItMay, work' = Repaged(work)
    PROVE  /\ work' \in Tree /\ ShowsWhatItMay'
           /\ \A g \in SiteFile \ {"page"} : work'[g] = work[g]
           /\ \A s \in {"tri", "post"} : work'["page"][s] = work[s][s]
<1>1. PICK w \in Tree : w = work
  OBVIOUS
<1>2. work' = Repaged(w) /\ Shown(w)
  BY <1>1 DEF ShowsWhatItMay, Shown
<1>3. Shown(Repaged(w)) => Shown(work)'
  BY <1>2 DEF Shown
<1> QED
  BY <1>1, <1>2, <1>3, RepagedIs DEF ShowsWhatItMay, Shown

\* A date is all that the datestamp changes in the source and the home page.
LEMMA RedatedIs ==
    ASSUME NEW w \in Tree, Shown(w), figures \in [Figure -> Nat]
    PROVE  /\ Redated(w) \in Tree /\ Shown(Redated(w))
           /\ \A g \in SiteFile \ {"tri"} : Redated(w)[g] = w[g]
           /\ Redated(w)["tri"]["tri"] = w["tri"]["tri"]
<1> DEFINE c == [w["tri"] EXCEPT !["day"] = figures["day"]]
<1>1. w["tri"] \in Content /\ figures["day"] \in Nat
  BY Names DEF Tree, Figure
<1>2. c \in Content /\ \A s \in Source \ {"day"} : c[s] = w["tri"][s]
  BY <1>1, Names DEF Content
<1>3. \A s \in Source : s \notin Shows["tri"] => c[s] = 0
  BY <1>2, Names DEF Shown
<1>4. "tri" \in SiteFile /\ Redated(w) = [w EXCEPT !["tri"] = c]
  BY Names DEF Redated
<1>5. c["tri"] = w["tri"]["tri"]
  BY <1>2, Names
<1> HIDE DEF c
<1>6. PICK v : v = [w EXCEPT !["tri"] = c]
  OBVIOUS
<1>7. v \in Tree /\ Shown(v) /\ v["tri"] = c /\ \A g \in SiteFile \ {"tri"} : v[g] = w[g]
  <2>1. c \in Content /\ "tri" \in SiteFile
    BY <1>2, <1>4
  <2>2. v \in Tree
    BY <2>1, <1>3, <1>6, WrittenIn
  <2>3. Shown(v)
    BY <2>1, <1>3, <1>6, WrittenIn
  <2>4. v["tri"] = c
    BY <2>1, <1>3, <1>6, WrittenIn
  <2>5. \A g \in SiteFile \ {"tri"} : v[g] = w[g]
    BY <2>1, <1>3, <1>6, WrittenIn
  <2> QED
    BY <2>2, <2>3, <2>4, <2>5
<1>8. Redated(w) = v
  BY <1>4, <1>6
<1> QED
  BY <1>5, <1>7, <1>8

LEMMA StampedIs ==
    ASSUME NEW w \in Tree, Shown(w), figures \in [Figure -> Nat], NEW s \in Figure
    PROVE  /\ Stamped(w, s) \in Tree /\ Shown(Stamped(w, s))
           /\ \A g \in SiteFile \ {"home"} : Stamped(w, s)[g] = w[g]
           /\ Stamped(w, s)["home"]["home"] = w["home"]["home"]
<1> DEFINE c == [w["home"] EXCEPT ![s] = figures[s]]
<1>1. w["home"] \in Content /\ figures[s] \in Nat /\ s \in {"day", "ntp"} /\ s \in Source
  BY Names DEF Tree, Figure
<1>2. c \in Content /\ \A t \in Source \ {s} : c[t] = w["home"][t]
  BY <1>1, Names DEF Content
<1>3. \A t \in Source : t \notin Shows["home"] => c[t] = 0
  BY <1>1, <1>2, Names DEF Shown
<1>4. "home" \in SiteFile /\ Stamped(w, s) = [w EXCEPT !["home"] = c]
  BY Names DEF Stamped
<1>5. c["home"] = w["home"]["home"]
  BY <1>1, <1>2, Names
<1> HIDE DEF c
<1>6. PICK v : v = [w EXCEPT !["home"] = c]
  OBVIOUS
<1>7. v \in Tree /\ Shown(v) /\ v["home"] = c /\ \A g \in SiteFile \ {"home"} : v[g] = w[g]
  <2>1. c \in Content /\ "home" \in SiteFile
    BY <1>2, <1>4
  <2>2. v \in Tree
    BY <2>1, <1>3, <1>6, WrittenIn
  <2>3. Shown(v)
    BY <2>1, <1>3, <1>6, WrittenIn
  <2>4. v["home"] = c
    BY <2>1, <1>3, <1>6, WrittenIn
  <2>5. \A g \in SiteFile \ {"home"} : v[g] = w[g]
    BY <2>1, <1>3, <1>6, WrittenIn
  <2> QED
    BY <2>2, <2>3, <2>4, <2>5
<1>8. Stamped(w, s) = v
  BY <1>4, <1>6
<1> QED
  BY <1>5, <1>7, <1>8

LEMMA RenderKeeps == ASSUME ChainInv, Render PROVE ChainInv'
<1>1. /\ ~ SourcesDirty /\ place = "render" /\ place' = "date"
      /\ UNCHANGED <<head, asked, unasked, figures, changes, aborts>>
      /\ work' = Repaged(work)
      /\ index' = Added({f \in Swept : work'[f] # index[f]}, work')
  BY DEF Render, At
<1>2. /\ work' \in Tree /\ ShowsWhatItMay' /\ work \in Tree /\ index \in Tree
      /\ \A g \in SiteFile \ {"page"} : work'[g] = work[g]
      /\ \A s \in {"tri", "post"} : work'["page"][s] = work[s][s]
  BY <1>1, RenderedIs DEF ChainInv, TreesTyped
<1>3. /\ index' \in Tree
      /\ \A f \in SiteFile : index'[f] = IF f \in Swept THEN work'[f] ELSE index[f]
  <2>1. PICK w \in Tree : w = work'
    BY <1>2
  <2>2. PICK fs \in SUBSET SiteFile : fs = {f \in Swept : work'[f] # index[f]}
    BY Names
  <2>3. index' = Added(fs, w)
    BY <1>1, <2>1, <2>2
  <2> QED
    BY <1>2, <2>1, <2>2, <2>3, AddedIs
<1>4. index = asked /\ unasked = {f \in SiteFile : Dirty(f)}
  BY <1>1 DEF ChainInv, BeginsAsAsked, AsBegun
<1>5. SourcesAsAsked'
  <2> SUFFICES ASSUME NEW f \in Authored, index'[f][f] # asked'[f][f] PROVE MaySweep(f)'
    BY DEF SourcesAsAsked
  <2>1. f = "hand" /\ work["hand"] # index["hand"]
    BY <1>1, <1>2, <1>3, <1>4, Names
  <2>2. "hand" \in unasked /\ unasked \cap {"tri", "post"} = {}
    BY <1>1, <1>4, <2>1, Names DEF Dirty, Tracked, SourcesDirty
  <2> QED
    BY <1>1, <2>1, <2>2 DEF MaySweep
<1>7. FeedFollows'
  BY <1>1, <1>2, <1>3, <1>4, Names DEF FeedFollows, ChainInv
<1>8. work'["tri"] = index'["tri"]
  BY <1>1, <1>2, <1>3, Names DEF SourcesDirty, Dirty, Tracked
<1>6. PageFollows'
  <2>1. ASSUME NEW s \in {"tri", "post"}, Tracked(s)' PROVE index'["page"][s] = index'[s][s]
    <3>1. index'["post"] = index["post"] /\ index'[s] = index[s]
      BY <1>3, Names
    <3>2. Tracked(s)
      BY <2>1, <3>1 DEF Tracked
    <3>3. work[s] = index[s]
      BY <1>1, <3>2 DEF SourcesDirty, Dirty
    <3> QED
      BY <1>2, <1>3, <3>1, <3>3, Names
  <2> QED
    BY <2>1 DEF PageFollows
<1> QED
  BY <1>1, <1>2, <1>3, <1>5, <1>6, <1>7, <1>8, TreesStay

\* A step that leaves the page, the sources and the feed of the index alone.
LEMMA PageStays ==
    ASSUME ChainInv, place \in {"date", "ntp", "feeds", "fonts", "badges"},
           \A f \in Authored : index'[f][f] = index[f][f],
           index'["post"] = index["post"], UNCHANGED <<asked, unasked, head>>,
           \A s \in {"tri", "post"} : index'["page"][s] = index["page"][s] /\ index'[s][s] = index[s][s]
    PROVE  SourcesAsAsked' /\ PageFollows'
<1>1. \A f \in Authored : MaySweep(f) => MaySweep(f)'
  BY DEF MaySweep
<1> QED
  BY <1>1 DEF ChainInv, SourcesAsAsked, PageFollows, Tracked

\* What the datestamp does to the working tree: the page and its source change
\* only if the page is due, the home page only if it can be stamped.
LEMMA DatestampWork ==
    ASSUME ChainInv, Datestamp
    PROVE  /\ work' \in Tree /\ ShowsWhatItMay'
           /\ \A g \in SiteFile \ {"page", "tri", "home"} : work'[g] = work[g]
           /\ work'["tri"]["tri"] = work["tri"]["tri"]
           /\ work'["home"]["home"] = work["home"]["home"]
           /\ ~ PageDue => work'["tri"] = work["tri"]
<1>1. PICK w \in Tree : w = work
  BY DEF ChainInv, TreesTyped
<1>2. Shown(w) /\ figures \in [Figure -> Nat] /\ "day" \in Figure
  BY <1>1 DEF ChainInv, TreesTyped, ShowsWhatItMay, Shown, Figure
<1>3. PICK p : /\ p = IF PageDue THEN Repaged(Redated(w)) ELSE w
               /\ work' = IF Stampable THEN Stamped(p, "day") ELSE p
  BY <1>1 DEF Datestamp
<1>4. /\ p \in Tree /\ Shown(p)
      /\ \A g \in SiteFile \ {"page", "tri"} : p[g] = w[g]
      /\ p["tri"]["tri"] = w["tri"]["tri"]
      /\ ~ PageDue => p = w
  <2>1. CASE ~ PageDue
    BY <1>2, <1>3, <2>1
  <2>2. CASE PageDue
    <3>1. /\ Redated(w) \in Tree /\ Shown(Redated(w))
          /\ \A g \in SiteFile \ {"tri"} : Redated(w)[g] = w[g]
          /\ Redated(w)["tri"]["tri"] = w["tri"]["tri"]
      BY <1>2, RedatedIs
    <3>2. PICK d \in Tree : d = Redated(w)
      BY <3>1
    <3>3. /\ Repaged(d) \in Tree /\ Shown(Repaged(d))
          /\ \A g \in SiteFile \ {"page"} : Repaged(d)[g] = d[g]
      BY <3>1, <3>2, RepagedIs
    <3> QED
      BY <1>3, <2>2, <3>1, <3>2, <3>3, Names
  <2> QED
    BY <2>1, <2>2
<1>5. CASE ~ Stampable
  BY <1>1, <1>3, <1>4, <1>5, Names DEF ShowsWhatItMay, Shown
<1>6. CASE Stampable
  <2>1. /\ Stamped(p, "day") \in Tree /\ Shown(Stamped(p, "day"))
        /\ \A g \in SiteFile \ {"home"} : Stamped(p, "day")[g] = p[g]
        /\ Stamped(p, "day")["home"]["home"] = p["home"]["home"]
    BY <1>2, <1>4, StampedIs
  <2>2. work' = Stamped(p, "day")
    BY <1>3, <1>6
  <2>3. work' \in Tree /\ ShowsWhatItMay'
    BY <2>1, <2>2 DEF ShowsWhatItMay, Shown
  <2>4. \A g \in SiteFile \ {"home"} : work'[g] = p[g]
    BY <2>1, <2>2
  <2>5. work'["home"]["home"] = work["home"]["home"]
    BY <1>1, <1>4, <2>1, <2>2, Names
  <2> QED
    BY <1>1, <1>4, <2>3, <2>4, <2>5, Names
<1> QED
  BY <1>5, <1>6

LEMMA DatestampKeeps == ASSUME ChainInv, Datestamp PROVE ChainInv'
<1>1. place = "date" /\ place' = "ntp" /\ UNCHANGED <<head, asked, unasked, figures, changes, aborts>>
  BY DEF Datestamp, At
<1>2. work \in Tree /\ index \in Tree /\ (AsBegun \/ work["tri"] = index["tri"])
  BY <1>1 DEF ChainInv, TreesTyped, BeginsAsAsked
<1>3. /\ index' \in Tree
      /\ index'["tri"] = IF PageDue THEN work'["tri"] ELSE index["tri"]
      /\ index'["home"] = IF Stampable THEN work'["home"] ELSE index["home"]
      /\ \A f \in SiteFile \ {"tri", "home"} : index'[f] = index[f]
  <2>1. PICK w \in Tree : w = work'
    BY DatestampWork
  <2>2. PICK fs \in SUBSET SiteFile : fs = {f \in {"tri", "home"} : IF f = "tri" THEN PageDue ELSE Stampable}
    BY Names
  <2>3. index' = Added(fs, w)
    BY <2>1, <2>2 DEF Datestamp
  <2>4. index' \in Tree /\ \A f \in SiteFile : index'[f] = IF f \in fs THEN w[f] ELSE index[f]
    BY <1>2, <2>3, AddedIs
  <2> QED
    BY <2>1, <2>2, <2>4, Names
<1>4. ASSUME index'["tri"]["tri"] # index["tri"]["tri"]
      PROVE  AsBegun /\ MaySweep("tri")
  <2>1. PageDue /\ work["tri"]["tri"] # index["tri"]["tri"]
    BY <1>3, <1>4, DatestampWork
  <2>2. AsBegun
    BY <1>2, <2>1
  <2>3. "tri" \in unasked /\ "page" \notin unasked
    BY <2>1, <2>2, Names DEF AsBegun, PageDue, Dirty, Tracked
  <2> QED
    BY <2>1, <2>2, <2>3 DEF MaySweep, AsBegun, PageDue
<1>5. index'["home"]["home"] = index["home"]["home"]
  BY <1>3, DatestampWork, Names DEF Stampable, Dirty, Tracked
<1>6. SourcesAsAsked'
  <2> SUFFICES ASSUME NEW f \in Authored, index'[f][f] # asked'[f][f] PROVE MaySweep(f)'
    BY DEF SourcesAsAsked
  <2>1. MaySweep(f) => MaySweep(f)'
    BY <1>1 DEF MaySweep
  <2>2. CASE index'[f][f] = index[f][f]
    BY <1>1, <2>1, <2>2 DEF ChainInv, SourcesAsAsked
  <2>3. CASE index'[f][f] # index[f][f]
    <3>1. f = "tri"
      BY <1>3, <1>5, <2>3, Names
    <3> QED
      BY <1>4, <2>1, <2>3, <3>1
  <2> QED
    BY <2>2, <2>3
<1>7. FeedFollows'
  BY <1>1, <1>3, DatestampWork, Names DEF ChainInv, FeedFollows
<1>8. PageFollows'
  <2> SUFFICES ASSUME NEW s \in {"tri", "post"}, Tracked(s)', index'["page"][s] # asked'["page"][s]
               PROVE  index'["page"][s] = index'[s][s]
    BY DEF PageFollows
  <2>1. /\ index'["page"] = index["page"] /\ index'["post"] = index["post"]
        /\ index["page"][s] # asked["page"][s] /\ Tracked(s)
    BY <1>1, <1>3, Names DEF Tracked
  <2>2. index["page"][s] = index[s][s]
    BY <1>1, <2>1 DEF ChainInv, PageFollows
  <2>3. ~ AsBegun
    BY <2>1 DEF AsBegun
  <2> QED
    BY <1>3, <1>4, <2>1, <2>2, <2>3
<1> QED
  BY <1>1, <1>3, <1>6, <1>7, <1>8, DatestampWork, TreesStay

LEMMA NtpStatKeeps == ASSUME ChainInv, NtpStat PROVE ChainInv'
<1>1. place = "ntp" /\ place' = "feeds" /\ UNCHANGED <<head, asked, unasked, figures, changes, aborts>>
  BY DEF NtpStat, At
<1>2. work \in Tree /\ index \in Tree /\ figures \in [Figure -> Nat] /\ ShowsWhatItMay
  BY DEF ChainInv, TreesTyped
<1>3. CASE UNCHANGED <<work, index>>
  <2>1. \A f \in Authored : MaySweep(f) => MaySweep(f)'
    BY <1>1 DEF MaySweep
  <2>2. ShowsWhatItMay' /\ FeedFollows' /\ SourcesAsAsked' /\ PageFollows'
    BY <1>1, <1>3, <2>1 DEF ChainInv, ShowsWhatItMay, Shown, FeedFollows, SourcesAsAsked, PageFollows, Tracked
  <2> QED
    BY <1>1, <1>2, <1>3, <2>2, TreesStay
<1>4. CASE Stampable /\ work' = Stamped(work, "ntp") /\ index' = Added({"home"}, work')
  <2>1. PICK w \in Tree : w = work
    BY <1>2
  <2>2. /\ Stamped(w, "ntp") \in Tree /\ Shown(Stamped(w, "ntp"))
        /\ \A g \in SiteFile \ {"home"} : Stamped(w, "ntp")[g] = w[g]
        /\ Stamped(w, "ntp")["home"]["home"] = w["home"]["home"]
    BY <1>2, <2>1, StampedIs DEF ShowsWhatItMay, Shown, Figure
  <2>3. /\ work' \in Tree /\ ShowsWhatItMay'
        /\ \A g \in SiteFile \ {"home"} : work'[g] = work[g]
        /\ work'["home"]["home"] = work["home"]["home"]
    BY <1>4, <2>1, <2>2 DEF ShowsWhatItMay, Shown
  <2>4. index' \in Tree /\ \A f \in SiteFile : index'[f] = IF f = "home" THEN work'["home"] ELSE index[f]
    <3>1. PICK v \in Tree : v = work'
      BY <2>3
    <3>2. index' = Added({"home"}, v)
      BY <1>4, <3>1
    <3> QED
      BY <1>2, <3>1, <3>2, AddedIs, Names
  <2>5. index'["home"]["home"] = index["home"]["home"]
    BY <1>4, <2>3, <2>4, Names DEF Stampable, Dirty, Tracked
  <2>6. SourcesAsAsked' /\ PageFollows'
    <3>1. \A f \in Authored : index'[f][f] = index[f][f]
      BY <2>4, <2>5, Names
    <3>2. index'["post"] = index["post"] /\ index'["page"] = index["page"] /\ index'["tri"] = index["tri"]
      BY <2>4, Names
    <3> QED
      BY <1>1, <3>1, <3>2, PageStays
  <2>7. FeedFollows'
    BY <1>1, <2>3, <2>4, Names DEF ChainInv, FeedFollows
  <2> QED
    BY <1>1, <2>3, <2>4, <2>6, <2>7, TreesStay
<1> QED
  BY <1>3, <1>4 DEF NtpStat

LEMMA FeedsKeeps == ASSUME ChainInv, Feeds PROVE ChainInv'
<1>1. place = "feeds" /\ place' = "fonts" /\ UNCHANGED <<head, asked, unasked, figures, changes, aborts>>
  BY DEF Feeds, At
<1>2. work \in Tree /\ index \in Tree /\ ShowsWhatItMay
  BY DEF ChainInv, TreesTyped
<1>3. CASE PagesDirty
  <2>1. UNCHANGED <<work, index>>
    BY <1>3 DEF Feeds
  <2>2. ShowsWhatItMay' /\ SourcesAsAsked' /\ PageFollows'
    BY <1>1, <2>1, PageStays DEF ChainInv, ShowsWhatItMay, Shown
  <2>3. FeedFollows'
    BY <1>1, <1>3, <2>1 DEF ChainInv, FeedFollows
  <2> QED
    BY <1>1, <1>2, <2>1, <2>2, <2>3, TreesStay
<1>4. CASE ~ PagesDirty
  <2> DEFINE c == [work["page"] EXCEPT !["csv"] = 0, !["day"] = 0]
  <2>1. work' = [work EXCEPT !["feed"] = c] /\ index' = Added({"feed"}, work') /\ "feed" \in SiteFile
    BY <1>4, Names DEF Feeds
  <2>2. c \in Content /\ c["csv"] = 0 /\ c["day"] = 0 /\ \A s \in Source \ {"csv", "day"} : c[s] = work["page"][s]
    BY <1>2, Names DEF Tree, Content
  <2>3. \A s \in Source : s \notin Shows["feed"] => c[s] = 0
    BY <1>2, <2>2, Names DEF ShowsWhatItMay, Shown
  <2> HIDE DEF c
  <2>4. /\ work' \in Tree /\ ShowsWhatItMay'
        /\ work'["feed"] = c /\ \A g \in SiteFile \ {"feed"} : work'[g] = work[g]
    BY <1>2, <2>1, <2>2, <2>3, WrittenIs
  <2>5. index' \in Tree /\ \A f \in SiteFile : index'[f] = IF f = "feed" THEN c ELSE index[f]
    <3>1. PICK w \in Tree : w = work'
      BY <2>4
    <3>2. index' = Added({"feed"}, w)
      BY <2>1, <3>1
    <3> QED
      BY <1>2, <2>4, <3>1, <3>2, AddedIs, Names
  <2>6. SourcesAsAsked' /\ PageFollows'
    <3>1. \A f \in Authored : index'[f][f] = index[f][f]
      BY <2>5, Names
    <3>2. index'["post"] = index["post"] /\ index'["page"] = index["page"] /\ index'["tri"] = index["tri"]
      BY <2>5, Names
    <3> QED
      BY <1>1, <3>1, <3>2, PageStays
  <2>7. FeedFollows'
    <3>1. work["page"] = index["page"]
      BY <1>4, Names DEF PagesDirty, Dirty, Tracked
    <3>2. \A s \in {"tri", "post"} : index'["feed"][s] = index'["page"][s]
      BY <2>2, <2>5, <3>1, Names
    <3>3. work'["feed"] = index'["feed"]
      BY <2>4, <2>5, Names
    <3> QED
      BY <1>1, <3>2, <3>3 DEF FeedFollows
  <2> QED
    BY <1>1, <2>4, <2>5, <2>6, <2>7, TreesStay
<1> QED
  BY <1>3, <1>4

LEMMA FontsKeeps == ASSUME ChainInv, Fonts PROVE ChainInv'
<1>1. place = "fonts" /\ place' = "badges" /\ UNCHANGED <<head, asked, unasked, figures, changes, aborts>>
  BY DEF Fonts, At
<1>2. work \in Tree /\ index \in Tree /\ ShowsWhatItMay
  BY DEF ChainInv, TreesTyped
<1> DEFINE c == [Blank EXCEPT !["tri"]  = work["page"]["tri"],
                                 !["post"] = work["page"]["post"],
                                 !["hand"] = work["hand"]["hand"]]
<1>3. work' = [work EXCEPT !["font"] = c] /\ index' = Added({"font"}, work') /\ "font" \in SiteFile
  BY Names DEF Fonts
<1>4. c \in Content /\ \A s \in Source \ {"tri", "post", "hand"} : c[s] = 0
  <2>1. /\ work["page"] \in Content /\ work["hand"] \in Content
    BY <1>2, Names DEF Tree
  <2> QED
    BY <2>1, Names DEF Content, Blank
<1> HIDE DEF c
<1>5. /\ work' \in Tree /\ ShowsWhatItMay'
      /\ work'["font"] = c /\ \A g \in SiteFile \ {"font"} : work'[g] = work[g]
  <2>1. \A s \in Source : s \notin Shows["font"] => c[s] = 0
    BY <1>4, Names
  <2> QED
    BY <1>2, <1>3, <1>4, <2>1, WrittenIs
<1>6. index' \in Tree /\ \A f \in SiteFile : index'[f] = IF f = "font" THEN c ELSE index[f]
  <2>1. PICK w \in Tree : w = work'
    BY <1>5
  <2>2. index' = Added({"font"}, w)
    BY <1>3, <2>1
  <2> QED
    BY <1>2, <1>5, <2>1, <2>2, AddedIs, Names
<1>7. SourcesAsAsked' /\ PageFollows'
  <2>1. \A f \in Authored : index'[f][f] = index[f][f]
    BY <1>6, Names
  <2>2. index'["post"] = index["post"] /\ index'["page"] = index["page"] /\ index'["tri"] = index["tri"]
    BY <1>6, Names
  <2> QED
    BY <1>1, <2>1, <2>2, PageStays
<1>8. FeedFollows'
  <2>1. index'["feed"] = index["feed"] /\ index'["page"] = index["page"] /\ work'["feed"] = work["feed"]
    BY <1>5, <1>6, Names
  <2> QED
    BY <1>1, <2>1 DEF ChainInv, FeedFollows
<1> QED
  BY <1>1, <1>5, <1>6, <1>7, <1>8, TreesStay

LEMMA BadgesKeeps == ASSUME ChainInv, Badges PROVE ChainInv'
<1>1. place = "badges" /\ place' = "commit" /\ UNCHANGED <<head, asked, unasked, figures, changes, aborts>>
  BY DEF Badges, At
<1>2. work \in Tree /\ index \in Tree /\ ShowsWhatItMay
  BY DEF ChainInv, TreesTyped
<1>3. /\ work' = [f \in SiteFile |-> IF f \in Pages THEN [work[f] EXCEPT !["csv"] = work["csv"]["csv"]] ELSE work[f]]
      /\ index' = Added({f \in Pages : ~ Dirty(f)}, work')
  BY DEF Badges
<1>4. \A f \in SiteFile : work[f] \in Content
  BY <1>2 DEF Tree
<1>5. /\ work' \in Tree
      /\ \A f \in SiteFile \ Pages : work'[f] = work[f]
      /\ \A f \in Pages : \A s \in Source \ {"csv"} : work'[f][s] = work[f][s]
  BY <1>3, <1>4, Names DEF Tree, Content
<1>6. ShowsWhatItMay'
  <2>1. \A f \in Pages : "csv" \in Shows[f]
    BY Names
  <2> QED
    BY <1>2, <1>5, <2>1 DEF ShowsWhatItMay, Shown
<1>7. /\ index' \in Tree
      /\ \A f \in SiteFile : index'[f] = IF f \in Pages /\ ~ Dirty(f) THEN work'[f] ELSE index[f]
  <2>1. PICK w \in Tree : w = work'
    BY <1>5
  <2>2. PICK fs \in SUBSET SiteFile : fs = {f \in Pages : ~ Dirty(f)}
    BY Names
  <2>3. index' = Added(fs, w)
    BY <1>3, <2>1, <2>2
  <2> QED
    BY <1>2, <2>1, <2>2, <2>3, AddedIs
<1>8. \A s \in {"tri", "post"} : index'["page"][s] = index["page"][s]
  <2>1. CASE Dirty("page")
    BY <1>7, <2>1, Names
  <2>2. CASE ~ Dirty("page")
    <3>1. work["page"] = index["page"]
      BY <2>2 DEF Dirty, Tracked
    <3> QED
      BY <1>5, <1>7, <2>2, <3>1, Names
  <2> QED
    BY <2>1, <2>2
<1>9. \A f \in SiteFile \ Pages : index'[f] = index[f]
  BY <1>7
<1>10. SourcesAsAsked' /\ PageFollows'
  <2>1. \A f \in Authored : index'[f][f] = index[f][f]
    <3>1. index'["hand"]["hand"] = index["hand"]["hand"]
      <4>1. CASE Dirty("hand")
        BY <1>7, <4>1, Names
      <4>2. CASE ~ Dirty("hand")
        BY <1>5, <1>7, <4>2, Names DEF Dirty, Tracked
      <4> QED
        BY <4>1, <4>2
    <3> QED
      BY <1>9, <3>1, Names
  <2>2. index'["post"] = index["post"] /\ index'["tri"] = index["tri"]
    BY <1>9, Names
  <2> QED
    BY <1>1, <1>8, <2>1, <2>2, PageStays
<1>11. FeedFollows'
  <2>1. index'["feed"] = index["feed"] /\ work'["feed"] = work["feed"]
    BY <1>5, <1>9, Names
  <2> QED
    BY <1>1, <1>8, <2>1 DEF ChainInv, FeedFollows
<1> QED
  BY <1>1, <1>5, <1>6, <1>7, <1>10, <1>11, TreesStay

LEMMA SkipKeeps == ASSUME ChainInv, SkipRender PROVE ChainInv'
<1>1. /\ place = "render" /\ place' = "date" /\ UNCHANGED <<work, index, head, asked, unasked, figures, changes, aborts>>
      /\ AsBegun
  BY DEF SkipRender, At, ChainInv, BeginsAsAsked
<1>2. \A f \in SiteFile : Dirty(f)' <=> Dirty(f)
  BY <1>1 DEF Dirty, Tracked
<1>3. AsBegun'
  BY <1>1, <1>2 DEF AsBegun
<1>4. ShowsWhatItMay' /\ SourcesAsAsked' /\ FeedFollows' /\ PageFollows'
  BY <1>1, <1>3 DEF ChainInv, ShowsWhatItMay, Shown, AsBegun, SourcesAsAsked, FeedFollows, PageFollows
<1> QED
  BY <1>1, <1>3, <1>4, TreesStay DEF ChainInv, TreesTyped

\* The author works, or the day goes on, while no chain runs.
LEMMA IdleKeeps ==
    ASSUME ChainInv, work' \in Tree, index' \in Tree, head' \in Tree, ShowsWhatItMay', place' = "idle",
           asked' \in Tree, unasked' \subseteq SiteFile, work'["feed"] = index'["feed"], figures' = figures, changes' \in Nat, aborts' \in Nat
    PROVE  ChainInv'
BY DEF ChainInv, TreesTyped, BeginsAsAsked, SourcesAsAsked, FeedFollows, PageFollows

\* The datestamp fails, having written some of what it would have written.
LEMMA FailsKeeps == ASSUME ChainInv, DatestampFails PROVE ChainInv'
<1>1. PICK w \in Tree : w = work
  BY DEF ChainInv, TreesTyped
<1>2. Shown(w) /\ figures \in [Figure -> Nat] /\ "day" \in Figure
  BY <1>1 DEF ChainInv, TreesTyped, ShowsWhatItMay, Shown, Figure
<1>3. PICK p \in {w, Redated(w), Repaged(Redated(w))} : work' \in {p, Stamped(p, "day")}
  BY <1>1 DEF DatestampFails
<1>4. p \in Tree /\ Shown(p) /\ p["feed"] = w["feed"]
  <2>1. /\ Redated(w) \in Tree /\ Shown(Redated(w))
        /\ \A g \in SiteFile \ {"tri"} : Redated(w)[g] = w[g]
    BY <1>2, RedatedIs
  <2>2. PICK d \in Tree : d = Redated(w)
    BY <2>1
  <2>3. /\ Repaged(d) \in Tree /\ Shown(Repaged(d))
        /\ \A g \in SiteFile \ {"page"} : Repaged(d)[g] = d[g]
    BY <2>1, <2>2, RepagedIs
  <2> QED
    BY <1>2, <1>3, <2>1, <2>2, <2>3, Names
<1>5. work' \in Tree /\ ShowsWhatItMay' /\ work'["feed"] = work["feed"]
  <2>1. /\ Stamped(p, "day") \in Tree /\ Shown(Stamped(p, "day"))
        /\ \A g \in SiteFile \ {"home"} : Stamped(p, "day")[g] = p[g]
    BY <1>2, <1>4, StampedIs
  <2> QED
    BY <1>1, <1>3, <1>4, <2>1, Names DEF ShowsWhatItMay, Shown
<1>6. PICK fs \in {{}, {"tri"}, {"home"}} : index' = Added(fs, work')
  BY DEF DatestampFails
<1>7. index' \in Tree /\ index'["feed"] = index["feed"]
  <2>1. PICK v \in Tree : v = work'
    BY <1>5
  <2>2. index \in Tree /\ index' = Added(fs, v)
    BY <1>6, <2>1 DEF ChainInv, TreesTyped
  <2>3. index' \in Tree /\ \A f \in SiteFile : index'[f] = IF f \in fs THEN v[f] ELSE index[f]
    BY <2>2, AddedIs
  <2> QED
    BY <1>6, <2>3, Names
<1>8. /\ place' = "idle" /\ UNCHANGED <<head, figures, changes>> /\ aborts' = aborts + 1
      /\ asked' = head' /\ unasked' = {}
  BY DEF DatestampFails, Forgotten
<1>9. head' \in Tree /\ aborts' \in Nat /\ changes' \in Nat /\ work'["feed"] = index'["feed"]
  BY <1>5, <1>7, <1>8 DEF ChainInv, TreesTyped, FeedFollows
<1> QED
  BY <1>5, <1>7, <1>8, <1>9, IdleKeeps

LEMMA AuthorKeeps ==
    ASSUME ChainInv,
           \/ \E f \in Authored : Change(f) \/ Add({f})
           \/ Add(SiteFile) \/ RenderByHand
    PROVE  ChainInv'
<1>0. asked \in Tree /\ unasked \subseteq SiteFile /\ work["feed"] = index["feed"] /\ "feed" \in SiteFile
  BY Names DEF ChainInv, TreesTyped, FeedFollows
<1>1. work \in Tree /\ index \in Tree /\ head \in Tree /\ ShowsWhatItMay /\ changes \in Nat /\ aborts \in Nat
  BY DEF ChainInv, TreesTyped
<1>2. ASSUME NEW f \in Authored, Change(f) PROVE ChainInv'
  <2> DEFINE c == [work[f] EXCEPT ![f] = changes + 1]
  <2>1. /\ place' = "idle" /\ changes' = changes + 1 /\ UNCHANGED <<index, head, asked, unasked, figures, aborts>>
        /\ work' = [work EXCEPT ![f] = c]
    BY <1>2 DEF Change
  <2>2. f \in SiteFile /\ f \in Source /\ work[f] \in Content /\ f \in Shows[f]
    BY <1>1, SomeFiles DEF Tree
  <2>3. c \in Content /\ \A s \in Source \ {f} : c[s] = work[f][s]
    BY <1>1, <2>2 DEF Content
  <2>4. \A s \in Source : s \notin Shows[f] => c[s] = 0
    BY <1>1, <2>2, <2>3 DEF ShowsWhatItMay, Shown
  <2> HIDE DEF c
  <2>5. work' \in Tree /\ ShowsWhatItMay' /\ \A g \in SiteFile \ {f} : work'[g] = work[g]
    BY <1>1, <2>1, <2>2, <2>3, <2>4, WrittenIs
  <2>6. work'["feed"] = index'["feed"]
    BY <1>0, <2>1, <2>5, Names
  <2> QED
    BY <1>0, <1>1, <2>1, <2>6, <2>5, IdleKeeps
<1>3. ASSUME NEW fs, Add(fs) PROVE ChainInv'
  <2>1. /\ place' = "idle" /\ index' = Added(fs, work) /\ UNCHANGED <<work, head, asked, unasked, figures, changes, aborts>>
    BY <1>3 DEF Add
  <2>2. index' \in Tree
    BY <1>1, <2>1 DEF Added, Tree
  <2>3. ShowsWhatItMay'
    BY <1>1, <2>1 DEF ShowsWhatItMay, Shown
  <2>4. work'["feed"] = index'["feed"]
    BY <1>0, <2>1 DEF Added
  <2> QED
    BY <1>0, <1>1, <2>1, <2>2, <2>3, <2>4, IdleKeeps
<1>4. CASE RenderByHand
  <2>1. /\ place' = "idle" /\ UNCHANGED <<index, head, asked, unasked, figures, changes, aborts>>
        /\ work' = Repaged(work)
    BY <1>4 DEF RenderByHand
  <2>2. work' \in Tree /\ ShowsWhatItMay' /\ work'["feed"] = index'["feed"]
    BY <1>0, <1>1, <2>1, RenderedIs
  <2> QED
    BY <1>0, <1>1, <2>1, <2>2, IdleKeeps
<1> QED
  BY <1>2, <1>3, <1>4

LEMMA ChainStep == ChainInv /\ [HookNext]_(hookvars) => ChainInv'
<1> SUFFICES ASSUME ChainInv, [HookNext]_(hookvars) PROVE ChainInv'
  OBVIOUS
<1>1. CASE \/ \E f \in Authored : Change(f) \/ Add({f})
           \/ Add(SiteFile) \/ RenderByHand
  BY <1>1, AuthorKeeps
<1>2. ASSUME NEW s \in Figure, Drift(s) PROVE ChainInv'
  <2>1. UNCHANGED <<work, index, head, asked, unasked, place, changes, aborts>> /\ figures' \in [Figure -> Nat]
    BY <1>2 DEF Drift, ChainInv, TreesTyped
  <2>2. \A f \in SiteFile : Dirty(f)' <=> Dirty(f)
    BY <2>1 DEF Dirty, Tracked
  <2>3. AsBegun' <=> AsBegun
    BY <2>1, <2>2 DEF AsBegun
  <2> QED
    BY <2>1, <2>3 DEF ChainInv, TreesTyped, ShowsWhatItMay, Shown, BeginsAsAsked, SourcesAsAsked, MaySweep,
                      FeedFollows, PageFollows, Tracked
<1>3. CASE BeginCommit
  <2>1. /\ place' = "render" /\ asked' = index /\ unasked' = {f \in SiteFile : Dirty(f)}
        /\ UNCHANGED <<work, index, head, figures, changes, aborts>>
    BY <1>3 DEF BeginCommit
  <2>2. \A f \in SiteFile : Dirty(f)' <=> Dirty(f)
    BY <2>1 DEF Dirty, Tracked
  <2>3. AsBegun'
    BY <2>1, <2>2 DEF AsBegun
  <2> QED
    BY <2>1, <2>3, SomeFiles DEF ChainInv, TreesTyped, ShowsWhatItMay, Shown, BeginsAsAsked, SourcesAsAsked,
                                 FeedFollows, PageFollows
<1>4. CASE StepFails \/ Commit
  <2>1. /\ place' = "idle" /\ UNCHANGED <<work, index, figures, changes>>
        /\ head' \in {head, index} /\ aborts' \in {aborts, aborts + 1} /\ asked' = head' /\ unasked' = {}
    BY <1>4 DEF StepFails, Commit, Forgotten
  <2>2. head' \in Tree /\ aborts' \in Nat /\ ShowsWhatItMay' /\ work'["feed"] = index'["feed"]
    BY <2>1 DEF ChainInv, TreesTyped, ShowsWhatItMay, Shown, FeedFollows
  <2> QED
    BY <2>1, <2>2, IdleKeeps DEF ChainInv, TreesTyped
<1>5. CASE UNCHANGED hookvars
  <2>1. \A f \in SiteFile : Dirty(f)' <=> Dirty(f)
    BY <1>5 DEF hookvars, Dirty, Tracked
  <2>2. AsBegun' <=> AsBegun
    BY <1>5, <2>1 DEF hookvars, AsBegun
  <2> QED
    BY <1>5, <2>2 DEF hookvars, ChainInv, TreesTyped, ShowsWhatItMay, Shown, BeginsAsAsked, SourcesAsAsked,
                      MaySweep, FeedFollows, PageFollows, Tracked
<1> QED
  BY <1>1, <1>2, <1>3, <1>4, <1>5, RenderKeeps, SkipKeeps, DatestampKeeps, FailsKeeps, NtpStatKeeps,
     FeedsKeeps, FontsKeeps, BadgesKeeps DEF HookNext, Chain

LEMMA ChainHolds == HookSpec => []ChainInv
BY ChainInit, ChainStep, PTL DEF HookSpec

\* The trees stay trees, and of what the author wrote the chain sweeps nothing
\* into the commit but hand-written pages, by its first step, and the source of a
\* staged page, by its second (PreCommit!TreesSound).
THEOREM SourcesAreTheAuthors == HookSpec => []TreesSound
<1>1. ChainInv => TreesSound
  BY DEF ChainInv, TreesTyped, ShowsWhatItMay, Shown, SourcesAsAsked, MaySweep, TreesSound, HookTypes,
         SourcesUnswept
<1> QED
  BY <1>1, ChainHolds, PTL

\* A feed that is committed for the author announces what the page committed
\* with it lists (PreCommit!FeedsTruthful).
THEOREM FeedsAnnounceThePage == HookSpec => []FeedsTruthful
<1>1. ChainInv => FeedsTruthful
  BY DEF ChainInv, FeedFollows, FeedsTruthful
<1> QED
  BY <1>1, ChainHolds, PTL

\* A page that is committed for the author is described by the sources that are
\* committed with it (PreCommit!PagesDescribed).
THEOREM PagesShowTheirSources == HookSpec => []PagesDescribed
<1>1. ChainInv => PagesDescribed
  BY DEF ChainInv, PageFollows, PagesDescribed
<1> QED
  BY <1>1, ChainHolds, PTL

===============================================================================
