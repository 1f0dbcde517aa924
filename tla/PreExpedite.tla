----------------------------- MODULE PreExpedite -----------------------------
(***************************************************************************)
(* Invocations of Pre-Expedite on one machine.  A run creates a block file *)
(* under HSS/, formats it, binds it to a loop device, mounts the device at *)
(* HSS-SHARE-DIR and gives the root directory to a user; each action is    *)
(* one system call of main, VFSBlockCreate, VFSMount, VFSDirPermission or  *)
(* VFSUMount together with the branch the program takes on its result.     *)
(* Runs interleave at every call: nothing in the program excludes them.    *)
(*                                                                         *)
(* MaxFaults bounds the calls that fail for a reason outside the model and *)
(* the runs that are killed.                                               *)
(***************************************************************************)
EXTENDS HostKernel, SizeParam, FiniteSets

CONSTANTS NameOf,     \* run -> argv[1], the name of its block file
          SizeArg,    \* run -> argv[2]
          MaxFaults

ASSUME RunAssumption == /\ DOMAIN NameOf = Run
                        /\ SizeArg \in [Run -> Arg]
                        /\ MaxFaults \in Nat

VARIABLES dirs,      \* directories that exist, of {"hss", "share"}
          dirent,    \* block name -> inode, NoRun when there is no such file
          block,     \* inode -> [gb, fmt]
          pc,        \* run -> the call it makes next
          dev,       \* run -> unused_loop_dev of VFSMount
          file_fd,   \* run -> inode it has open in loopdev_setup_device
          nm_res,    \* run -> result of VFSMount, 0 until it failed
          faults

diskVars == <<dirs, dirent, block>>
runVars == <<dev, file_fd, nm_res>>
vars == <<kernelVars, diskVars, pc, runVars, faults>>

Name == {NameOf[r] : r \in Run}
ShareDir == [absolute |-> FALSE, slash |-> TRUE]   \* "HSS-SHARE-DIR/"

DevOpen == {"set_fd", "set_status", "close_dev", "clr_fd", "clr_close"}
Exited == {"ok", "fail", "killed"}
Stage == DevOpen \cup Exited \cup
         {"parse", "access", "creat", "ftruncate", "mkfs", "get_free",
          "open_file", "open_dev", "mount", "chmod", "chown", "umount", "remove"}

DiskTypeOK == /\ dirs \subseteq {"hss", "share"}
              /\ dirent \in [Name -> Run \cup {NoRun}]
              /\ block \in [Run -> [gb : Nat, fmt : {"blank", "xfs"}]]

RunTypeOK == /\ pc \in [Run -> Stage]
             /\ dev \in [Run -> Dev \cup {NoDev}]
             /\ file_fd \in [Run -> Run \cup {NoRun}]
             /\ nm_res \in [Run -> {0, -1, -2}]

\* A descriptor that is used is one that was opened.
HandlesOK ==
  \A r \in Run :
    /\ pc[r] \in DevOpen \cup {"open_file", "open_dev", "mount"} => dev[r] \in Dev
    /\ pc[r] \in {"ftruncate", "open_dev", "set_fd"} => file_fd[r] \in Run

TypeOK == /\ KernelTypeOK
          /\ DiskTypeOK
          /\ RunTypeOK
          /\ HandlesOK
          /\ faults \in 0..MaxFaults

Init == /\ KernelInit
        /\ dirs = {}
        /\ dirent = [n \in Name |-> NoRun]
        /\ block = [r \in Run |-> [gb |-> 0, fmt |-> "blank"]]
        /\ pc = [r \in Run |-> "parse"]
        /\ dev = [r \in Run |-> NoDev]
        /\ file_fd = [r \in Run |-> NoRun]
        /\ nm_res = [r \in Run |-> 0]
        /\ faults = 0

Goto(r, stage) == pc' = [pc EXCEPT ![r] = stage]
Fault == faults < MaxFaults /\ faults' = faults + 1

\* A call fails because it must, or because the machine lets it fail.
Fails(must) == IF must THEN UNCHANGED faults ELSE Fault

Inode(r) == dirent[NameOf[r]]
OtherOpeners(r) == {q \in Run \ {r} : dev[q] = dev[r] /\ pc[q] \in DevOpen}
Openers == [d \in Dev |-> {q \in Run : dev[q] = d /\ pc[q] \in DevOpen}]

-----------------------------------------------------------------------------
(* main: the arguments, and concat_nfsblock_location's two directories *)

VfsSize(r) == ParseFileSizeParam(SizeArg[r])

ParseArgs(r) ==
  /\ pc[r] = "parse"
  /\ \/ /\ VfsSize(r) <= 0
        /\ Goto(r, "fail")
        /\ UNCHANGED <<dirs, faults>>
     \/ /\ VfsSize(r) > 0
        /\ \/ dirs' = {"hss", "share"} /\ UNCHANGED faults
           \/ \E made \in SUBSET {"hss", "share"} :
                /\ dirs \cup made # {"hss", "share"}
                /\ dirs' = dirs \cup made
                /\ Fault
        /\ Goto(r, IF Oversize(PassedSize(VfsSize(r))) THEN "fail" ELSE "access")
  /\ UNCHANGED <<kernelVars, dirent, block, runVars>>

-----------------------------------------------------------------------------
(* VFSBlockCreate *)

\* Slip: no access call before creat64.
AccessUnchecked(r) ==
  /\ pc[r] = "access"
  /\ Goto(r, "creat")
  /\ UNCHANGED <<kernelVars, diskVars, runVars, faults>>

\* access succeeds on an existing file and leaves errno at 0, and that 0 is
\* what VFSBlockCreate returns: main goes on as if it had made the block.
Access(r) ==
  /\ pc[r] = "access"
  /\ Goto(r, IF Inode(r) # NoRun THEN "get_free" ELSE "creat")
  /\ UNCHANGED <<kernelVars, diskVars, runVars, faults>>

\* creat64 truncates a file that appeared since access looked.
Creat(r) ==
  /\ pc[r] = "creat"
  /\ \/ LET inode == IF Inode(r) = NoRun THEN r ELSE Inode(r) IN
        /\ "hss" \in dirs
        /\ dirent' = [dirent EXCEPT ![NameOf[r]] = inode]
        /\ block' = [block EXCEPT ![inode] = [gb |-> 0, fmt |-> "blank"]]
        /\ file_fd' = [file_fd EXCEPT ![r] = inode]
        /\ Goto(r, "ftruncate")
        /\ UNCHANGED faults
     \/ /\ Fails("hss" \notin dirs)
        /\ Goto(r, "fail")
        /\ UNCHANGED <<dirent, block, file_fd>>
  /\ UNCHANGED <<kernelVars, dirs, dev, nm_res>>

\* ftruncate's result is not looked at.  A file system cut short is no longer
\* one; a file that grows, or keeps its length, keeps its content.
Ftruncate(r) ==
  LET gb == PassedSize(VfsSize(r))
      old == block[file_fd[r]]
  IN  /\ pc[r] = "ftruncate"
      /\ \/ /\ block' = [block EXCEPT ![file_fd[r]] =
                           [gb |-> gb, fmt |-> IF gb < old.gb THEN "blank" ELSE old.fmt]]
            /\ UNCHANGED faults
         \/ Fault /\ UNCHANGED block
      /\ file_fd' = [file_fd EXCEPT ![r] = NoRun]
      /\ Goto(r, "mkfs")
      /\ UNCHANGED <<kernelVars, dirs, dirent, dev, nm_res>>

\* fork, execv, waitpid.  "-f" is argv[0] of the child, not an option, so
\* mkfs.xfs refuses a file that already holds a file system; it also refuses
\* an empty one.  A failed fork or execv ends the same way.  The file stays.
Mkfs(r) ==
  /\ pc[r] = "mkfs"
  /\ LET inode == Inode(r)
         refused == inode = NoRun \/ block[inode].gb = 0 \/ block[inode].fmt = "xfs"
     IN  \/ /\ ~refused
            /\ block' = [block EXCEPT ![inode].fmt = "xfs"]
            /\ Goto(r, "get_free")
            /\ UNCHANGED faults
         \/ /\ Fails(refused)
            /\ Goto(r, "fail")
            /\ UNCHANGED block
  /\ UNCHANGED <<kernelVars, dirs, dirent, runVars>>

-----------------------------------------------------------------------------
(* VFSMount *)

\* Slips: main does not look at nm_res; VFSMount is tried again; VFSMount
\* returns errno as its siblings do; main forgets the remove.
MountFailsIgnored(r, code) == nm_res' = [nm_res EXCEPT ![r] = code] /\ Goto(r, "chmod")
MountFailsRetries(r, code) == nm_res' = [nm_res EXCEPT ![r] = code] /\ Goto(r, "get_free")
MountFailsErrno(r, code) == nm_res' = [nm_res EXCEPT ![r] = 16] /\ Goto(r, "remove")
MountFailsNoRemove(r, code) == nm_res' = [nm_res EXCEPT ![r] = code] /\ Goto(r, "fail")

\* VFSMount returns code, and main removes the block file.
MountFails(r, code) == /\ nm_res' = [nm_res EXCEPT ![r] = code]
                       /\ Goto(r, "remove")

LoopdevFindUnused(r) ==
  /\ pc[r] = "get_free"
  /\ \/ /\ \E d \in GetFreeDevs : dev' = [dev EXCEPT ![r] = d]
        /\ Goto(r, "open_file")
        /\ UNCHANGED <<nm_res, faults>>
     \/ /\ Fails(GetFreeDevs = {})
        /\ MountFails(r, -1)
        /\ UNCHANGED dev
  /\ UNCHANGED <<kernelVars, diskVars, file_fd>>

OpenFile(r) ==
  /\ pc[r] = "open_file"
  /\ \/ /\ Inode(r) # NoRun
        /\ file_fd' = [file_fd EXCEPT ![r] = Inode(r)]
        /\ Goto(r, "open_dev")
        /\ UNCHANGED <<nm_res, faults>>
     \/ /\ Fails(Inode(r) = NoRun)
        /\ MountFails(r, -1)
        /\ UNCHANGED file_fd
  /\ UNCHANGED <<kernelVars, diskVars, dev>>

OpenDev(r) ==
  /\ pc[r] = "open_dev"
  /\ \/ Goto(r, "set_fd") /\ UNCHANGED <<file_fd, nm_res, faults>>
     \/ /\ Fault
        /\ file_fd' = [file_fd EXCEPT ![r] = NoRun]
        /\ MountFails(r, -1)
  /\ UNCHANGED <<kernelVars, diskVars, dev>>

\* Slip: a busy device is tried again, with the number it had.
SetFdRetries(r) ==
  /\ pc[r] = "set_fd"
  /\ \/ /\ LoopSetFd(dev[r], file_fd[r])
        /\ Goto(r, "set_status")
        /\ file_fd' = [file_fd EXCEPT ![r] = NoRun]
     \/ backing[dev[r]] # NoRun /\ UNCHANGED <<kernelVars, pc, file_fd>>
  /\ UNCHANGED <<diskVars, dev, nm_res, faults>>

\* The device may have been bound since loopdev_find_unused looked.
SetFd(r) ==
  /\ pc[r] = "set_fd"
  /\ \/ /\ LoopSetFd(dev[r], file_fd[r])
        /\ Goto(r, "set_status")
        /\ UNCHANGED faults
     \/ /\ Fails(backing[dev[r]] # NoRun)
        /\ Goto(r, "clr_fd")
        /\ UNCHANGED kernelVars
  /\ file_fd' = [file_fd EXCEPT ![r] = NoRun]
  /\ UNCHANGED <<diskVars, dev, nm_res>>

SetStatus(r) ==
  /\ pc[r] = "set_status"
  /\ \/ LoopSetStatus(dev[r]) /\ Goto(r, "close_dev") /\ UNCHANGED faults
     \/ Fails(backing[dev[r]] = NoRun) /\ Goto(r, "clr_fd") /\ UNCHANGED kernelVars
  /\ UNCHANGED <<diskVars, runVars>>

CloseDev(r) ==
  /\ pc[r] = "close_dev"
  /\ CloseLoop(dev[r], OtherOpeners(r))
  /\ Goto(r, "mount")
  /\ UNCHANGED <<diskVars, runVars, faults>>

\* Slip: the error label closes the device and leaves it bound.
ClrFdForgotten(r) ==
  /\ pc[r] = "clr_fd"
  /\ Goto(r, "clr_close")
  /\ UNCHANGED <<kernelVars, diskVars, runVars, faults>>

\* The error label of loopdev_setup_device clears whatever is bound to the
\* device, also when it was LOOP_SET_FD that failed.
ClrFd(r) ==
  /\ pc[r] = "clr_fd"
  /\ LoopClrFd(dev[r], OtherOpeners(r))
  /\ Goto(r, "clr_close")
  /\ UNCHANGED <<diskVars, runVars, faults>>

CloseAfterError(r) ==
  /\ pc[r] = "clr_close"
  /\ CloseLoop(dev[r], OtherOpeners(r))
  /\ MountFails(r, -1)
  /\ UNCHANGED <<diskVars, dev, file_fd, faults>>

\* A mount that fails leaves the loop device bound.
MountDev(r) ==
  /\ pc[r] = "mount"
  /\ LET inode == backing[dev[r]]
         refused == \/ inode = NoRun
                    \/ block[inode].fmt # "xfs"
                    \/ "share" \notin dirs
                    \/ OnTop(dev[r])
     IN  \/ /\ ~refused
            /\ MountLoop(r, dev[r], ShareDir)
            /\ Goto(r, "chmod")
            /\ UNCHANGED <<nm_res, faults>>
         \/ /\ Fails(refused)
            /\ MountFails(r, -2)
            /\ UNCHANGED kernelVars
  /\ UNCHANGED <<diskVars, dev, file_fd>>

-----------------------------------------------------------------------------
(* VFSDirPermission, VFSUMount and the ends of main *)

Chmod(r) ==
  /\ pc[r] = "chmod"
  /\ \/ /\ SetTopRoot([root[TopDev] EXCEPT !.mode = "0770"])
        /\ Goto(r, "chown")
        /\ UNCHANGED faults
     \/ Fault /\ Goto(r, "umount") /\ UNCHANGED kernelVars
  /\ UNCHANGED <<diskVars, runVars>>

\* Slip: main does not look at npm_res.
ChownUnchecked(r) ==
  /\ pc[r] = "chown"
  /\ \/ SetTopRoot([root[TopDev] EXCEPT !.owner = r]) /\ UNCHANGED faults
     \/ Fault /\ UNCHANGED kernelVars
  /\ Goto(r, "ok")
  /\ UNCHANGED <<diskVars, runVars>>

Chown(r) ==
  /\ pc[r] = "chown"
  /\ \/ /\ SetTopRoot([root[TopDev] EXCEPT !.owner = r])
        /\ Goto(r, "ok")
        /\ UNCHANGED faults
     \/ Fault /\ Goto(r, "umount") /\ UNCHANGED kernelVars
  /\ UNCHANGED <<diskVars, runVars>>

\* Slip: the path is made absolute first, so any mount there is found.
IsDirMountPointResolved(path) ==
  \E i \in 1..Len(mtab) : mtab[i].dir = MountedAs(path)

\* 0 when some line of the mount table names exactly this path.
IsDirMountPoint(path) == \E i \in 1..Len(mtab) : mtab[i].dir = path

\* main ignores the result.
UMount(r) ==
  /\ pc[r] = "umount"
  /\ IF IsDirMountPoint(ShareDir) THEN DetachTop(Openers) ELSE UNCHANGED kernelVars
  /\ Goto(r, "remove")
  /\ UNCHANGED <<diskVars, runVars, faults>>

\* Slip: the clean-up empties the directory of the block files.
RemoveAll(r) ==
  /\ pc[r] = "remove"
  /\ dirent' = [n \in Name |-> NoRun]
  /\ Goto(r, "fail")
  /\ UNCHANGED <<kernelVars, dirs, block, runVars, faults>>

\* Nobody looks at the result of remove either.
Remove(r) ==
  /\ pc[r] = "remove"
  /\ \/ dirent' = [dirent EXCEPT ![NameOf[r]] = NoRun] /\ UNCHANGED faults
     \/ Fault /\ UNCHANGED dirent
  /\ Goto(r, "fail")
  /\ UNCHANGED <<kernelVars, dirs, block, runVars>>

-----------------------------------------------------------------------------
\* A run is killed between two calls; the kernel closes its descriptors.
Kill(r) ==
  /\ pc[r] \notin Exited
  /\ Fault
  /\ Goto(r, "killed")
  /\ file_fd' = [file_fd EXCEPT ![r] = NoRun]
  /\ IF pc[r] \in DevOpen THEN CloseLoop(dev[r], OtherOpeners(r))
                          ELSE UNCHANGED kernelVars
  /\ UNCHANGED <<diskVars, dev, nm_res>>

Step(r) == \/ ParseArgs(r) \/ Access(r) \/ Creat(r) \/ Ftruncate(r) \/ Mkfs(r)
           \/ LoopdevFindUnused(r) \/ OpenFile(r) \/ OpenDev(r) \/ SetFd(r)
           \/ SetStatus(r) \/ CloseDev(r) \/ ClrFd(r) \/ CloseAfterError(r)
           \/ MountDev(r) \/ Chmod(r) \/ Chown(r) \/ UMount(r) \/ Remove(r)

AllExited == (\A r \in Run : pc[r] \in Exited) /\ UNCHANGED vars

Next == (\E r \in Run : Step(r) \/ Kill(r)) \/ AllExited

\* The scheduler runs every process, and mkfs.xfs ends.
Fairness == \A r \in Run : WF_vars(Step(r))

Spec == Init /\ [][Next]_vars
FairSpec == Spec /\ Fairness

\* The same program when its users take care never to have two runs in flight.
Alone(r) == \A q \in Run \ {r} : pc[q] \in Exited \cup {"parse"}
SerialNext == (\E r \in Run : (Alone(r) /\ Step(r)) \/ Kill(r)) \/ AllExited
SerialSpec == Init /\ [][SerialNext]_vars

-----------------------------------------------------------------------------
(* Properties of every set of runs *)

\* Once a block is mounted, no run takes the mount away or puts another file
\* under its device: not the run that lost the race for the device and clears
\* it in its error path (fsmount.c:156), not one that unmounts after a failed
\* chmod or chown (Pre-Expedite.c:100).
MountSurvives ==
  [][\A d \in Dev : Mounted(d) => Mounted(d)' /\ backing'[d] = backing[d]]_vars

\* A run that exits 0 has its own mount in the table, on a bound device.
OkRunIsMounted ==
  \A r \in Run : pc[r] = "ok" =>
    \E i \in 1..Len(mtab) : mtab[i].by = r /\ backing[mtab[i].dev] # NoRun

\* A loop device is left bound and unmounted only by a run whose mount call
\* failed (fsmount.c:263 returns without LOOP_CLR_FD) or that was killed; the
\* error path of loopdev_setup_device never leaves one behind, in whatever
\* order the runs contending for the device open, clear and close it.
LeakAccounted ==
  \A d \in Dev : backing[d] # NoRun /\ ~Mounted(d) =>
    \E r \in Run : /\ dev[r] = d
                   /\ \/ pc[r] \in DevOpen \cup {"mount", "killed"}
                      \/ nm_res[r] = -2

\* The runs together implement HSSPublication.
Served == [i \in 1..Len(mtab) |->
             [by |-> mtab[i].by, inode |-> backing[mtab[i].dev]]]
Outcome == [r \in Run |-> IF pc[r] \in Exited THEN pc[r] ELSE "running"]

Publication == INSTANCE HSSPublication WITH served <- Served, outcome <- Outcome

\* Mounts stack up at HSS-SHARE-DIR and none is ever withdrawn, a run mounts
\* one block at most, and main returns 0 only after its mount (VFSMount in
\* fsmount.c, the error paths of main and of loopdev_setup_device).
ImplementsPublication == Publication!Spec

\* Every run exits: no call of one run waits for another run.
Termination == \A r \in Run : <>(pc[r] \in Exited)

-----------------------------------------------------------------------------
(* Properties of runs that use different block names *)

DistinctNames == \A r, q \in Run : NameOf[r] = NameOf[q] => r = q

\* The block of a run that exited 0 stays what the run made it: linked under
\* its name, of the size asked for, formatted.  No failing run removes,
\* truncates or reformats it.
PublishedBlockKept ==
  \A r \in Run : pc[r] = "ok" =>
    /\ Inode(r) = r
    /\ block[r] = [gb |-> PassedSize(VfsSize(r)), fmt |-> "xfs"]

\* Whatever is mounted is formatted, though device numbers may be stale and
\* leftovers of killed runs may lie under HSS/.
MountedIsFormatted ==
  \A i \in 1..Len(mtab) :
    /\ backing[mtab[i].dev] # NoRun
    /\ block[backing[mtab[i].dev]].fmt = "xfs"

\* A block file is behind one loop device at most: two XFS instances on one
\* file corrupt it, and "nouuid" (fsmount.c:258) switches off the kernel's own
\* protection.
BlockBoundOnce ==
  \A d, e \in Dev : backing[d] # NoRun /\ backing[d] = backing[e] => d = e

-----------------------------------------------------------------------------
(* Properties of runs that never overlap *)

\* What Pre-Expedite.c:104 reports of a run: a file of its name, which an earlier
\* run may have left, is mounted, has the size, and its root directory went to
\* the user, whatever failed or was killed before or since.
ReportTrue ==
  \A r \in Run : pc[r] = "ok" =>
    \E i \in 1..Len(mtab) :
      LET file == backing[mtab[i].dev]
      IN /\ mtab[i].by = r
         /\ file \in Run /\ NameOf[file] = NameOf[r]
         /\ block[file].gb = PassedSize(VfsSize(r))
         /\ root[mtab[i].dev] = [owner |-> r, mode |-> "0770"]

\* Recovery by retrying under one name: whatever a failed call or a killed run
\* leaves under HSS/, one more run fails on it and removes it, and the next
\* run succeeds.
FaultSpoilsTwoRuns ==
  Cardinality({r \in Run : pc[r] \in {"fail", "killed"}}) <= 2 * faults

-----------------------------------------------------------------------------
(* What messages and comments of the program say, and its runs refute *)

\* fsmk.c:46: a run whose block file exists exits.
ExistingBlockExits ==
  [][\A r \in Run : pc[r] = "access" /\ pc'[r] # "access" /\ Inode(r) # NoRun
       => pc'[r] \in Exited]_vars

\* Pre-Expedite.c:99: a run that cannot hand over the directory takes its
\* mount away before it exits.
CleanupUnmounts == \A r \in Run : pc[r] = "fail" => ~MountedBy(r)

\* Pre-Expedite.c:104: the file it names is the one mounted at HSS-SHARE-DIR.
ReportedFileIsMounted ==
  \A r \in Run : pc[r] = "ok" =>
    \A i \in 1..Len(mtab) : mtab[i].by = r => backing[mtab[i].dev] = r

=============================================================================
