----------------------------- MODULE HostKernel -----------------------------
(***************************************************************************)
(* What the runs of Pre-Expedite share outside their own memory: the loop  *)
(* devices and the mounts at HSS-SHARE-DIR, as the ioctl, mount, chmod and *)
(* chown calls of fsmount.c and fsperm.c see them.  The Linux kernel is    *)
(* not part of the repository; each operator is the effect of one call.    *)
(*                                                                         *)
(* A block file is identified by the run whose creat64 made its inode, so  *)
(* that a file keeps its identity after its name is removed.               *)
(***************************************************************************)
EXTENDS Naturals, Sequences

CONSTANTS Run,     \* invocations of Pre-Expedite
          NoRun,   \* no run, hence no inode and no owner
          Dev,     \* loop devices of the machine
          NoDev

ASSUME NullAssumption == NoRun \notin Run /\ NoDev \notin Dev

VARIABLES backing,    \* loop device -> inode bound by LOOP_SET_FD
          autoclear,  \* loop device -> LO_FLAGS_AUTOCLEAR
          mtab,       \* mounts at HSS-SHARE-DIR, the visible one last
          root        \* loop device -> owner and mode of its root directory

kernelVars == <<backing, autoclear, mtab, root>>

\* A path is abstracted to what the comparison in IsDirMountPoint tells
\* apart.  The kernel lists mounts by absolute paths with no slash at the end.
Path == [absolute : BOOLEAN, slash : BOOLEAN]
MountedAs(path) == [absolute |-> TRUE, slash |-> FALSE]

Mount == [dir : Path, dev : Dev, by : Run]
Perm == [owner : Run \cup {NoRun}, mode : {"disk", "0770"}]
OnDisk == [owner |-> NoRun, mode |-> "disk"]

KernelTypeOK == /\ backing \in [Dev -> Run \cup {NoRun}]
                /\ autoclear \in [Dev -> BOOLEAN]
                /\ mtab \in Seq(Mount)
                /\ root \in [Dev -> Perm]

KernelInit == /\ backing = [d \in Dev |-> NoRun]
              /\ autoclear = [d \in Dev |-> FALSE]
              /\ mtab = <<>>
              /\ root = [d \in Dev |-> OnDisk]

Mounted(d) == \E i \in 1..Len(mtab) : mtab[i].dev = d
MountedBy(r) == \E i \in 1..Len(mtab) : mtab[i].by = r

\* LOOP_CTL_GET_FREE names a device that is unbound now; it reserves nothing.
GetFreeDevs == {d \in Dev : backing[d] = NoRun}

Teardown(d) == /\ backing' = [backing EXCEPT ![d] = NoRun]
               /\ autoclear' = [autoclear EXCEPT ![d] = FALSE]

LoopSetFd(d, inode) == /\ backing[d] = NoRun
                       /\ backing' = [backing EXCEPT ![d] = inode]
                       /\ autoclear' = [autoclear EXCEPT ![d] = FALSE]
                       /\ UNCHANGED <<mtab, root>>

\* The zeroed loop_info64 of loopdev_setup_device clears the autoclear flag.
LoopSetStatus(d) == /\ backing[d] # NoRun
                    /\ autoclear' = [autoclear EXCEPT ![d] = FALSE]
                    /\ UNCHANGED <<backing, mtab, root>>

\* Slip: LOOP_CLR_FD detaches a device that is in use.
LoopClrFdForced(d, otherOpeners) ==
  /\ IF backing[d] = NoRun THEN UNCHANGED <<backing, autoclear>> ELSE Teardown(d)
  /\ UNCHANGED <<mtab, root>>

\* LOOP_CLR_FD detaches at once when the caller is the only user; while the
\* device is open elsewhere or mounted it leaves that to the last close.
LoopClrFd(d, otherOpeners) ==
  /\ CASE backing[d] = NoRun -> UNCHANGED <<backing, autoclear>>
       [] backing[d] # NoRun /\ (otherOpeners # {} \/ Mounted(d)) ->
            /\ autoclear' = [autoclear EXCEPT ![d] = TRUE]
            /\ UNCHANGED backing
       [] OTHER -> Teardown(d)
  /\ UNCHANGED <<mtab, root>>

CloseLoop(d, otherOpeners) ==
  /\ IF autoclear[d] /\ otherOpeners = {} /\ ~Mounted(d)
     THEN Teardown(d)
     ELSE UNCHANGED <<backing, autoclear>>
  /\ UNCHANGED <<mtab, root>>

\* The kernel refuses the file system that is already on top of the directory.
OnTop(d) == mtab # <<>> /\ mtab[Len(mtab)].dev = d

MountLoop(r, d, path) ==
  /\ mtab' = Append(mtab, [dir |-> MountedAs(path), dev |-> d, by |-> r])
  /\ root' = IF Mounted(d) THEN root ELSE [root EXCEPT ![d] = OnDisk]
  /\ UNCHANGED <<backing, autoclear>>

\* umount2 with MNT_DETACH takes the visible mount away; its loop device goes
\* with it when it was marked autoclear and nobody else uses it.
DetachTop(openers) ==
  LET d == mtab[Len(mtab)].dev
      rest == SubSeq(mtab, 1, Len(mtab) - 1)
      used == openers[d] # {} \/ \E i \in 1..Len(rest) : rest[i].dev = d
  IN  /\ mtab' = rest
      /\ IF autoclear[d] /\ ~used THEN Teardown(d)
                                  ELSE UNCHANGED <<backing, autoclear>>
      /\ UNCHANGED root

\* chmod and chown by path reach the root of the visible mount, whoever
\* mounted it.  The permissions of the bare directory are not tracked.
TopDev == mtab[Len(mtab)].dev
SetTopRoot(perm) ==
  /\ root' = IF mtab = <<>> THEN root ELSE [root EXCEPT ![TopDev] = perm]
  /\ UNCHANGED <<backing, autoclear, mtab>>

=============================================================================
