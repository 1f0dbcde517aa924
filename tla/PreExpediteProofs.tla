-------------------------- MODULE PreExpediteProofs --------------------------
(***************************************************************************)
(* Proofs about PreExpedite, for every set of runs and devices, every      *)
(* choice of names and sizes, and every number of faults.                  *)
(***************************************************************************)
EXTENDS PreExpedite, Counting, SequenceTheorems, TLAPS

\* The remainder by the number of ints is an int.
LEMMA PassedSizeNat == \A size \in Int : PassedSize(size) \in Nat
  BY WidthAssumption DEF PassedSize, MAX_SIZE

\* The parser returns an integer for every argument.
LEMMA ParserInt == \A a \in Arg : ParseFileSizeParam(a) \in Int
<1> SUFFICES ASSUME NEW a \in Arg PROVE ParseFileSizeParam(a) \in Int
  OBVIOUS
<1> DEFINE n == atol(a.num)
<1>1. n \in Int
  BY WidthAssumption DEF atol, LongMax, Arg
<1>2. AsLong(n * 1024) \in Int
  <2>1. n * 1024 \in Int
    BY <1>1
  <2> DEFINE low == (n * 1024) % LongMod
  <2>2. low \in Int
    BY <2>1, WidthAssumption DEF MAX_SIZE
  <2> QED
    BY <2>2, WidthAssumption DEF AsLong, LongMax
<1> QED
  BY <1>1, <1>2 DEF ParseFileSizeParam, Arg, Unit

\* The argument of ftruncate is a number of gigabytes for every run.
LEMMA SizeNat == \A r \in Run : VfsSize(r) \in Int /\ PassedSize(VfsSize(r)) \in Nat
  BY PassedSizeNat, ParserInt, RunAssumption DEF VfsSize

-----------------------------------------------------------------------------
(* Type correctness *)

\* Every call that binds, releases or marks a loop device keeps the kernel's
\* state well typed.
LEMMA DeviceTypes ==
  ASSUME KernelTypeOK, NEW d \in Dev, NEW inode \in Run, NEW S,
         \/ LoopSetFd(d, inode) \/ LoopSetStatus(d)
         \/ LoopClrFd(d, S) \/ CloseLoop(d, S) \/ UNCHANGED kernelVars
  PROVE  KernelTypeOK'
<1>1. CASE LoopSetFd(d, inode)
  BY <1>1 DEF LoopSetFd, KernelTypeOK
<1>2. CASE LoopSetStatus(d)
  BY <1>2 DEF LoopSetStatus, KernelTypeOK
<1>3. CASE LoopClrFd(d, S)
  <2>1. /\ backing' \in [Dev -> Run \cup {NoRun}]
        /\ autoclear' \in [Dev -> BOOLEAN]
    BY <1>3 DEF LoopClrFd, Teardown, KernelTypeOK
  <2> QED
    BY <1>3, <2>1 DEF LoopClrFd, KernelTypeOK
<1>4. CASE CloseLoop(d, S)
  BY <1>4 DEF CloseLoop, Teardown, KernelTypeOK
<1>5. CASE UNCHANGED kernelVars
  BY <1>5 DEF kernelVars, KernelTypeOK
<1> QED
  BY <1>1, <1>2, <1>3, <1>4, <1>5

\* The same for the calls on the mount table and on the mounted roots.
LEMMA MountTypes ==
  ASSUME KernelTypeOK, NEW r \in Run, NEW d \in Dev, NEW path \in Path,
         MountLoop(r, d, path)
  PROVE  KernelTypeOK'
  BY DEF MountLoop, MountedAs, KernelTypeOK, Mount, Path, OnDisk, Perm

LEMMA DetachTypes ==
  ASSUME KernelTypeOK, NEW openers, mtab # <<>>, DetachTop(openers)
  PROVE  KernelTypeOK'
<1>1. mtab' \in Seq(Mount)
  BY DEF DetachTop, KernelTypeOK
<1>2. UNCHANGED root
  BY DEF DetachTop
<1>3. /\ backing' \in [Dev -> Run \cup {NoRun}]
      /\ autoclear' \in [Dev -> BOOLEAN]
  BY DEF DetachTop, Teardown, KernelTypeOK
<1> QED
  BY <1>1, <1>2, <1>3 DEF KernelTypeOK

\* Moving on, failing and not failing keep pc and faults well typed.
LEMMA GotoType ==
  ASSUME RunTypeOK, NEW r \in Run, NEW stage \in Stage, Goto(r, stage)
  PROVE  /\ pc' \in [Run -> Stage]
         /\ pc'[r] = stage
         /\ \A q \in Run \ {r} : pc'[q] = pc[q]
  BY DEF RunTypeOK, Goto

LEMMA FaultType ==
  ASSUME faults \in 0..MaxFaults, NEW must \in BOOLEAN,
         Fault \/ Fails(must) \/ UNCHANGED faults
  PROVE  faults' \in 0..MaxFaults
  BY RunAssumption DEF Fault, Fails


\* Each call of the program, and its death, keeps the state well typed.
LEMMA TypeStep ==
  ASSUME TypeOK, NEW r \in Run, Step(r) \/ Kill(r)
  PROVE  TypeOK'
<1> USE DEF TypeOK
<1>0. NameOf[r] \in Name
  BY DEF Name
<1>1. CASE ParseArgs(r)
  <2>1. KernelTypeOK'
    BY <1>1 DEF ParseArgs, kernelVars, KernelTypeOK
  <2>2. DiskTypeOK'
    BY <1>1 DEF ParseArgs, diskVars, DiskTypeOK
  <2>3. RunTypeOK'
    BY <1>1 DEF ParseArgs, Goto, Stage, DevOpen, Exited, RunTypeOK, runVars
  <2>4. HandlesOK'
    BY <1>1 DEF ParseArgs, Goto, DevOpen, RunTypeOK, HandlesOK, runVars
  <2>5. faults' \in 0..MaxFaults
    BY <1>1, RunAssumption DEF ParseArgs, Fault, Fails
  <2> QED
    BY <2>1, <2>2, <2>3, <2>4, <2>5
<1>2. CASE Access(r)
  <2>1. KernelTypeOK'
    BY <1>2 DEF Access, kernelVars, KernelTypeOK
  <2>2. DiskTypeOK'
    BY <1>2 DEF Access, diskVars, DiskTypeOK
  <2>3. RunTypeOK'
    BY <1>2 DEF Access, Goto, Stage, DevOpen, Exited, RunTypeOK, runVars
  <2>4. HandlesOK'
    BY <1>2 DEF Access, Goto, DevOpen, RunTypeOK, HandlesOK, runVars
  <2>5. faults' \in 0..MaxFaults
    BY <1>2, RunAssumption DEF Access, Fault, Fails
  <2> QED
    BY <2>1, <2>2, <2>3, <2>4, <2>5
<1>3. CASE Creat(r)
  <2>1. KernelTypeOK'
    BY <1>3 DEF Creat, kernelVars, KernelTypeOK
  <2>2. DiskTypeOK'
    BY <1>0, <1>3 DEF Creat, DiskTypeOK, Inode
  <2>3. RunTypeOK'
    BY <1>0, <1>3 DEF Creat, Goto, Stage, DevOpen, Exited, RunTypeOK, runVars, DiskTypeOK, Inode
  <2>4. HandlesOK'
    BY <1>0, <1>3 DEF Creat, Goto, DevOpen, RunTypeOK, HandlesOK, runVars, DiskTypeOK, Inode
  <2>5. faults' \in 0..MaxFaults
    BY <1>3, RunAssumption DEF Creat, Fault, Fails
  <2> QED
    BY <2>1, <2>2, <2>3, <2>4, <2>5
<1>4. CASE Ftruncate(r)
  <2>1. KernelTypeOK'
    BY <1>4 DEF Ftruncate, kernelVars, KernelTypeOK
  <2>2. DiskTypeOK'
    BY <1>4, SizeNat DEF Ftruncate, DiskTypeOK, HandlesOK
  <2>3. RunTypeOK'
    BY <1>4 DEF Ftruncate, Goto, Stage, DevOpen, Exited, RunTypeOK, runVars
  <2>4. HandlesOK'
    BY <1>4 DEF Ftruncate, Goto, DevOpen, RunTypeOK, HandlesOK, runVars
  <2>5. faults' \in 0..MaxFaults
    BY <1>4, RunAssumption DEF Ftruncate, Fault, Fails
  <2> QED
    BY <2>1, <2>2, <2>3, <2>4, <2>5
<1>5. CASE Mkfs(r)
  <2>1. KernelTypeOK'
    BY <1>5 DEF Mkfs, kernelVars, KernelTypeOK
  <2>2. DiskTypeOK'
    BY <1>0, <1>5 DEF Mkfs, DiskTypeOK, Inode
  <2>3. RunTypeOK'
    BY <1>5 DEF Mkfs, Goto, Stage, DevOpen, Exited, RunTypeOK, runVars
  <2>4. HandlesOK'
    BY <1>5 DEF Mkfs, Goto, DevOpen, RunTypeOK, HandlesOK, runVars
  <2>5. faults' \in 0..MaxFaults
    BY <1>5, RunAssumption DEF Mkfs, Fault, Fails
  <2> QED
    BY <2>1, <2>2, <2>3, <2>4, <2>5
<1>6. CASE LoopdevFindUnused(r)
  <2>1. KernelTypeOK'
    BY <1>6 DEF LoopdevFindUnused, kernelVars, KernelTypeOK
  <2>2. DiskTypeOK'
    BY <1>6 DEF LoopdevFindUnused, diskVars, DiskTypeOK
  <2>3. RunTypeOK'
    BY <1>6 DEF LoopdevFindUnused, Goto, MountFails, Stage, DevOpen, Exited, RunTypeOK, runVars, GetFreeDevs
  <2>4. HandlesOK'
    BY <1>6 DEF LoopdevFindUnused, Goto, MountFails, DevOpen, RunTypeOK, HandlesOK, runVars, GetFreeDevs
  <2>5. faults' \in 0..MaxFaults
    BY <1>6, RunAssumption DEF LoopdevFindUnused, Fault, Fails
  <2> QED
    BY <2>1, <2>2, <2>3, <2>4, <2>5
<1>7. CASE OpenFile(r)
  <2>1. KernelTypeOK'
    BY <1>7 DEF OpenFile, kernelVars, KernelTypeOK
  <2>2. DiskTypeOK'
    BY <1>7 DEF OpenFile, diskVars, DiskTypeOK
  <2>3. RunTypeOK'
    BY <1>0, <1>7 DEF OpenFile, Goto, MountFails, Stage, DevOpen, Exited, RunTypeOK, runVars, DiskTypeOK, Inode
  <2>4. HandlesOK'
    BY <1>0, <1>7 DEF OpenFile, Goto, MountFails, DevOpen, RunTypeOK, HandlesOK, runVars, DiskTypeOK, Inode
  <2>5. faults' \in 0..MaxFaults
    BY <1>7, RunAssumption DEF OpenFile, Fault, Fails
  <2> QED
    BY <2>1, <2>2, <2>3, <2>4, <2>5
<1>8. CASE OpenDev(r)
  <2>1. KernelTypeOK'
    BY <1>8 DEF OpenDev, kernelVars, KernelTypeOK
  <2>2. DiskTypeOK'
    BY <1>8 DEF OpenDev, diskVars, DiskTypeOK
  <2>3. RunTypeOK'
    BY <1>8 DEF OpenDev, Goto, MountFails, Stage, DevOpen, Exited, RunTypeOK, runVars
  <2>4. HandlesOK'
    BY <1>8 DEF OpenDev, Goto, MountFails, DevOpen, RunTypeOK, HandlesOK, runVars
  <2>5. faults' \in 0..MaxFaults
    BY <1>8, RunAssumption DEF OpenDev, Fault, Fails
  <2> QED
    BY <2>1, <2>2, <2>3, <2>4, <2>5
<1>9. CASE SetFd(r)
  <2>1. KernelTypeOK'
    BY <1>9, DeviceTypes DEF SetFd, HandlesOK, DevOpen
  <2>2. DiskTypeOK'
    BY <1>9 DEF SetFd, diskVars, DiskTypeOK
  <2>3. RunTypeOK'
    BY <1>9 DEF SetFd, Goto, Stage, DevOpen, Exited, RunTypeOK, runVars
  <2>4. HandlesOK'
    BY <1>9 DEF SetFd, Goto, DevOpen, RunTypeOK, HandlesOK, runVars
  <2>5. faults' \in 0..MaxFaults
    BY <1>9, RunAssumption DEF SetFd, Fault, Fails
  <2> QED
    BY <2>1, <2>2, <2>3, <2>4, <2>5
<1>10. CASE SetStatus(r)
  <2>1. KernelTypeOK'
    BY <1>10, DeviceTypes DEF SetStatus, HandlesOK, DevOpen
  <2>2. DiskTypeOK'
    BY <1>10 DEF SetStatus, diskVars, DiskTypeOK
  <2>3. RunTypeOK'
    BY <1>10 DEF SetStatus, Goto, Stage, DevOpen, Exited, RunTypeOK, runVars
  <2>4. HandlesOK'
    BY <1>10 DEF SetStatus, Goto, DevOpen, RunTypeOK, HandlesOK, runVars
  <2>5. faults' \in 0..MaxFaults
    BY <1>10, RunAssumption DEF SetStatus, Fault, Fails
  <2> QED
    BY <2>1, <2>2, <2>3, <2>4, <2>5
<1>11. CASE CloseDev(r)
  <2>1. KernelTypeOK'
    BY <1>11, DeviceTypes DEF CloseDev, HandlesOK, DevOpen
  <2>2. DiskTypeOK'
    BY <1>11 DEF CloseDev, diskVars, DiskTypeOK
  <2>3. RunTypeOK'
    BY <1>11 DEF CloseDev, Goto, Stage, DevOpen, Exited, RunTypeOK, runVars
  <2>4. HandlesOK'
    BY <1>11 DEF CloseDev, Goto, DevOpen, RunTypeOK, HandlesOK, runVars
  <2>5. faults' \in 0..MaxFaults
    BY <1>11, RunAssumption DEF CloseDev, Fault, Fails
  <2> QED
    BY <2>1, <2>2, <2>3, <2>4, <2>5
<1>12. CASE ClrFd(r)
  <2>1. KernelTypeOK'
    BY <1>12, DeviceTypes DEF ClrFd, HandlesOK, DevOpen
  <2>2. DiskTypeOK'
    BY <1>12 DEF ClrFd, diskVars, DiskTypeOK
  <2>3. RunTypeOK'
    BY <1>12 DEF ClrFd, Goto, Stage, DevOpen, Exited, RunTypeOK, runVars
  <2>4. HandlesOK'
    BY <1>12 DEF ClrFd, Goto, DevOpen, RunTypeOK, HandlesOK, runVars
  <2>5. faults' \in 0..MaxFaults
    BY <1>12, RunAssumption DEF ClrFd, Fault, Fails
  <2> QED
    BY <2>1, <2>2, <2>3, <2>4, <2>5
<1>13. CASE CloseAfterError(r)
  <2>1. KernelTypeOK'
    BY <1>13, DeviceTypes DEF CloseAfterError, HandlesOK, DevOpen
  <2>2. DiskTypeOK'
    BY <1>13 DEF CloseAfterError, diskVars, DiskTypeOK
  <2>3. RunTypeOK'
    BY <1>13 DEF CloseAfterError, Goto, MountFails, Stage, DevOpen, Exited, RunTypeOK, runVars
  <2>4. HandlesOK'
    BY <1>13 DEF CloseAfterError, Goto, MountFails, DevOpen, RunTypeOK, HandlesOK, runVars
  <2>5. faults' \in 0..MaxFaults
    BY <1>13, RunAssumption DEF CloseAfterError, Fault, Fails
  <2> QED
    BY <2>1, <2>2, <2>3, <2>4, <2>5
<1>14. CASE MountDev(r)
  <2>1. KernelTypeOK'
    BY <1>14, MountTypes DEF MountDev, HandlesOK, ShareDir, Path, kernelVars, KernelTypeOK
  <2>2. DiskTypeOK'
    BY <1>14 DEF MountDev, diskVars, DiskTypeOK
  <2>3. RunTypeOK'
    BY <1>14 DEF MountDev, Goto, MountFails, Stage, DevOpen, Exited, RunTypeOK, runVars
  <2>4. HandlesOK'
    BY <1>14 DEF MountDev, Goto, MountFails, DevOpen, RunTypeOK, HandlesOK, runVars
  <2>5. faults' \in 0..MaxFaults
    BY <1>14, RunAssumption DEF MountDev, Fault, Fails
  <2> QED
    BY <2>1, <2>2, <2>3, <2>4, <2>5
<1>15. CASE Chmod(r)
  <2>1. KernelTypeOK'
    BY <1>15 DEF Chmod, SetTopRoot, TopDev, kernelVars, KernelTypeOK, Mount, Perm
  <2>2. DiskTypeOK'
    BY <1>15 DEF Chmod, diskVars, DiskTypeOK
  <2>3. RunTypeOK'
    BY <1>15 DEF Chmod, Goto, Stage, DevOpen, Exited, RunTypeOK, runVars
  <2>4. HandlesOK'
    BY <1>15 DEF Chmod, Goto, DevOpen, RunTypeOK, HandlesOK, runVars
  <2>5. faults' \in 0..MaxFaults
    BY <1>15, RunAssumption DEF Chmod, Fault, Fails
  <2> QED
    BY <2>1, <2>2, <2>3, <2>4, <2>5
<1>16. CASE Chown(r)
  <2>1. KernelTypeOK'
    BY <1>16 DEF Chown, SetTopRoot, TopDev, kernelVars, KernelTypeOK, Mount, Perm
  <2>2. DiskTypeOK'
    BY <1>16 DEF Chown, diskVars, DiskTypeOK
  <2>3. RunTypeOK'
    BY <1>16 DEF Chown, Goto, Stage, DevOpen, Exited, RunTypeOK, runVars
  <2>4. HandlesOK'
    BY <1>16 DEF Chown, Goto, DevOpen, RunTypeOK, HandlesOK, runVars
  <2>5. faults' \in 0..MaxFaults
    BY <1>16, RunAssumption DEF Chown, Fault, Fails
  <2> QED
    BY <2>1, <2>2, <2>3, <2>4, <2>5
<1>17. CASE UMount(r)
  <2>1. KernelTypeOK'
    BY <1>17, DetachTypes DEF UMount, IsDirMountPoint, kernelVars, KernelTypeOK
  <2>2. DiskTypeOK'
    BY <1>17 DEF UMount, diskVars, DiskTypeOK
  <2>3. RunTypeOK'
    BY <1>17 DEF UMount, Goto, Stage, DevOpen, Exited, RunTypeOK, runVars
  <2>4. HandlesOK'
    BY <1>17 DEF UMount, Goto, DevOpen, RunTypeOK, HandlesOK, runVars
  <2>5. faults' \in 0..MaxFaults
    BY <1>17, RunAssumption DEF UMount, Fault, Fails
  <2> QED
    BY <2>1, <2>2, <2>3, <2>4, <2>5
<1>18. CASE Remove(r)
  <2>1. KernelTypeOK'
    BY <1>18 DEF Remove, kernelVars, KernelTypeOK
  <2>2. DiskTypeOK'
    BY <1>0, <1>18 DEF Remove, DiskTypeOK, Inode
  <2>3. RunTypeOK'
    BY <1>18 DEF Remove, Goto, Stage, DevOpen, Exited, RunTypeOK, runVars
  <2>4. HandlesOK'
    BY <1>18 DEF Remove, Goto, DevOpen, RunTypeOK, HandlesOK, runVars
  <2>5. faults' \in 0..MaxFaults
    BY <1>18, RunAssumption DEF Remove, Fault, Fails
  <2> QED
    BY <2>1, <2>2, <2>3, <2>4, <2>5
<1>19. CASE Kill(r)
  <2>1. KernelTypeOK'
    <3>1. CASE pc[r] \in DevOpen
      BY <1>19, <3>1, DeviceTypes DEF Kill, HandlesOK
    <3>2. CASE pc[r] \notin DevOpen
      BY <1>19, <3>2 DEF Kill, kernelVars, KernelTypeOK
    <3> QED
      BY <3>1, <3>2
  <2>2. DiskTypeOK'
    BY <1>19 DEF Kill, diskVars, DiskTypeOK
  <2>3. RunTypeOK'
    BY <1>19 DEF Kill, Goto, Stage, DevOpen, Exited, RunTypeOK, runVars
  <2>4. HandlesOK'
    BY <1>19 DEF Kill, Goto, DevOpen, RunTypeOK, HandlesOK, runVars
  <2>5. faults' \in 0..MaxFaults
    BY <1>19, RunAssumption DEF Kill, Fault, Fails
  <2> QED
    BY <2>1, <2>2, <2>3, <2>4, <2>5
<1> QED
  BY <1>1, <1>2, <1>3, <1>4, <1>5, <1>6, <1>7, <1>8, <1>9, <1>10, <1>11, <1>12, <1>13, <1>14, <1>15, <1>16, <1>17, <1>18, <1>19
     DEF Step

\* The state is well typed in every reachable state: descriptors and device
\* numbers that a run uses are ones it opened, the size of a block fits.
THEOREM TypeCorrect == Spec => []TypeOK
<1>1. Init => TypeOK
  BY NullAssumption, RunAssumption
     DEF Init, TypeOK, KernelInit, KernelTypeOK, DiskTypeOK, RunTypeOK, HandlesOK,
         Mount, Perm, OnDisk, Stage, DevOpen, Exited
<1>2. TypeOK /\ [Next]_vars => TypeOK'
  <2> SUFFICES ASSUME TypeOK, [Next]_vars PROVE TypeOK'
    OBVIOUS
  <2>1. CASE \E r \in Run : Step(r) \/ Kill(r)
    BY <2>1, TypeStep
  <2>2. CASE UNCHANGED vars
    BY <2>2 DEF vars, kernelVars, diskVars, runVars, TypeOK, KernelTypeOK,
                DiskTypeOK, RunTypeOK, HandlesOK
  <2> QED
    BY <2>1, <2>2 DEF Next, AllExited
<1> QED
  BY <1>1, <1>2, PTL DEF Spec

-----------------------------------------------------------------------------
(* Mounts *)

\* A mounted device is bound, and the kernel lists it by an absolute path,
\* which is not the path VFSUMount looks for.
MountsInv == \A i \in 1..Len(mtab) : /\ backing[mtab[i].dev] # NoRun
                                     /\ mtab[i].dir = MountedAs(ShareDir)

\* What a call of run r may do to the mount table and to bound devices.
MountsKept(r) ==
  /\ \A d \in Dev : Mounted(d) => backing'[d] = backing[d]
  /\ \/ mtab' = mtab
     \/ \E d \in Dev : /\ pc[r] = "mount"
                       /\ dev[r] = d
                       /\ backing[d] # NoRun
                       /\ MountLoop(r, d, ShareDir)

\* No call on a loop device touches one that is mounted.
LEMMA DeviceKeepsMounts ==
  ASSUME KernelTypeOK, MountsInv, NEW d \in Dev, NEW inode \in Run, NEW S,
         \/ LoopSetFd(d, inode) \/ LoopSetStatus(d)
         \/ LoopClrFd(d, S) \/ CloseLoop(d, S)
  PROVE  mtab' = mtab /\ \A e \in Dev : Mounted(e) => backing'[e] = backing[e]
<1>1. CASE LoopSetFd(d, inode)
  <2>1. ~Mounted(d)
    BY <1>1 DEF LoopSetFd, Mounted, MountsInv
  <2> QED
    BY <1>1, <2>1 DEF LoopSetFd, KernelTypeOK
<1>2. CASE LoopSetStatus(d)
  BY <1>2 DEF LoopSetStatus
<1>3. CASE LoopClrFd(d, S)
  BY <1>3 DEF LoopClrFd, Teardown, KernelTypeOK
<1>4. CASE CloseLoop(d, S)
  BY <1>4 DEF CloseLoop, Teardown, KernelTypeOK
<1> QED
  BY <1>1, <1>2, <1>3, <1>4

\* VFSUMount never finds its directory in the mount table.
LEMMA NeverUnmounts ==
  ASSUME MountsInv, NEW r \in Run, UMount(r)
  PROVE  UNCHANGED kernelVars
<1>1. MountedAs(ShareDir) # ShareDir
  BY DEF MountedAs, ShareDir
<1> QED
  BY <1>1 DEF UMount, IsDirMountPoint, MountsInv

\* No call of the program takes a mount away or its device apart.
LEMMA MountsStep ==
  ASSUME TypeOK, MountsInv, NEW r \in Run, Step(r) \/ Kill(r)
  PROVE  MountsKept(r)
<1> USE DEF MountsKept
<1>1. CASE ParseArgs(r)
  BY <1>1 DEF ParseArgs, kernelVars
<1>2. CASE Access(r)
  BY <1>2 DEF Access, kernelVars
<1>3. CASE Creat(r)
  BY <1>3 DEF Creat, kernelVars
<1>4. CASE Ftruncate(r)
  BY <1>4 DEF Ftruncate, kernelVars
<1>5. CASE Mkfs(r)
  BY <1>5 DEF Mkfs, kernelVars
<1>6. CASE LoopdevFindUnused(r)
  BY <1>6 DEF LoopdevFindUnused, kernelVars
<1>7. CASE OpenFile(r)
  BY <1>7 DEF OpenFile, kernelVars
<1>8. CASE OpenDev(r)
  BY <1>8 DEF OpenDev, kernelVars
<1>9. CASE SetFd(r)
  BY <1>9, DeviceKeepsMounts DEF SetFd, TypeOK, HandlesOK, DevOpen, kernelVars
<1>10. CASE SetStatus(r)
  BY <1>10, DeviceKeepsMounts DEF SetStatus, TypeOK, HandlesOK, DevOpen, kernelVars
<1>11. CASE CloseDev(r)
  BY <1>11, DeviceKeepsMounts DEF CloseDev, TypeOK, HandlesOK, DevOpen, kernelVars
<1>12. CASE ClrFd(r)
  BY <1>12, DeviceKeepsMounts DEF ClrFd, TypeOK, HandlesOK, DevOpen, kernelVars
<1>13. CASE CloseAfterError(r)
  BY <1>13, DeviceKeepsMounts DEF CloseAfterError, TypeOK, HandlesOK, DevOpen, kernelVars
<1>14. CASE MountDev(r)
  BY <1>14 DEF MountDev, MountLoop, TypeOK, HandlesOK, kernelVars
<1>15. CASE Chmod(r)
  BY <1>15 DEF Chmod, SetTopRoot, kernelVars
<1>16. CASE Chown(r)
  BY <1>16 DEF Chown, SetTopRoot, kernelVars
<1>17. CASE UMount(r)
  BY <1>17, NeverUnmounts DEF kernelVars
<1>18. CASE Remove(r)
  BY <1>18 DEF Remove, kernelVars
<1>19. CASE Kill(r)
  <2>1. CASE pc[r] \in DevOpen
    BY <1>19, <2>1, DeviceKeepsMounts DEF Kill, TypeOK, HandlesOK
  <2>2. CASE pc[r] \notin DevOpen
    BY <1>19, <2>2 DEF Kill, kernelVars
  <2> QED
    BY <2>1, <2>2
<1> QED
  BY <1>1, <1>2, <1>3, <1>4, <1>5, <1>6, <1>7, <1>8, <1>9, <1>10, <1>11, <1>12, <1>13, <1>14, <1>15, <1>16, <1>17, <1>18, <1>19
     DEF Step

LEMMA MountsInvStep ==
  ASSUME TypeOK, MountsInv, NEW r \in Run, MountsKept(r)
  PROVE  MountsInv'
<1>1. \A i \in 1..Len(mtab) : mtab[i] \in Mount /\ Mounted(mtab[i].dev)
  BY DEF TypeOK, KernelTypeOK, Mounted
<1>2. CASE mtab' = mtab
  BY <1>1, <1>2 DEF MountsKept, MountsInv, Mount
<1>3. CASE \E d \in Dev : backing[d] # NoRun /\ MountLoop(r, d, ShareDir)
  <2> PICK d \in Dev : backing[d] # NoRun /\ MountLoop(r, d, ShareDir)
    BY <1>3
  <2>1. backing' = backing
    BY DEF MountLoop
  <2> DEFINE new == [dir |-> MountedAs(ShareDir), dev |-> d, by |-> r]
  <2>2. mtab' = Append(mtab, new)
    BY DEF MountLoop
  <2>3. /\ Len(mtab') = Len(mtab) + 1
        /\ \A i \in 1..Len(mtab) : mtab'[i] = mtab[i]
        /\ mtab'[Len(mtab) + 1] = new
    BY <2>2 DEF TypeOK, KernelTypeOK
  <2> QED
    BY <2>1, <2>3 DEF MountsInv, TypeOK, KernelTypeOK
<1> QED
  BY <1>2, <1>3 DEF MountsKept

\* Every mounted device is bound, in every reachable state.
LEMMA MountsInvariant == Spec => []MountsInv
<1>1. Init => MountsInv
  BY DEF Init, KernelInit, MountsInv
<1>2. TypeOK /\ MountsInv /\ [Next]_vars => MountsInv'
  <2> SUFFICES ASSUME TypeOK, MountsInv, [Next]_vars PROVE MountsInv'
    OBVIOUS
  <2>1. CASE \E r \in Run : Step(r) \/ Kill(r)
    BY <2>1, MountsStep, MountsInvStep
  <2>2. CASE UNCHANGED vars
    BY <2>2 DEF vars, kernelVars, MountsInv
  <2> QED
    BY <2>1, <2>2 DEF Next, AllExited
<1> QED
  BY <1>1, <1>2, TypeCorrect, PTL DEF Spec

\* A mounted block stays mounted on its device, whatever the runs that lose
\* the race for a device or fail to hand over the directory clean up.
THEOREM MountsSurvive == Spec => MountSurvives
<1>1. ASSUME TypeOK, MountsInv, [Next]_vars, NEW d \in Dev, Mounted(d)
      PROVE  Mounted(d)' /\ backing'[d] = backing[d]
  <2>1. CASE \E r \in Run : Step(r) \/ Kill(r)
    <3> PICK r \in Run : MountsKept(r)
      BY <1>1, <2>1, MountsStep
    <3>1. CASE mtab' = mtab
      BY <1>1, <3>1 DEF MountsKept, Mounted
    <3>2. CASE \E e \in Dev : MountLoop(r, e, ShareDir)
      <4>1. /\ Len(mtab') = Len(mtab) + 1
            /\ \A i \in 1..Len(mtab) : mtab'[i] = mtab[i]
        BY <1>1, <3>2 DEF MountLoop, TypeOK, KernelTypeOK
      <4>2. Len(mtab) \in Nat
        BY <1>1 DEF TypeOK, KernelTypeOK
      <4> QED
        BY <1>1, <4>1, <4>2 DEF MountsKept, Mounted
    <3> QED
      BY <3>1, <3>2 DEF MountsKept
  <2>2. CASE UNCHANGED vars
    BY <1>1, <2>2 DEF vars, kernelVars, Mounted
  <2> QED
    BY <1>1, <2>1, <2>2 DEF Next, AllExited
<1>2. TypeOK /\ MountsInv /\ [Next]_vars
        => [\A d \in Dev : Mounted(d) => Mounted(d)' /\ backing'[d] = backing[d]]_vars
  BY <1>1
<1> QED
  BY <1>2, TypeCorrect, MountsInvariant, PTL DEF Spec, MountSurvives

-----------------------------------------------------------------------------
(* Success and failure *)

Published == {"chmod", "chown", "ok"}
Over == {"umount", "remove", "fail", "killed"}

\* Program points and mounts go together: after the mount call and until
\* success a run has its mount, before it the run has none, and a run whose
\* mount call failed is on its way out.
PointsInv == \A r \in Run : /\ pc[r] \in Published => MountedBy(r)
                            /\ MountedBy(r) => pc[r] \in Published \cup Over
                            /\ nm_res[r] = -2 => pc[r] \in {"remove", "fail", "killed"}

\* Where a call of r may take r.
LEMMA PointsStep ==
  ASSUME TypeOK, MountsInv, PointsInv, NEW r \in Run, Step(r) \/ Kill(r)
  PROVE  /\ \A q \in Run \ {r} : pc'[q] = pc[q] /\ nm_res'[q] = nm_res[q]
         /\ nm_res'[r] = -2 => pc'[r] \in {"remove", "fail", "killed"}
         /\ pc[r] # "mount" => /\ mtab' = mtab
                               /\ pc'[r] \in Published => pc[r] \in Published
                               /\ pc[r] \in Published \cup Over
                                    => pc'[r] \in Published \cup Over
         /\ pc[r] = "mount" => \/ mtab' = mtab /\ pc'[r] \in Over
                               \/ /\ pc'[r] = "chmod"
                                  /\ \E d \in Dev : MountLoop(r, d, ShareDir)
<1> USE DEF TypeOK, RunTypeOK, PointsInv, Published, Over
<1>1. CASE ParseArgs(r)
  BY <1>1 DEF ParseArgs, Goto, kernelVars, runVars
<1>2. CASE Access(r)
  BY <1>2 DEF Access, Goto, kernelVars, runVars
<1>3. CASE Creat(r)
  BY <1>3 DEF Creat, Goto, kernelVars, runVars
<1>4. CASE Ftruncate(r)
  BY <1>4 DEF Ftruncate, Goto, kernelVars, runVars
<1>5. CASE Mkfs(r)
  BY <1>5 DEF Mkfs, Goto, kernelVars, runVars
<1>6. CASE LoopdevFindUnused(r)
  BY <1>6 DEF LoopdevFindUnused, Goto, MountFails, kernelVars, runVars
<1>7. CASE OpenFile(r)
  BY <1>7 DEF OpenFile, Goto, MountFails, kernelVars, runVars
<1>8. CASE OpenDev(r)
  BY <1>8 DEF OpenDev, Goto, MountFails, kernelVars, runVars
<1>9. CASE SetFd(r)
  BY <1>9 DEF SetFd, Goto, LoopSetFd, kernelVars, runVars
<1>10. CASE SetStatus(r)
  BY <1>10 DEF SetStatus, Goto, LoopSetStatus, kernelVars, runVars
<1>11. CASE CloseDev(r)
  BY <1>11 DEF CloseDev, Goto, CloseLoop, kernelVars, runVars
<1>12. CASE ClrFd(r)
  BY <1>12 DEF ClrFd, Goto, LoopClrFd, kernelVars, runVars
<1>13. CASE CloseAfterError(r)
  BY <1>13 DEF CloseAfterError, Goto, MountFails, CloseLoop, kernelVars, runVars
<1>14. CASE MountDev(r)
  BY <1>14 DEF MountDev, Goto, MountFails, HandlesOK, kernelVars, runVars
<1>15. CASE Chmod(r)
  BY <1>15 DEF Chmod, Goto, SetTopRoot, kernelVars, runVars
<1>16. CASE Chown(r)
  BY <1>16 DEF Chown, Goto, SetTopRoot, kernelVars, runVars
<1>17. CASE UMount(r)
  BY <1>17, NeverUnmounts DEF UMount, Goto, kernelVars, runVars
<1>18. CASE Remove(r)
  BY <1>18 DEF Remove, Goto, kernelVars, runVars
<1>19. CASE Kill(r)
  BY <1>19 DEF Kill, Goto, CloseLoop, DevOpen, Exited, kernelVars, runVars
<1> QED
  BY <1>1, <1>2, <1>3, <1>4, <1>5, <1>6, <1>7, <1>8, <1>9, <1>10, <1>11, <1>12, <1>13, <1>14, <1>15, <1>16, <1>17, <1>18, <1>19
     DEF Step

LEMMA PointsInvStep ==
  ASSUME TypeOK, MountsInv, PointsInv, NEW r \in Run, Step(r) \/ Kill(r)
  PROVE  PointsInv'
<1>1. CASE mtab' = mtab
  <2>1. \A q \in Run : MountedBy(q)' <=> MountedBy(q)
    BY <1>1 DEF MountedBy
  <2>2. pc[r] = "mount" => pc'[r] \in Over
    <3> SUFFICES ASSUME pc[r] = "mount", \E d \in Dev : MountLoop(r, d, ShareDir)
                 PROVE  FALSE
      BY PointsStep
    <3>1. Len(mtab') = Len(mtab) + 1 /\ Len(mtab) \in Nat
      BY DEF MountLoop, TypeOK, KernelTypeOK
    <3> QED
      BY <1>1, <3>1
  <2> QED
    BY <1>1, <2>1, <2>2, PointsStep DEF PointsInv, Published, Over
<1>2. CASE /\ pc[r] = "mount" /\ pc'[r] = "chmod"
           /\ \E d \in Dev : MountLoop(r, d, ShareDir)
  <2>1. \A q \in Run : MountedBy(q)' <=> (MountedBy(q) \/ q = r)
    <3> PICK d \in Dev : MountLoop(r, d, ShareDir)
      BY <1>2
    <3>1. /\ Len(mtab) \in Nat
          /\ Len(mtab') = Len(mtab) + 1
          /\ \A i \in 1..Len(mtab) : mtab'[i] = mtab[i]
          /\ mtab'[Len(mtab) + 1].by = r
      BY DEF MountLoop, TypeOK, KernelTypeOK
    <3> QED
      BY <3>1 DEF MountedBy
  <2> QED
    BY <1>2, <2>1, PointsStep DEF PointsInv, Published, Over
<1> QED
  BY <1>1, <1>2, PointsStep

LEMMA PointsInvariant == Spec => []PointsInv
<1>1. Init => PointsInv
  <2> SUFFICES ASSUME Init, NEW r \in Run
               PROVE  /\ pc[r] = "parse" /\ nm_res[r] # -2
                      /\ ~MountedBy(r)
    BY DEF PointsInv, Published
  <2> QED
    BY DEF Init, KernelInit, MountedBy
<1>2. TypeOK /\ MountsInv /\ PointsInv /\ [Next]_vars => PointsInv'
  <2> SUFFICES ASSUME TypeOK, MountsInv, PointsInv, [Next]_vars PROVE PointsInv'
    OBVIOUS
  <2>1. CASE \E r \in Run : Step(r) \/ Kill(r)
    BY <2>1, PointsInvStep
  <2>2. CASE UNCHANGED vars
    BY <2>2 DEF vars, kernelVars, runVars, PointsInv, MountedBy
  <2> QED
    BY <2>1, <2>2 DEF Next, AllExited
<1> QED
  BY <1>1, <1>2, TypeCorrect, MountsInvariant, PTL DEF Spec

\* A run that exits 0 has its own mount, on a device that is still bound.
THEOREM OkRunsAreMounted == Spec => []OkRunIsMounted
<1>1. MountsInv /\ PointsInv => OkRunIsMounted
  BY DEF MountsInv, PointsInv, Published, MountedBy, OkRunIsMounted
<1> QED
  BY <1>1, MountsInvariant, PointsInvariant, PTL

-----------------------------------------------------------------------------
(* Loop devices left behind *)

\* A run that answers for a bound device until it mounts it or for good.
Keeps(r, d) == /\ dev[r] = d
               /\ \/ pc[r] \in {"set_status", "close_dev", "clr_fd", "mount", "killed"}
                  \/ nm_res[r] = -2

\* A bound device that is not mounted has such a run, or goes away by itself
\* when the last of the runs that have it open closes it.
LeakInv ==
  \A d \in Dev : backing[d] # NoRun /\ ~Mounted(d) =>
    \/ \E r \in Run : Keeps(r, d)
    \/ autoclear[d] /\ \E r \in Run : dev[r] = d /\ pc[r] \in DevOpen

LEMMA LeakInvStep ==
  ASSUME TypeOK, MountsInv, PointsInv, LeakInv, NEW r \in Run, Step(r) \/ Kill(r)
  PROVE  LeakInv'
<1> SUFFICES ASSUME NEW d \in Dev, backing'[d] # NoRun, ~Mounted(d)'
             PROVE  \/ \E q \in Run : Keeps(q, d)'
                    \/ autoclear'[d] /\ \E q \in Run : dev'[q] = d /\ pc'[q] \in DevOpen
  BY DEF LeakInv
<1>a. ~Mounted(d)
  <2>1. MountsKept(r)
    BY MountsStep
  <2>2. CASE mtab' = mtab
    BY <2>2 DEF Mounted
  <2>3. CASE \E e \in Dev : MountLoop(r, e, ShareDir)
    <3>1. /\ Len(mtab) \in Nat
          /\ Len(mtab') = Len(mtab) + 1
          /\ \A i \in 1..Len(mtab) : mtab'[i] = mtab[i]
      BY <2>3 DEF MountLoop, TypeOK, KernelTypeOK
    <3> QED
      BY <3>1 DEF Mounted
  <2> QED
    BY <2>1, <2>2, <2>3 DEF MountsKept
<1>b. backing[d] # NoRun => \/ \E q \in Run : Keeps(q, d)
                            \/ autoclear[d] /\ \E q \in Run : dev[q] = d /\ pc[q] \in DevOpen
  BY <1>a DEF LeakInv
<1> HIDE DEF LeakInv
<1> USE DEF TypeOK, KernelTypeOK, RunTypeOK, Keeps, DevOpen
<1>1. CASE ParseArgs(r)
  BY <1>a, <1>b, <1>1 DEF ParseArgs, Goto, kernelVars, runVars, PointsInv
<1>2. CASE Access(r)
  BY <1>a, <1>b, <1>2 DEF Access, Goto, kernelVars, runVars, PointsInv
<1>3. CASE Creat(r)
  BY <1>a, <1>b, <1>3 DEF Creat, Goto, kernelVars, runVars, PointsInv
<1>4. CASE Ftruncate(r)
  BY <1>a, <1>b, <1>4 DEF Ftruncate, Goto, kernelVars, runVars, PointsInv
<1>5. CASE Mkfs(r)
  BY <1>a, <1>b, <1>5 DEF Mkfs, Goto, kernelVars, runVars, PointsInv
<1>6. CASE LoopdevFindUnused(r)
  BY <1>a, <1>b, <1>6 DEF LoopdevFindUnused, Goto, MountFails, kernelVars, runVars, PointsInv
<1>7. CASE OpenFile(r)
  BY <1>a, <1>b, <1>7 DEF OpenFile, Goto, MountFails, kernelVars, runVars, PointsInv
<1>8. CASE OpenDev(r)
  BY <1>a, <1>b, <1>8 DEF OpenDev, Goto, MountFails, kernelVars, runVars, PointsInv
<1>9. CASE SetFd(r)
  BY <1>a, <1>b, <1>9 DEF SetFd, Goto, LoopSetFd, kernelVars, runVars, PointsInv
<1>10. CASE SetStatus(r)
  BY <1>a, <1>b, <1>10 DEF SetStatus, Goto, LoopSetStatus, kernelVars, runVars, PointsInv
<1>11. CASE CloseDev(r)
  BY <1>a, <1>b, <1>11 DEF CloseDev, Goto, CloseLoop, Teardown, OtherOpeners, kernelVars, runVars, PointsInv
<1>12. CASE ClrFd(r)
  BY <1>a, <1>b, <1>12 DEF ClrFd, Goto, LoopClrFd, Teardown, OtherOpeners, kernelVars, runVars, PointsInv
<1>13. CASE CloseAfterError(r)
  BY <1>a, <1>b, <1>13 DEF CloseAfterError, Goto, MountFails, CloseLoop, Teardown, OtherOpeners, kernelVars, runVars, PointsInv
<1>14. CASE MountDev(r)
  <2>1. CASE MountLoop(r, dev[r], ShareDir)
    <3>1. Mounted(dev[r])'
      <4>1. /\ Len(mtab) \in Nat
            /\ Len(mtab') = Len(mtab) + 1
            /\ mtab'[Len(mtab) + 1].dev = dev[r]
        BY <2>1 DEF MountLoop
      <4>2. UNCHANGED dev
        BY <1>14 DEF MountDev
      <4> QED
        BY <4>1, <4>2 DEF Mounted
    <3>2. dev[r] # d
      BY <1>14, <3>1 DEF MountDev, Mounted
    <3> QED
      BY <1>b, <1>14, <2>1, <3>2 DEF MountDev, Goto, MountFails, MountLoop
  <2>2. CASE MountFails(r, -2) /\ UNCHANGED <<kernelVars, dev>>
    BY <1>a, <1>b, <2>2 DEF Goto, MountFails, kernelVars, PointsInv
  <2> QED
    BY <1>14, <2>1, <2>2 DEF MountDev
<1>15. CASE Chmod(r)
  BY <1>a, <1>b, <1>15 DEF Chmod, Goto, SetTopRoot, kernelVars, runVars, PointsInv
<1>16. CASE Chown(r)
  BY <1>a, <1>b, <1>16 DEF Chown, Goto, SetTopRoot, kernelVars, runVars, PointsInv
<1>17. CASE UMount(r)
  BY <1>a, <1>b, <1>17, NeverUnmounts DEF UMount, Goto, kernelVars, runVars, PointsInv
<1>18. CASE Remove(r)
  BY <1>a, <1>b, <1>18 DEF Remove, Goto, kernelVars, runVars, PointsInv
<1>19. CASE Kill(r)
  BY <1>a, <1>b, <1>19 DEF Kill, Goto, CloseLoop, Teardown, OtherOpeners, Exited, kernelVars, runVars, PointsInv
<1> QED
  BY <1>1, <1>2, <1>3, <1>4, <1>5, <1>6, <1>7, <1>8, <1>9, <1>10, <1>11, <1>12, <1>13, <1>14, <1>15, <1>16, <1>17, <1>18, <1>19
     DEF Step

\* A device that is bound and not mounted belongs to a run that still works
\* on it, was killed, or failed to mount it: the races for a device leave
\* nothing behind.
THEOREM LeaksAccounted == Spec => []LeakAccounted
<1>1. Init => LeakInv
  BY DEF Init, KernelInit, LeakInv
<1>2. TypeOK /\ MountsInv /\ PointsInv /\ LeakInv /\ [Next]_vars => LeakInv'
  <2> SUFFICES ASSUME TypeOK, MountsInv, PointsInv, LeakInv, [Next]_vars PROVE LeakInv'
    OBVIOUS
  <2>1. CASE \E r \in Run : Step(r) \/ Kill(r)
    BY <2>1, LeakInvStep
  <2>2. CASE UNCHANGED vars
    BY <2>2 DEF vars, kernelVars, runVars, LeakInv, Keeps, Mounted
  <2> QED
    BY <2>1, <2>2 DEF Next, AllExited
<1>3. LeakInv => LeakAccounted
  BY DEF LeakInv, LeakAccounted, Keeps, DevOpen
<1> QED
  BY <1>1, <1>2, <1>3, TypeCorrect, MountsInvariant, PointsInvariant, PTL DEF Spec

-----------------------------------------------------------------------------
(* HSSPublication *)

Entry == [by : Run, inode : Run \cup {NoRun}]

\* A table of mounts and a binding of devices give a sequence of entries.
LEMMA ServedSeq ==
  ASSUME NEW m \in Seq(Mount), NEW b \in [Dev -> Run \cup {NoRun}]
  PROVE  LET s == [i \in 1..Len(m) |-> [by |-> m[i].by, inode |-> b[m[i].dev]]]
         IN  s \in Seq(Entry) /\ Len(s) = Len(m)
<1> DEFINE s == [i \in 1..Len(m) |-> [by |-> m[i].by, inode |-> b[m[i].dev]]]
<1>1. Len(m) \in Nat /\ \A i \in 1..Len(m) : m[i] \in Mount
  OBVIOUS
<1>2. \A i \in 1..Len(m) : m[i].by \in Run /\ b[m[i].dev] \in Run \cup {NoRun}
  BY <1>1 DEF Mount
<1>3. s \in [1..Len(m) -> Entry]
  BY <1>2 DEF Entry
<1>4. s \in Seq(Entry)
  BY <1>1, <1>3, SeqDef
<1>5. 1..Len(s) = 1..Len(m) /\ Len(s) \in Nat
  BY <1>3, <1>4, LenProperties
<1>6. Len(s) = Len(m)
  BY <1>1, <1>5
<1> QED
  BY <1>4, <1>6

\* What was served stays, and a mount adds one entry.
LEMMA ServedStep ==
  ASSUME TypeOK, TypeOK', MountsInv, NEW r \in Run, Step(r) \/ Kill(r)
  PROVE  /\ mtab' = mtab => Served' = Served
         /\ \A d \in Dev : MountLoop(r, d, ShareDir) =>
              Served' = Append(Served, [by |-> r, inode |-> backing[d]])
<1>1. Served \in Seq(Entry) /\ Len(Served) = Len(mtab)
  BY ServedSeq DEF Served, TypeOK, KernelTypeOK
<1>2. Served' \in Seq(Entry) /\ Len(Served') = Len(mtab')
  <2>1. mtab' \in Seq(Mount) /\ backing' \in [Dev -> Run \cup {NoRun}]
    BY DEF TypeOK, KernelTypeOK
  <2> QED
    BY <2>1, ServedSeq DEF Served
<1>3. \A i \in 1..Len(mtab) : backing'[mtab[i].dev] = backing[mtab[i].dev]
  <2>1. \A i \in 1..Len(mtab) : mtab[i] \in Mount /\ Mounted(mtab[i].dev)
    BY DEF TypeOK, KernelTypeOK, Mounted
  <2> QED
    BY <2>1, MountsStep DEF MountsKept, Mount
<1>4. ASSUME mtab' = mtab PROVE Served' = Served
  BY <1>3, <1>4 DEF Served
<1>5. ASSUME NEW d \in Dev, MountLoop(r, d, ShareDir)
      PROVE  Served' = Append(Served, [by |-> r, inode |-> backing[d]])
  <2> DEFINE e == [by |-> r, inode |-> backing[d]]
             n == Len(mtab)
  <2>1. e \in Entry
    BY DEF Entry, TypeOK, KernelTypeOK
  <2>2. /\ n \in Nat
        /\ Len(mtab') = n + 1
        /\ \A i \in 1..n : mtab'[i] = mtab[i]
        /\ mtab'[n + 1].by = r /\ mtab'[n + 1].dev = d
        /\ backing' = backing
    BY <1>5 DEF MountLoop, TypeOK, KernelTypeOK
  <2>3. /\ Append(Served, e) \in Seq(Entry)
        /\ Len(Append(Served, e)) = n + 1
        /\ \A i \in 1..n : Append(Served, e)[i] = Served[i]
        /\ Append(Served, e)[n + 1] = e
    BY <1>1, <2>1
  <2>4. \A i \in 1..n : Served'[i] = Append(Served, e)[i]
    BY <2>2, <2>3 DEF Served
  <2>5. Served'[n + 1] = Append(Served, e)[n + 1]
    BY <2>2, <2>3 DEF Served
  <2> HIDE DEF e
  <2>6. ASSUME NEW i \in 1..n + 1 PROVE Served'[i] = Append(Served, e)[i]
    <3>1. i \in 1..n \/ i = n + 1
      BY <2>2
    <3> QED
      BY <3>1, <2>4, <2>5
  <2> QED
    BY <1>2, <2>2, <2>3, <2>6, SeqEqual DEF e
<1> QED
  BY <1>4, <1>5

\* A call moves the program counter of the run that makes it and no other.
LEMMA OnePcMoves ==
  ASSUME TypeOK, NEW r \in Run, Step(r) \/ Kill(r)
  PROVE  pc[r] \notin Exited /\ pc' = [pc EXCEPT ![r] = pc'[r]]
<1>1. pc \in [Run -> Stage]
  BY DEF TypeOK, RunTypeOK
<1>2. pc[r] \notin Exited /\ \E stage : Goto(r, stage)
  BY DEF Step, ParseArgs, Access, Creat, Ftruncate, Mkfs, LoopdevFindUnused,
         OpenFile, OpenDev, SetFd, SetStatus, CloseDev, ClrFd, CloseAfterError,
         MountDev, Chmod, Chown, UMount, Remove, Kill, MountFails, Exited
<1> QED
  BY <1>1, <1>2 DEF Goto

\* A call of r maps to a step of HSSPublication or to none.
LEMMA PublicationStep ==
  ASSUME TypeOK, TypeOK', MountsInv, PointsInv, PointsInv',
         NEW r \in Run, Step(r) \/ Kill(r)
  PROVE  Publication!Next \/ UNCHANGED Publication!vars
<1> USE DEF Publication!Next, Publication!Publish, Publication!Succeed,
            Publication!Fail, Publication!Kill, Publication!End, Publication!vars
<1>1. Publication!HasPublished(r) <=> MountedBy(r)
  <2>1. Len(Served) = Len(mtab)
    BY ServedSeq DEF TypeOK, KernelTypeOK, Served
  <2> QED
    BY <2>1 DEF Served, Publication!HasPublished, MountedBy
<1>2. Outcome[r] = "running"
  BY OnePcMoves DEF Outcome
<1>3. pc'[r] \notin Exited => Outcome' = Outcome
  BY OnePcMoves DEF Outcome, TypeOK, RunTypeOK
<1>4. pc'[r] \in Exited => Outcome' = [Outcome EXCEPT ![r] = pc'[r]]
  BY OnePcMoves DEF Outcome, TypeOK, RunTypeOK
<1>5. CASE mtab' = mtab
  <2>1. Served' = Served
    BY <1>5, ServedStep
  <2>2. CASE pc'[r] \notin Exited
    BY <2>1, <2>2, <1>3
  <2>3. CASE pc'[r] = "ok"
    <3>1. MountedBy(r)
      BY <1>5, <2>3 DEF PointsInv, Published, MountedBy
    <3> QED
      BY <3>1, <2>1, <2>3, <1>1, <1>2, <1>4 DEF Exited
  <2>4. CASE pc'[r] \in {"fail", "killed"}
    BY <2>1, <2>4, <1>2, <1>4 DEF Exited
  <2> QED
    BY <2>2, <2>3, <2>4 DEF Exited
<1>6. CASE \E d \in Dev : /\ pc[r] = "mount" /\ dev[r] = d /\ backing[d] # NoRun
                          /\ MountLoop(r, d, ShareDir)
  <2> PICK d \in Dev : /\ pc[r] = "mount" /\ backing[d] # NoRun
                       /\ MountLoop(r, d, ShareDir)
    BY <1>6
  <2>1. ~Publication!HasPublished(r)
    BY <1>1 DEF PointsInv, Published, Over
  <2>2. backing[d] \in Run
    BY DEF TypeOK, KernelTypeOK
  <2>3. Served' = Append(Served, [by |-> r, inode |-> backing[d]])
    BY ServedStep
  <2>4. pc'[r] \notin Exited
    <3>1. mtab' # mtab
      <4>1. Len(mtab') = Len(mtab) + 1 /\ Len(mtab) \in Nat
        BY DEF MountLoop, TypeOK, KernelTypeOK
      <4> QED
        BY <4>1
    <3> QED
      BY <3>1, PointsStep DEF Exited
  <2> QED
    BY <1>2, <1>3, <2>1, <2>2, <2>3, <2>4
<1> QED
  BY <1>5, <1>6, MountsStep DEF MountsKept

\* Any number of runs on any number of devices implements HSSPublication.
THEOREM RunsPublish == Spec => ImplementsPublication
<1>1. Init => Publication!Init
  <2> SUFFICES ASSUME Init PROVE Served = <<>> /\ Outcome = [r \in Run |-> "running"]
    BY DEF Publication!Init
  <2>1. Served = <<>>
    BY DEF Init, KernelInit, Served
  <2>2. Outcome = [r \in Run |-> "running"]
    BY DEF Init, Outcome, Exited
  <2> QED
    BY <2>1, <2>2
<1>2. TypeOK /\ TypeOK' /\ MountsInv /\ PointsInv /\ PointsInv' /\ [Next]_vars
        => [Publication!Next]_(Publication!vars)
  <2> SUFFICES ASSUME TypeOK, TypeOK', MountsInv, PointsInv, PointsInv', [Next]_vars
               PROVE  [Publication!Next]_(Publication!vars)
    OBVIOUS
  <2>1. CASE \E r \in Run : Step(r) \/ Kill(r)
    BY <2>1, PublicationStep
  <2>2. CASE UNCHANGED vars
    BY <2>2 DEF vars, kernelVars, Served, Outcome, Publication!vars
  <2> QED
    BY <2>1, <2>2 DEF Next, AllExited
<1> QED
  BY <1>1, <1>2, TypeCorrect, MountsInvariant, PointsInvariant, PTL
     DEF Spec, ImplementsPublication, Publication!Spec

-----------------------------------------------------------------------------
(* Runs with block names of their own *)

Binding == {"set_status", "close_dev", "clr_fd", "clr_close", "mount"}
Made == {"get_free", "open_file", "open_dev", "set_fd"} \cup Binding \cup Published

\* With distinct names a run's block name leads to its own inode or to none,
\* and the run opens no other file.
OwnFiles == \A r \in Run : /\ Inode(r) \in {r, NoRun}
                           /\ file_fd[r] \in {r, NoRun}
                           /\ pc[r] \in {"parse", "access", "creat"} => Inode(r) = NoRun

\* How far the block of a run is at each point of the run.
OwnBlock ==
  \A r \in Run :
    /\ pc[r] \in {"parse", "access", "creat", "ftruncate"} => block[r].gb = 0
    /\ pc[r] = "mkfs" => block[r].gb \in {0, PassedSize(VfsSize(r))}
    /\ pc[r] \in Made => /\ Inode(r) = r
                         /\ block[r] = [gb |-> PassedSize(VfsSize(r)), fmt |-> "xfs"]

\* Only the run that made a block binds it, to the device it was given, and
\* only after mkfs.
OwnDevice ==
  \A d \in Dev : backing[d] # NoRun =>
    /\ dev[backing[d]] = d
    /\ block[backing[d]].fmt = "xfs"
    /\ pc[backing[d]] \in Binding \cup Published \cup Over

OwnInv == OwnFiles /\ OwnBlock /\ OwnDevice

\* Creating the file makes a new inode, the run's own.
LEMMA OwnCreat ==
  ASSUME TypeOK, OwnInv, NEW r \in Run, Creat(r)
  PROVE  \/ /\ dirent' = [dirent EXCEPT ![NameOf[r]] = r]
            /\ block' = [block EXCEPT ![r] = [gb |-> 0, fmt |-> "blank"]]
            /\ file_fd' = [file_fd EXCEPT ![r] = r]
            /\ Goto(r, "ftruncate")
         \/ /\ UNCHANGED <<dirent, block, file_fd>>
            /\ Goto(r, "fail")
<1>1. Inode(r) = NoRun
  BY DEF Creat, OwnInv, OwnFiles
<1> QED
  BY <1>1 DEF Creat

LEMMA OwnFilesStep ==
  ASSUME DistinctNames, TypeOK, OwnInv, NEW r \in Run, Step(r) \/ Kill(r)
  PROVE  OwnFiles'
<1> USE RunAssumption, NullAssumption DEF OwnInv, OwnFiles, Inode, TypeOK, DiskTypeOK, RunTypeOK
<1>0. \A q \in Run : NameOf[q] \in Name /\ (q # r => NameOf[q] # NameOf[r])
  BY DEF Name, DistinctNames
<1>1. CASE ParseArgs(r)
  BY <1>0, <1>1 DEF ParseArgs, Goto, diskVars, runVars
<1>2. CASE Access(r)
  BY <1>0, <1>2 DEF Access, Goto, diskVars, runVars
<1>3. CASE Creat(r)
  BY <1>0, <1>3 DEF Creat, Goto, diskVars, runVars
<1>4. CASE Ftruncate(r)
  BY <1>0, <1>4 DEF Ftruncate, Goto, diskVars, runVars
<1>5. CASE Mkfs(r)
  BY <1>0, <1>5 DEF Mkfs, Goto, diskVars, runVars
<1>6. CASE LoopdevFindUnused(r)
  BY <1>0, <1>6 DEF LoopdevFindUnused, Goto, MountFails, diskVars, runVars
<1>7. CASE OpenFile(r)
  BY <1>0, <1>7 DEF OpenFile, Goto, MountFails, diskVars, runVars
<1>8. CASE OpenDev(r)
  BY <1>0, <1>8 DEF OpenDev, Goto, MountFails, diskVars, runVars
<1>9. CASE SetFd(r)
  BY <1>0, <1>9 DEF SetFd, Goto, diskVars, runVars
<1>10. CASE SetStatus(r)
  BY <1>0, <1>10 DEF SetStatus, Goto, diskVars, runVars
<1>11. CASE CloseDev(r)
  BY <1>0, <1>11 DEF CloseDev, Goto, diskVars, runVars
<1>12. CASE ClrFd(r)
  BY <1>0, <1>12 DEF ClrFd, Goto, diskVars, runVars
<1>13. CASE CloseAfterError(r)
  BY <1>0, <1>13 DEF CloseAfterError, Goto, MountFails, diskVars, runVars
<1>14. CASE MountDev(r)
  BY <1>0, <1>14 DEF MountDev, Goto, MountFails, diskVars, runVars
<1>15. CASE Chmod(r)
  BY <1>0, <1>15 DEF Chmod, Goto, diskVars, runVars
<1>16. CASE Chown(r)
  BY <1>0, <1>16 DEF Chown, Goto, diskVars, runVars
<1>17. CASE UMount(r)
  BY <1>0, <1>17 DEF UMount, Goto, diskVars, runVars
<1>18. CASE Remove(r)
  BY <1>0, <1>18 DEF Remove, Goto, diskVars, runVars
<1>19. CASE Kill(r)
  BY <1>0, <1>19 DEF Kill, Goto, Exited, diskVars, runVars
<1> QED
  BY <1>1, <1>2, <1>3, <1>4, <1>5, <1>6, <1>7, <1>8, <1>9, <1>10, <1>11, <1>12, <1>13, <1>14, <1>15, <1>16, <1>17, <1>18, <1>19
     DEF Step

LEMMA OwnBlockStep ==
  ASSUME DistinctNames, TypeOK, OwnInv, NEW r \in Run, Step(r) \/ Kill(r)
  PROVE  OwnBlock'
<1> USE RunAssumption, NullAssumption
        DEF OwnInv, OwnFiles, OwnBlock, Inode, TypeOK, DiskTypeOK, RunTypeOK, Made, Binding, Published
<1>0. \A q \in Run : NameOf[q] \in Name /\ (q # r => NameOf[q] # NameOf[r])
  BY DEF Name, DistinctNames
<1>1. CASE ParseArgs(r)
  BY <1>0, <1>1 DEF ParseArgs, Goto, diskVars, runVars
<1>2. CASE Access(r)
  BY <1>0, <1>2 DEF Access, Goto, diskVars, runVars
<1>3. CASE Creat(r)
  BY <1>0, <1>3, OwnCreat DEF Creat, Goto
<1>4. CASE Ftruncate(r)
  BY <1>0, <1>4, SizeNat DEF Ftruncate, Goto, diskVars, runVars
<1>5. CASE Mkfs(r)
  BY <1>0, <1>5 DEF Mkfs, Goto, diskVars, runVars
<1>6. CASE LoopdevFindUnused(r)
  BY <1>0, <1>6 DEF LoopdevFindUnused, Goto, MountFails, diskVars, runVars
<1>7. CASE OpenFile(r)
  BY <1>0, <1>7 DEF OpenFile, Goto, MountFails, diskVars, runVars
<1>8. CASE OpenDev(r)
  BY <1>0, <1>8 DEF OpenDev, Goto, MountFails, diskVars, runVars
<1>9. CASE SetFd(r)
  BY <1>0, <1>9 DEF SetFd, Goto, diskVars, runVars
<1>10. CASE SetStatus(r)
  BY <1>0, <1>10 DEF SetStatus, Goto, diskVars, runVars
<1>11. CASE CloseDev(r)
  BY <1>0, <1>11 DEF CloseDev, Goto, diskVars, runVars
<1>12. CASE ClrFd(r)
  BY <1>0, <1>12 DEF ClrFd, Goto, diskVars, runVars
<1>13. CASE CloseAfterError(r)
  BY <1>0, <1>13 DEF CloseAfterError, Goto, MountFails, diskVars, runVars
<1>14. CASE MountDev(r)
  <2>1. UNCHANGED <<dirent, block, file_fd>> /\ pc[r] = "mount"
    BY <1>14 DEF MountDev, diskVars
  <2>2. Goto(r, "chmod") \/ Goto(r, "remove")
    BY <1>14 DEF MountDev, MountFails
  <2> QED
    BY <2>1, <2>2 DEF Goto
<1>15. CASE Chmod(r)
  BY <1>0, <1>15 DEF Chmod, Goto, diskVars, runVars
<1>16. CASE Chown(r)
  BY <1>0, <1>16 DEF Chown, Goto, diskVars, runVars
<1>17. CASE UMount(r)
  BY <1>0, <1>17 DEF UMount, Goto, diskVars, runVars
<1>18. CASE Remove(r)
  <2>1. UNCHANGED <<block, file_fd>> /\ pc[r] = "remove" /\ Goto(r, "fail")
    BY <1>18 DEF Remove, runVars
  <2>2. \A q \in Run \ {r} : Inode(q)' = Inode(q)
    BY <1>0, <1>18 DEF Remove
  <2>3. Inode(r)' \in {Inode(r), NoRun}
    BY <1>0, <1>18 DEF Remove
  <2> QED
    BY <2>1, <2>2, <2>3 DEF Goto
<1>19. CASE Kill(r)
  BY <1>0, <1>19 DEF Kill, Goto, Exited, diskVars, runVars
<1> QED
  BY <1>1, <1>2, <1>3, <1>4, <1>5, <1>6, <1>7, <1>8, <1>9, <1>10, <1>11, <1>12, <1>13, <1>14, <1>15, <1>16, <1>17, <1>18, <1>19
     DEF Step

LEMMA OwnDeviceStep ==
  ASSUME TypeOK, OwnInv, NEW r \in Run, Step(r) \/ Kill(r), MountsInv
  PROVE  OwnDevice'
<1> USE DEF OwnInv, OwnDevice, Over, Published, Binding, TypeOK, KernelTypeOK, RunTypeOK
<1>1. CASE ParseArgs(r)
  BY <1>1 DEF ParseArgs, Goto, kernelVars, diskVars, runVars
<1>2. CASE Access(r)
  BY <1>2 DEF Access, Goto, kernelVars, diskVars, runVars
<1>3. CASE Creat(r)
  <2>1. \A q \in Run \ {r} : block'[q] = block[q] /\ pc'[q] = pc[q]
    <3>1. \A q \in Run \ {r} : block'[q] = block[q]
      BY <1>3, OwnCreat DEF DiskTypeOK
    <3>2. \A q \in Run \ {r} : pc'[q] = pc[q]
      BY <1>3 DEF Creat, Goto
    <3> QED
      BY <3>1, <3>2
  <2>2. pc[r] = "creat" /\ UNCHANGED <<kernelVars, dev>>
    BY <1>3 DEF Creat
  <2> QED
    BY <2>1, <2>2 DEF kernelVars
<1>4. CASE Ftruncate(r)
  BY <1>4 DEF Ftruncate, Goto, OwnFiles, Inode, DiskTypeOK, HandlesOK, kernelVars
<1>5. CASE Mkfs(r)
  <2>1. /\ pc[r] = "mkfs"
        /\ UNCHANGED <<kernelVars, dev>>
        /\ \A q \in Run \ {r} : pc'[q] = pc[q]
    BY <1>5 DEF Mkfs, Goto, runVars
  <2>2. \A q \in Run : block'[q].fmt = block[q].fmt \/ q = r
    BY <1>5 DEF Mkfs, Inode, OwnFiles, DiskTypeOK
  <2> QED
    BY <2>1, <2>2 DEF kernelVars
<1>6. CASE LoopdevFindUnused(r)
  BY <1>6 DEF LoopdevFindUnused, Goto, MountFails, kernelVars, diskVars, runVars
<1>7. CASE OpenFile(r)
  BY <1>7 DEF OpenFile, Goto, MountFails, kernelVars, diskVars, runVars
<1>8. CASE OpenDev(r)
  BY <1>8 DEF OpenDev, Goto, MountFails, kernelVars, diskVars, runVars
<1>9. CASE SetFd(r)
  <2>1. CASE LoopSetFd(dev[r], file_fd[r]) /\ Goto(r, "set_status")
    <3>1. pc[r] = "set_fd" /\ UNCHANGED <<block, dev>>
      BY <1>9 DEF SetFd, diskVars
    <3>2. file_fd[r] = r /\ block[r].fmt = "xfs"
      <4>1. file_fd[r] = r
        BY <3>1, NullAssumption DEF OwnFiles, HandlesOK
      <4>2. block[r] = [gb |-> PassedSize(VfsSize(r)), fmt |-> "xfs"]
        BY <3>1 DEF OwnBlock, Made
      <4> QED
        BY <4>1, <4>2
    <3>3. \A d \in Dev : backing'[d] = IF d = dev[r] THEN r ELSE backing[d]
      BY <2>1, <3>2 DEF LoopSetFd
    <3> QED
      BY <2>1, <3>1, <3>2, <3>3 DEF Goto
  <2>2. CASE UNCHANGED kernelVars /\ Goto(r, "clr_fd")
    BY <1>9, <2>2 DEF SetFd, Goto, kernelVars, diskVars
  <2> QED
    BY <1>9, <2>1, <2>2 DEF SetFd
<1>10. CASE SetStatus(r)
  BY <1>10 DEF SetStatus, Goto, LoopSetStatus, kernelVars, diskVars, runVars
<1>11. CASE CloseDev(r)
  BY <1>11 DEF CloseDev, Goto, CloseLoop, Teardown, kernelVars, diskVars, runVars
<1>12. CASE ClrFd(r)
  BY <1>12 DEF ClrFd, Goto, LoopClrFd, Teardown, kernelVars, diskVars, runVars
<1>13. CASE CloseAfterError(r)
  BY <1>13 DEF CloseAfterError, Goto, MountFails, CloseLoop, Teardown, kernelVars, diskVars, runVars
<1>14. CASE MountDev(r)
  <2>1. UNCHANGED <<backing, block, dev>> /\ pc[r] = "mount"
    BY <1>14 DEF MountDev, MountLoop, kernelVars, diskVars
  <2>2. Goto(r, "chmod") \/ Goto(r, "remove")
    BY <1>14 DEF MountDev, MountFails
  <2> QED
    BY <2>1, <2>2 DEF Goto
<1>15. CASE Chmod(r)
  BY <1>15 DEF Chmod, Goto, SetTopRoot, kernelVars, diskVars, runVars
<1>16. CASE Chown(r)
  BY <1>16 DEF Chown, Goto, SetTopRoot, kernelVars, diskVars, runVars
<1>17. CASE UMount(r)
  <2>1. UNCHANGED kernelVars
    BY <1>17, NeverUnmounts
  <2>2. UNCHANGED <<block, dev>> /\ pc[r] = "umount" /\ Goto(r, "remove")
    BY <1>17 DEF UMount, diskVars, runVars
  <2> QED
    BY <2>1, <2>2 DEF Goto, kernelVars
<1>18. CASE Remove(r)
  BY <1>18 DEF Remove, Goto, kernelVars, diskVars, runVars
<1>19. CASE Kill(r)
  BY <1>19 DEF Kill, Goto, CloseLoop, Teardown, DevOpen, Exited, kernelVars, diskVars, runVars
<1> QED
  BY <1>1, <1>2, <1>3, <1>4, <1>5, <1>6, <1>7, <1>8, <1>9, <1>10, <1>11, <1>12, <1>13, <1>14, <1>15, <1>16, <1>17, <1>18, <1>19
     DEF Step

LEMMA OwnInvariant == ASSUME DistinctNames PROVE Spec => []OwnInv
<1>1. Init => OwnInv
  <2> SUFFICES ASSUME Init PROVE OwnFiles /\ OwnBlock /\ OwnDevice
    BY DEF OwnInv
  <2>1. OwnFiles
    BY DEF Init, OwnFiles, Inode, Name
  <2>2. OwnBlock
    BY DEF Init, OwnBlock, Made, DevOpen, Binding, Published
  <2>3. OwnDevice
    BY DEF Init, KernelInit, OwnDevice
  <2> QED
    BY <2>1, <2>2, <2>3
<1>2. TypeOK /\ MountsInv /\ OwnInv /\ [Next]_vars => OwnInv'
  <2> SUFFICES ASSUME TypeOK, MountsInv, OwnInv, [Next]_vars PROVE OwnInv'
    OBVIOUS
  <2>1. CASE \E r \in Run : Step(r) \/ Kill(r)
    BY <2>1, OwnFilesStep, OwnBlockStep, OwnDeviceStep DEF OwnInv
  <2>2. CASE UNCHANGED vars
    BY <2>2 DEF vars, kernelVars, diskVars, runVars, OwnInv, OwnFiles, OwnBlock,
                OwnDevice, Inode
  <2> QED
    BY <2>1, <2>2 DEF Next, AllExited
<1> QED
  BY <1>1, <1>2, TypeCorrect, MountsInvariant, PTL DEF Spec

\* When no two runs use one name, the block of a successful run stays linked,
\* of the size it was made with, and formatted.
THEOREM PublishedBlocksKept == ASSUME DistinctNames PROVE Spec => []PublishedBlockKept
<1>1. OwnInv => PublishedBlockKept
  BY DEF OwnInv, OwnBlock, Made, Published, PublishedBlockKept
<1> QED
  BY <1>1, OwnInvariant, PTL

\* Under the same condition every mounted device holds a formatted block.
THEOREM MountedAreFormatted == ASSUME DistinctNames PROVE Spec => []MountedIsFormatted
<1>1. TypeOK /\ MountsInv /\ OwnInv => MountedIsFormatted
  <2> SUFFICES ASSUME TypeOK, MountsInv, OwnInv, NEW i \in 1..Len(mtab)
               PROVE  /\ backing[mtab[i].dev] # NoRun
                      /\ block[backing[mtab[i].dev]].fmt = "xfs"
    BY DEF MountedIsFormatted
  <2>1. mtab[i] \in Mount
    BY DEF TypeOK, KernelTypeOK
  <2>2. mtab[i].dev \in Dev
    BY <2>1 DEF Mount
  <2> QED
    BY <2>2 DEF MountsInv, OwnInv, OwnDevice
<1> QED
  BY <1>1, TypeCorrect, MountsInvariant, OwnInvariant, PTL

\* Under the same condition no block is behind two devices.
THEOREM BlocksBoundOnce == ASSUME DistinctNames PROVE Spec => []BlockBoundOnce
<1>1. OwnInv => BlockBoundOnce
  BY DEF OwnInv, OwnDevice, BlockBoundOnce
<1> QED
  BY <1>1, OwnInvariant, PTL

(***************************************************************************)
(* Runs that never overlap                                                 *)
(*                                                                         *)
(* Any number of runs may share a name, as retries do, as long as they ask *)
(* for the same size.  The second part is about recovery: each fault       *)
(* spoils two runs at most, the one it hits and one that comes upon the    *)
(* file it left.  Its invariant counts the runs that are lost or bound to  *)
(* be, and the names under which a file waits for the next run.            *)
(***************************************************************************)

SameNameSameSize == \A r, q \in Run : NameOf[r] = NameOf[q] => VfsSize(r) = VfsSize(q)

Making == {"parse", "access", "creat", "ftruncate", "mkfs"}
Attaching == DevOpen \cup {"open_file", "open_dev", "mount"}
InFlight(r) == pc[r] \notin Exited \cup {"parse"}
Size(r) == PassedSize(VfsSize(r))

OneAtATime == \A r, q \in Run : InFlight(r) /\ InFlight(q) => r = q

\* A name leads to a file made under it, and a formatted file has its size.
Files == /\ \A n \in Name : dirent[n] # NoRun => NameOf[dirent[n]] = n
         /\ \A i \in Run : block[i].fmt = "xfs" => block[i].gb = Size(i)

\* Nobody knows the file of a run before mkfs is done.
NewFile == \A r \in Run : pc[r] \in Making =>
  /\ \A d \in Dev : backing[d] # r
  /\ \A q \in Run : file_fd[q] = r => q = r /\ pc[r] = "ftruncate"
  /\ IF pc[r] \in {"ftruncate", "mkfs"} THEN Inode(r) = r ELSE \A n \in Name : dirent[n] # r
  /\ pc[r] = "creat" => Inode(r) = NoRun
  /\ pc[r] = "ftruncate" => file_fd[r] = r /\ block[r] = [gb |-> 0, fmt |-> "blank"]
  /\ pc[r] = "mkfs" => block[r].gb \in {0, Size(r)}

\* What a run attaches is a file of its name, on a device without a mount.
Attach == \A r \in Run :
  /\ pc[r] \in {"open_dev", "set_fd"} => NameOf[file_fd[r]] = NameOf[r]
  /\ pc[r] \in {"set_status", "close_dev", "mount"} =>
       backing[dev[r]] = NoRun \/ NameOf[backing[dev[r]]] = NameOf[r]
  /\ pc[r] \in Attaching => ~Mounted(dev[r])

\* Every mount shows a formatted file of the right name and size, each on a
\* device of its own.
MountsShow ==
  /\ \A i \in 1..Len(mtab) :
       /\ backing[mtab[i].dev] \in Run
       /\ NameOf[backing[mtab[i].dev]] = NameOf[mtab[i].by]
       /\ block[backing[mtab[i].dev]] = [gb |-> Size(mtab[i].by), fmt |-> "xfs"]
  /\ \A i, j \in 1..Len(mtab) : mtab[i].dev = mtab[j].dev => i = j

\* The run that hands its root directory over has the visible mount, and what
\* was handed over stays.
HandedOver == \A r \in Run :
  /\ pc[r] \in {"chmod", "chown"} => mtab # <<>> /\ mtab[Len(mtab)].by = r
  /\ pc[r] = "chown" => root[TopDev].mode = "0770"
  /\ pc[r] = "ok" => \E i \in 1..Len(mtab) :
       mtab[i].by = r /\ root[mtab[i].dev] = [owner |-> r, mode |-> "0770"]

SInv == OneAtATime /\ Files /\ NewFile /\ Attach /\ MountsShow /\ HandedOver

-----------------------------------------------------------------------------
(* What a call can change *)

\* Which calls lead to a stage, and with what.
Arrives(r) ==
  /\ pc'[r] = "access" => pc[r] = "parse"
  /\ pc'[r] = "creat" => pc[r] = "access" /\ Inode(r) = NoRun
  /\ pc'[r] = "ftruncate" => pc[r] = "creat"
  /\ pc'[r] = "mkfs" => pc[r] = "ftruncate"
  /\ pc'[r] = "get_free" => pc[r] \in {"access", "mkfs"}
  /\ pc'[r] = "open_dev" => pc[r] = "open_file" /\ file_fd'[r] = Inode(r) /\ Inode(r) # NoRun
  /\ pc'[r] = "set_fd" => pc[r] = "open_dev" /\ file_fd'[r] = file_fd[r]
  /\ pc'[r] = "set_status" => pc[r] = "set_fd" /\ backing'[dev[r]] = file_fd[r]
  /\ pc'[r] = "close_dev" => pc[r] = "set_status"
  /\ pc'[r] = "mount" => pc[r] = "close_dev"
  /\ pc'[r] \in Attaching => \/ pc[r] \in Attaching /\ dev'[r] = dev[r]
                             \/ pc[r] = "get_free" /\ backing[dev'[r]] = NoRun /\ dev'[r] \in Dev
  /\ pc'[r] = "chmod" => pc[r] = "mount"
  /\ pc'[r] = "chown" => pc[r] = "chmod" /\ SetTopRoot([root[TopDev] EXCEPT !.mode = "0770"])
  /\ pc'[r] = "ok" => pc[r] = "chown" /\ SetTopRoot([root[TopDev] EXCEPT !.owner = r])
  /\ pc'[r] # "parse"

Touches(r) ==
  /\ \A q \in Run \ {r} : pc'[q] = pc[q] /\ dev'[q] = dev[q] /\ file_fd'[q] = file_fd[q]
  /\ \/ Creat(r) \/ Ftruncate(r) \/ Mkfs(r) \/ Remove(r)
     \/ UNCHANGED <<dirent, block>> /\ pc'[r] \notin {"ftruncate", "mkfs"}
  /\ \A d \in Dev : \/ backing'[d] = backing[d] \/ backing'[d] = NoRun
                    \/ pc[r] = "set_fd" /\ d = dev[r] /\ backing'[d] = file_fd[r]
  /\ dev'[r] # dev[r] => pc[r] = "get_free" /\ pc'[r] # "get_free"
  /\ file_fd'[r] # NoRun =>
       \/ pc[r] = "open_file" /\ file_fd'[r] = Inode(r)
       \/ pc[r] = "creat" /\ pc'[r] = "ftruncate"
       \/ file_fd'[r] = file_fd[r] /\ (pc'[r] = "ftruncate" => pc[r] = "ftruncate")
            /\ (pc[r] = "ftruncate" => pc'[r] = "ftruncate")
  /\ pc[r] \notin {"mount", "chmod", "chown"} => root' = root

LEMMA EffectsOfCall ==
  ASSUME TypeOK, MountsInv, NEW r \in Run, Step(r) \/ Kill(r)
  PROVE  Arrives(r) /\ Touches(r)
<1> USE DEF Arrives, Touches, TypeOK, RunTypeOK, KernelTypeOK, Attaching, DevOpen, Goto
<1>1. CASE ParseArgs(r)
  BY <1>1 DEF ParseArgs, kernelVars, runVars
<1>2. CASE Access(r)
  BY <1>2 DEF Access, kernelVars, diskVars, runVars
<1>3. CASE Creat(r)
  BY <1>3 DEF Creat, kernelVars
<1>4. CASE Ftruncate(r)
  BY <1>4 DEF Ftruncate, kernelVars
<1>5. CASE Mkfs(r)
  BY <1>5 DEF Mkfs, kernelVars, runVars
<1>6. CASE LoopdevFindUnused(r)
  BY <1>6, NullAssumption DEF LoopdevFindUnused, GetFreeDevs, MountFails, kernelVars, diskVars
<1>7. CASE OpenFile(r)
  BY <1>7 DEF OpenFile, MountFails, kernelVars, diskVars
<1>8. CASE OpenDev(r)
  BY <1>8 DEF OpenDev, MountFails, kernelVars, diskVars
<1>9. CASE SetFd(r)
  BY <1>9 DEF SetFd, LoopSetFd, kernelVars, diskVars, HandlesOK
<1>10. CASE SetStatus(r)
  BY <1>10 DEF SetStatus, LoopSetStatus, kernelVars, diskVars, runVars
<1>11. CASE CloseDev(r)
  BY <1>11 DEF CloseDev, CloseLoop, Teardown, diskVars, runVars
<1>12. CASE ClrFd(r)
  BY <1>12 DEF ClrFd, LoopClrFd, Teardown, diskVars, runVars
<1>13. CASE CloseAfterError(r)
  BY <1>13 DEF CloseAfterError, CloseLoop, Teardown, MountFails, diskVars
<1>14. CASE MountDev(r)
  BY <1>14 DEF MountDev, MountLoop, MountFails, kernelVars, diskVars
<1>15. CASE Chmod(r)
  BY <1>15 DEF Chmod, SetTopRoot, kernelVars, diskVars, runVars
<1>16. CASE Chown(r)
  BY <1>16 DEF Chown, SetTopRoot, kernelVars, diskVars, runVars
<1>17. CASE UMount(r)
  <2>1. UNCHANGED kernelVars
    BY <1>17, NeverUnmounts
  <2> QED
    BY <1>17, <2>1 DEF UMount, kernelVars, diskVars, runVars
<1>18. CASE Remove(r)
  BY <1>18 DEF Remove, kernelVars, runVars
<1>19. CASE Kill(r)
  <2>1. pc'[r] = "killed" /\ file_fd'[r] = NoRun
    BY <1>19 DEF Kill
  <2> QED
    BY <1>19, <2>1 DEF Kill, CloseLoop, Teardown, kernelVars, diskVars
<1> QED
  BY <1>1, <1>2, <1>3, <1>4, <1>5, <1>6, <1>7, <1>8, <1>9, <1>10, <1>11, <1>12, <1>13, <1>14, <1>15, <1>16, <1>17, <1>18, <1>19
     DEF Step

-----------------------------------------------------------------------------
(* The parts of the invariant *)

Serially(r) == (Alone(r) /\ Step(r)) \/ Kill(r)

LEMMA OneAtATimeStep ==
  ASSUME TypeOK, MountsInv, OneAtATime, NEW r \in Run, Serially(r)
  PROVE  OneAtATime'
<1>1. Touches(r)
  BY EffectsOfCall DEF Serially
<1>2. CASE Alone(r)
  BY <1>1, <1>2 DEF Alone, OneAtATime, InFlight, Touches
<1>3. CASE Kill(r)
  <2>1. pc'[r] = "killed"
    BY <1>3 DEF Kill, Goto, TypeOK, RunTypeOK
  <2> QED
    BY <1>1, <2>1 DEF OneAtATime, InFlight, Touches, Exited
<1> QED
  BY <1>2, <1>3 DEF Serially

\* A run that makes a call alone creates a new file.
LEMMA CreatNew ==
  ASSUME TypeOK, NewFile, NEW r \in Run, Creat(r)
  PROVE  \/ /\ dirent' = [dirent EXCEPT ![NameOf[r]] = r]
            /\ block' = [block EXCEPT ![r] = [gb |-> 0, fmt |-> "blank"]]
            /\ file_fd' = [file_fd EXCEPT ![r] = r]
            /\ Goto(r, "ftruncate")
         \/ /\ UNCHANGED <<dirent, block, file_fd>>
            /\ Goto(r, "fail")
<1>1. Inode(r) = NoRun
  BY DEF Creat, NewFile, Making
<1> QED
  BY <1>1 DEF Creat

\* What is done to block files: only the run that made a file writes to it.
LEMMA OwnWrites ==
  ASSUME TypeOK, MountsInv, NewFile, NEW r \in Run, Step(r) \/ Kill(r)
  PROVE  /\ \A q \in Run \ {r} : block'[q] = block[q]
         /\ block'[r] # block[r] => pc[r] \in {"creat", "ftruncate", "mkfs"}
<1> USE DEF TypeOK, DiskTypeOK
<1>1. CASE Creat(r)
  <2>1. pc[r] = "creat"
    BY <1>1 DEF Creat
  <2>2. block' = [block EXCEPT ![r] = [gb |-> 0, fmt |-> "blank"]] \/ block' = block
    BY <1>1, CreatNew
  <2> QED
    BY <2>1, <2>2
<1>2. CASE Ftruncate(r)
  BY <1>2 DEF Ftruncate, NewFile, Making
<1>3. CASE Mkfs(r)
  BY <1>3 DEF Mkfs, NewFile, Making
<1>4. CASE Remove(r)
  BY <1>4 DEF Remove
<1>5. CASE UNCHANGED <<dirent, block>>
  BY <1>5
<1> QED
  BY <1>1, <1>2, <1>3, <1>4, <1>5, EffectsOfCall DEF Touches

LEMMA FilesStep ==
  ASSUME TypeOK, MountsInv, NewFile, Files, NEW r \in Run, Step(r) \/ Kill(r)
  PROVE  Files'
<1> USE DEF TypeOK, DiskTypeOK, Files
<1>0. NameOf[r] \in Name /\ Size(r) \in Nat
  BY SizeNat DEF Name, Size
<1>1. CASE Creat(r)
  <2>1. CASE UNCHANGED <<dirent, block>>
    BY <2>1 DEF Size, VfsSize
  <2>2. CASE /\ dirent' = [dirent EXCEPT ![NameOf[r]] = r]
             /\ block' = [block EXCEPT ![r] = [gb |-> 0, fmt |-> "blank"]]
    BY <1>0, <2>2 DEF Size, VfsSize
  <2> QED
    BY <1>1, <2>1, <2>2, CreatNew
<1>2. CASE Ftruncate(r)
  <2>1. file_fd[r] = r /\ block[r] = [gb |-> 0, fmt |-> "blank"] /\ dirent' = dirent
    BY <1>2 DEF Ftruncate, NewFile, Making
  <2>2. \A q \in Run : block'[q] = block[q] \/ block'[q].fmt = "blank"
    BY <1>0, <1>2, <2>1 DEF Ftruncate, Size
  <2> QED
    BY <2>1, <2>2 DEF Size, VfsSize
<1>3. CASE Mkfs(r)
  <2>1. Inode(r) = r /\ block[r].gb \in {0, Size(r)} /\ dirent' = dirent
    BY <1>3 DEF Mkfs, NewFile, Making
  <2>2. \A q \in Run : block'[q] = block[q] \/ block'[q].gb = Size(q)
    BY <1>3, <2>1 DEF Mkfs
  <2> QED
    BY <2>1, <2>2 DEF Size, VfsSize
<1>4. CASE Remove(r)
  BY <1>0, <1>4 DEF Remove, Size, VfsSize
<1>5. CASE UNCHANGED <<dirent, block>>
  BY <1>5 DEF Size, VfsSize
<1> QED
  BY <1>1, <1>2, <1>3, <1>4, <1>5, EffectsOfCall DEF Touches

LEMMA NewFileStep ==
  ASSUME TypeOK, MountsInv, OneAtATime, Files, NewFile, NEW r \in Run, Serially(r)
  PROVE  NewFile'
<1> SUFFICES ASSUME NEW q \in Run, pc'[q] \in Making
             PROVE  /\ \A d \in Dev : backing'[d] # q
                    /\ \A p \in Run : file_fd'[p] = q => p = q /\ pc'[q] = "ftruncate"
                    /\ IF pc'[q] \in {"ftruncate", "mkfs"} THEN Inode(q)' = q
                       ELSE \A n \in Name : dirent'[n] # q
                    /\ pc'[q] = "creat" => Inode(q)' = NoRun
                    /\ pc'[q] = "ftruncate" => file_fd'[q] = q /\ block'[q] = [gb |-> 0, fmt |-> "blank"]
                    /\ pc'[q] = "mkfs" => block'[q].gb \in {0, Size(q)'}
  BY DEF NewFile, Name
<1>1. Arrives(r) /\ Touches(r) /\ (Step(r) \/ Kill(r))
  BY EffectsOfCall DEF Serially
<1>2. pc[q] \in Making /\ (q = r => Alone(r) /\ Step(r))
  <2>1. Kill(r) => pc'[r] = "killed"
    BY DEF Kill, Goto, TypeOK, RunTypeOK
  <2> QED
    BY <1>1, <2>1 DEF Arrives, Touches, Making, Serially
<1>3. NameOf[q] \in Name /\ NameOf[r] \in Name /\ Size(q)' = Size(q)
  BY DEF Name, Size, VfsSize
<1>4. q # r /\ pc[q] # "parse" => Kill(r) /\ pc[r] = "parse"
  <2>1. pc[q] \notin Exited
    BY <1>2 DEF Making, Exited
  <2>2. q # r /\ pc[q] # "parse" => ~Alone(r)
    BY <2>1 DEF Alone
  <2>3. q # r /\ pc[q] # "parse" => ~InFlight(r)
    BY <2>1 DEF OneAtATime, InFlight
  <2>4. Kill(r) => pc[r] \notin Exited
    BY DEF Kill
  <2> QED
    BY <2>2, <2>3, <2>4 DEF Serially, InFlight
<1>5. \A d \in Dev : backing'[d] # q
  BY <1>1, <1>2, NullAssumption DEF Touches, NewFile
<1>6. ASSUME NEW p \in Run, file_fd'[p] = q PROVE p = q /\ pc'[q] = "ftruncate"
  <2>1. CASE p # r
    BY <1>1, <1>2, <1>6, <2>1 DEF Touches, NewFile
  <2>2. CASE p = r
    <3>1. CASE pc[r] = "open_file" /\ file_fd'[r] = Inode(r)
      <4>1. q # r /\ pc[q] = "parse"
        BY <1>2, <1>4, <3>1 DEF Making
      <4> QED
        BY <1>3, <1>6, <2>2, <3>1, <4>1 DEF NewFile, Making, Inode
    <3>2. CASE pc[r] = "creat" /\ pc'[r] = "ftruncate"
      <4>1. Creat(r)
        BY <1>1, <3>2 DEF Arrives, Touches, Ftruncate, Mkfs, Remove
      <4>2. file_fd'[r] = r
        BY <3>2, <4>1, CreatNew DEF TypeOK, RunTypeOK, Goto
      <4> QED
        BY <1>6, <2>2, <3>2, <4>2
    <3>3. CASE /\ file_fd'[r] = file_fd[r]
               /\ pc[r] = "ftruncate" => pc'[r] = "ftruncate"
      BY <1>2, <1>6, <2>2, <3>3 DEF NewFile
    <3> QED
      BY <1>1, <1>6, <2>2, <3>1, <3>2, <3>3, NullAssumption DEF Touches
  <2> QED
    BY <2>1, <2>2
<1>7. CASE q # r /\ pc[q] # "parse"
  <2>1. UNCHANGED <<dirent, block>> /\ pc'[q] = pc[q] /\ file_fd'[q] = file_fd[q]
    BY <1>1, <1>4, <1>7 DEF Kill, diskVars, Touches
  <2> QED
    BY <1>2, <1>3, <1>5, <1>6, <2>1 DEF NewFile, Inode
<1>8. CASE q # r /\ pc[q] = "parse"
  <2>1. pc'[q] = "parse"
    BY <1>1, <1>8 DEF Touches
  <2>2. \A n \in Name : dirent[n] # q
    BY <1>8 DEF NewFile, Making
  <2>3. \A n \in Name : dirent'[n] # q
    <3>1. CASE Creat(r)
      BY <1>8, <2>2, <3>1, CreatNew DEF TypeOK, DiskTypeOK
    <3>2. CASE Remove(r)
      BY <2>2, <3>2, NullAssumption DEF Remove, TypeOK, DiskTypeOK
    <3>3. CASE dirent' = dirent
      BY <2>2, <3>3
    <3> QED
      BY <1>1, <3>1, <3>2, <3>3 DEF Touches, Ftruncate, Mkfs
  <2> QED
    BY <1>5, <1>6, <2>1, <2>3
<1>9. CASE q = r
  <2>1. CASE Creat(r)
    <3>1. /\ dirent' = [dirent EXCEPT ![NameOf[r]] = r]
          /\ block' = [block EXCEPT ![r] = [gb |-> 0, fmt |-> "blank"]]
          /\ file_fd' = [file_fd EXCEPT ![r] = r]
          /\ pc'[r] = "ftruncate"
      BY <1>2, <1>9, <2>1, CreatNew DEF Goto, Making, TypeOK, RunTypeOK
    <3>2. Inode(r)' = r /\ file_fd'[r] = r /\ block'[r] = [gb |-> 0, fmt |-> "blank"]
      BY <1>3, <3>1 DEF Inode, TypeOK, DiskTypeOK, RunTypeOK
    <3> QED
      BY <1>5, <1>6, <1>9, <3>1, <3>2
  <2>2. CASE Ftruncate(r)
    <3>1. pc[r] = "ftruncate" /\ Inode(r) = r /\ file_fd[r] = r /\ block[r] = [gb |-> 0, fmt |-> "blank"]
      BY <2>2 DEF Ftruncate, NewFile, Making
    <3>2. pc'[r] = "mkfs" /\ Inode(r)' = r
      BY <2>2, <3>1 DEF Ftruncate, Goto, Inode, TypeOK, RunTypeOK
    <3>3. block'[r].gb \in {0, Size(r)}
      BY <2>2, <3>1 DEF Ftruncate, TypeOK, DiskTypeOK, Size
    <3> QED
      BY <1>3, <1>5, <1>6, <1>9, <3>2, <3>3
  <2>3. CASE Mkfs(r) \/ Remove(r)
    BY <1>2, <1>9, <2>3 DEF Mkfs, Remove, Goto, Making, TypeOK, RunTypeOK
  <2>4. CASE UNCHANGED <<dirent, block>> /\ pc'[r] \notin {"ftruncate", "mkfs"}
    <3>1. pc'[r] \in {"access", "creat"} /\ pc[r] \in {"parse", "access"}
      BY <1>1, <1>2, <1>9, <2>4 DEF Arrives, Making
    <3>2. \A n \in Name : dirent'[n] # q
      BY <1>9, <2>4, <3>1 DEF NewFile, Making
    <3>3. pc'[r] = "creat" => Inode(r)' = NoRun
      BY <1>1, <2>4 DEF Arrives, Inode
    <3> QED
      BY <1>5, <1>6, <1>9, <3>1, <3>2, <3>3
  <2> QED
    BY <1>1, <2>1, <2>2, <2>3, <2>4 DEF Touches
<1> QED
  BY <1>7, <1>8, <1>9

\* While a run is in flight another can only be killed before it started.
LEMMA OneActs ==
  ASSUME TypeOK, OneAtATime, NEW r \in Run, Serially(r), NEW q \in Run, q # r, InFlight(q)
  PROVE  Kill(r) /\ pc[r] = "parse" /\ UNCHANGED <<kernelVars, diskVars>>
<1>1. ~InFlight(r) /\ ~Alone(r)
  BY DEF OneAtATime, Alone, InFlight
<1>2. Kill(r) /\ pc[r] = "parse"
  BY <1>1 DEF Serially, InFlight, Kill
<1> QED
  BY <1>2 DEF Kill, DevOpen

\* The mount table changes by the mount of a formatted file, and only then
\* does a run come to chmod.
LEMMA NewMount ==
  ASSUME TypeOK, MountsInv, NEW r \in Run, Step(r) \/ Kill(r)
  PROVE  \/ mtab' = mtab /\ pc'[r] # "chmod"
         \/ /\ pc[r] = "mount" /\ pc'[r] = "chmod"
            /\ backing[dev[r]] # NoRun /\ block[backing[dev[r]]].fmt = "xfs"
            /\ MountLoop(r, dev[r], ShareDir)
            /\ UNCHANGED <<backing, block>>
<1>1. MountsKept(r) /\ Arrives(r) /\ Touches(r)
  BY MountsStep, EffectsOfCall
<1>2. CASE pc[r] # "mount"
  BY <1>1, <1>2 DEF MountsKept, Arrives
<1>3. CASE pc[r] = "mount" /\ Kill(r)
  BY <1>3 DEF Kill, Goto, DevOpen, kernelVars, TypeOK, RunTypeOK
<1>4. CASE MountDev(r)
  BY <1>4 DEF MountDev, MountFails, MountLoop, Goto, kernelVars, diskVars, TypeOK, RunTypeOK
<1>5. pc[r] = "mount" /\ Step(r) => MountDev(r)
  BY DEF Step, ParseArgs, Access, Creat, Ftruncate, Mkfs, LoopdevFindUnused, OpenFile, OpenDev,
         SetFd, SetStatus, CloseDev, ClrFd, CloseAfterError, Chmod, Chown, UMount, Remove
<1> QED
  BY <1>2, <1>3, <1>4, <1>5

\* A mount adds one entry at the end of the table.
LEMMA MountAdds ==
  ASSUME TypeOK, NEW r \in Run, NEW d \in Dev, MountLoop(r, d, ShareDir)
  PROVE  /\ Len(mtab) \in Nat /\ Len(mtab') = Len(mtab) + 1 /\ mtab' # <<>>
         /\ \A i \in 1..Len(mtab) : mtab'[i] = mtab[i]
         /\ mtab'[Len(mtab) + 1].by = r /\ mtab'[Len(mtab) + 1].dev = d
BY DEF MountLoop, TypeOK, KernelTypeOK

LEMMA EntryTypes ==
  ASSUME TypeOK, NEW i \in 1..Len(mtab)
  PROVE  mtab[i].dev \in Dev /\ mtab[i].by \in Run
<1>1. mtab[i] \in Mount
  BY DEF TypeOK, KernelTypeOK
<1> QED
  BY <1>1 DEF Mount

LEMMA MountsShowStep ==
  ASSUME SameNameSameSize, TypeOK, MountsInv, Files, NewFile, Attach, MountsShow,
         NEW r \in Run, Step(r) \/ Kill(r)
  PROVE  MountsShow'
<1>1. \A i \in 1..Len(mtab) : mtab[i].dev \in Dev /\ mtab[i].by \in Run
  BY EntryTypes
<1>2. \A i \in 1..Len(mtab) : backing'[mtab[i].dev] = backing[mtab[i].dev]
  <2>1. \A i \in 1..Len(mtab) : Mounted(mtab[i].dev)
    BY DEF Mounted
  <2> QED
    BY <1>1, <2>1, MountsStep DEF MountsKept
<1>3. \A i \in 1..Len(mtab) : block'[backing[mtab[i].dev]] = block[backing[mtab[i].dev]]
  <2> SUFFICES ASSUME NEW i \in 1..Len(mtab), block'[backing[mtab[i].dev]] # block[backing[mtab[i].dev]]
               PROVE  FALSE
    OBVIOUS
  <2>1. backing[mtab[i].dev] = r /\ pc[r] \in Making
    BY OwnWrites DEF MountsShow, Making
  <2> QED
    BY <1>1, <2>1 DEF NewFile
<1>4. \A q \in Run : Size(q)' = Size(q)
  BY DEF Size, VfsSize
<1>5. CASE mtab' = mtab
  <2>1. /\ \A i \in 1..Len(mtab') : mtab'[i] = mtab[i]
        /\ \A i \in 1..Len(mtab) : backing'[mtab'[i].dev] = backing[mtab[i].dev]
    BY <1>2, <1>5
  <2>2. \A i \in 1..Len(mtab) :
          block'[backing'[mtab'[i].dev]] = [gb |-> Size(mtab'[i].by), fmt |-> "xfs"]
    BY <1>1, <1>3, <1>4, <1>5, <2>1 DEF MountsShow
  <2> QED
    BY <1>5, <2>1, <2>2 DEF MountsShow, Size, VfsSize
<1>6. CASE /\ pc[r] = "mount"
           /\ backing[dev[r]] # NoRun /\ block[backing[dev[r]]].fmt = "xfs"
           /\ MountLoop(r, dev[r], ShareDir)
           /\ UNCHANGED <<backing, block>>
  <2> DEFINE f == backing[dev[r]]
             n == Len(mtab)
  <2>1. dev[r] \in Dev /\ f \in Run
    BY <1>6 DEF TypeOK, HandlesOK, KernelTypeOK, DevOpen
  <2>2. NameOf[f] = NameOf[r] /\ ~Mounted(dev[r])
    BY <1>6 DEF Attach, Attaching
  <2>3. block[f] = [gb |-> Size(r), fmt |-> "xfs"]
    <3>1. block[f].gb = Size(r)
      BY <1>6, <2>1, <2>2 DEF Files, Size, SameNameSameSize
    <3> QED
      BY <1>6, <2>1, <3>1 DEF TypeOK, DiskTypeOK
  <2>4. /\ n \in Nat /\ Len(mtab') = n + 1
        /\ \A i \in 1..n : mtab'[i] = mtab[i]
        /\ mtab'[n + 1].by = r /\ mtab'[n + 1].dev = dev[r]
    BY <1>6, <2>1, MountAdds
  <2>5. \A i \in 1..n : mtab[i].dev # dev[r]
    BY <2>2 DEF Mounted
  <2>6. ASSUME NEW i \in 1..Len(mtab')
        PROVE  /\ backing'[mtab'[i].dev] \in Run
               /\ NameOf[backing'[mtab'[i].dev]] = NameOf[mtab'[i].by]
               /\ block'[backing'[mtab'[i].dev]] = [gb |-> Size(mtab'[i].by), fmt |-> "xfs"]
    <3>1. CASE i \in 1..n
      BY <1>6, <2>4, <3>1 DEF MountsShow
    <3>2. CASE i = n + 1
      BY <1>6, <2>1, <2>2, <2>3, <2>4, <3>2
    <3> QED
      BY <2>4, <3>1, <3>2
  <2>7. ASSUME NEW i \in 1..Len(mtab'), NEW j \in 1..Len(mtab'), mtab'[i].dev = mtab'[j].dev
        PROVE  i = j
    BY <2>4, <2>5, <2>7 DEF MountsShow
  <2> QED
    BY <1>1, <1>4, <2>4, <2>6, <2>7 DEF MountsShow, Size, VfsSize
<1> QED
  BY <1>5, <1>6, NewMount

LEMMA AttachStep ==
  ASSUME TypeOK, MountsInv, OneAtATime, Files, Attach, NEW r \in Run, Serially(r)
  PROVE  Attach'
<1> SUFFICES ASSUME NEW q \in Run
             PROVE  /\ pc'[q] \in {"open_dev", "set_fd"} => NameOf[file_fd'[q]] = NameOf[q]
                    /\ pc'[q] \in {"set_status", "close_dev", "mount"} =>
                         backing'[dev'[q]] = NoRun \/ NameOf[backing'[dev'[q]]] = NameOf[q]
                    /\ pc'[q] \in Attaching => \A i \in 1..Len(mtab') : mtab'[i].dev # dev'[q]
  BY DEF Attach, Attaching, DevOpen, Mounted
<1>1. Arrives(r) /\ Touches(r) /\ (Step(r) \/ Kill(r))
  BY EffectsOfCall DEF Serially
<1>2. CASE q # r
  <2>1. pc'[q] = pc[q] /\ dev'[q] = dev[q] /\ file_fd'[q] = file_fd[q]
    BY <1>1, <1>2 DEF Touches
  <2>2. pc[q] \in Attaching => InFlight(q)
    BY DEF Attaching, DevOpen, InFlight, Exited
  <2>3. CASE pc[q] \in Attaching
    <3>1. UNCHANGED <<backing, mtab>>
      BY <1>2, <2>2, <2>3, OneActs DEF kernelVars
    <3> QED
      BY <2>1, <3>1 DEF Attach, Mounted
  <2> QED
    BY <2>1, <2>3 DEF Attaching, DevOpen
<1>3. CASE q = r
  <2>1. pc'[r] = "open_dev" => NameOf[file_fd'[r]] = NameOf[r]
    BY <1>1 DEF Arrives, Files, Inode, Name
  <2>2. pc'[r] = "set_fd" => NameOf[file_fd'[r]] = NameOf[r]
    BY <1>1 DEF Arrives, Attach
  <2>3. pc'[r] \in {"set_status", "close_dev", "mount"} => dev'[r] = dev[r] /\ dev[r] \in Dev
    BY <1>1 DEF Arrives, Attaching, DevOpen, TypeOK, HandlesOK
  <2>4. pc'[r] = "set_status" => NameOf[backing'[dev[r]]] = NameOf[r]
    BY <1>1 DEF Arrives, Attach
  <2>5. pc'[r] \in {"close_dev", "mount"} => backing'[dev[r]] = NoRun \/ NameOf[backing'[dev[r]]] = NameOf[r]
    BY <1>1, <2>3 DEF Arrives, Attach, Touches
  <2>6. pc'[r] \in Attaching => \A i \in 1..Len(mtab') : mtab'[i].dev # dev'[r]
    <3> SUFFICES ASSUME pc'[r] \in Attaching PROVE \A i \in 1..Len(mtab') : mtab'[i].dev # dev'[r]
      OBVIOUS
    <3>1. mtab' = mtab
      BY <1>1, NewMount DEF Attaching, DevOpen
    <3>2. CASE pc[r] \in Attaching /\ dev'[r] = dev[r]
      BY <3>1, <3>2 DEF Attach, Mounted
    <3>3. CASE backing[dev'[r]] = NoRun
      BY <3>1, <3>3 DEF MountsInv, Mounted
    <3> QED
      BY <1>1, <3>2, <3>3 DEF Arrives
  <2> QED
    BY <1>3, <2>1, <2>2, <2>3, <2>4, <2>5, <2>6
<1> QED
  BY <1>2, <1>3

\* A call at mount changes nothing or mounts; one at chmod or chown reaches the
\* root of the visible mount and no other.
LEMMA QuietUnlessMounted ==
  ASSUME TypeOK, NEW r \in Run, Step(r) \/ Kill(r), pc[r] = "mount"
  PROVE  UNCHANGED kernelVars \/ MountLoop(r, dev[r], ShareDir)
<1>1. MountDev(r) \/ Kill(r)
  BY DEF Step, ParseArgs, Access, Creat, Ftruncate, Mkfs, LoopdevFindUnused, OpenFile, OpenDev,
         SetFd, SetStatus, CloseDev, ClrFd, CloseAfterError, Chmod, Chown, UMount, Remove
<1> QED
  BY <1>1 DEF MountDev, Kill, DevOpen

LEMMA HandsOverTop ==
  ASSUME TypeOK, NEW r \in Run, Step(r) \/ Kill(r), pc[r] \in {"chmod", "chown"}
  PROVE  \A d \in Dev \ {TopDev} : root'[d] = root[d]
<1>1. Chmod(r) \/ Chown(r) \/ Kill(r)
  BY DEF Step, ParseArgs, Access, Creat, Ftruncate, Mkfs, LoopdevFindUnused, OpenFile, OpenDev,
         SetFd, SetStatus, CloseDev, ClrFd, CloseAfterError, MountDev, UMount, Remove
<1>2. (\E perm : SetTopRoot(perm)) \/ UNCHANGED kernelVars
  BY <1>1 DEF Chmod, Chown, Kill, DevOpen
<1> QED
  BY <1>2 DEF SetTopRoot, kernelVars, TypeOK, KernelTypeOK

LEMMA HandedOverStep ==
  ASSUME TypeOK, MountsInv, OneAtATime, MountsShow, HandedOver, NEW r \in Run, Serially(r)
  PROVE  HandedOver'
<1> SUFFICES ASSUME NEW q \in Run
             PROVE  /\ pc'[q] \in {"chmod", "chown"} => mtab' # <<>> /\ mtab'[Len(mtab')].by = q
                    /\ pc'[q] = "chown" => root'[mtab'[Len(mtab')].dev].mode = "0770"
                    /\ pc'[q] = "ok" => \E i \in 1..Len(mtab') :
                         mtab'[i].by = q /\ root'[mtab'[i].dev] = [owner |-> q, mode |-> "0770"]
  BY DEF HandedOver, TopDev
<1>1. Arrives(r) /\ Touches(r) /\ (Step(r) \/ Kill(r))
  BY EffectsOfCall DEF Serially
<1>2. \A i \in 1..Len(mtab) : mtab[i].dev \in Dev /\ mtab[i].by \in Run
  BY EntryTypes
<1>3. Len(mtab) \in Nat /\ (mtab # <<>> => Len(mtab) \in 1..Len(mtab))
  BY DEF TypeOK, KernelTypeOK
\* What was handed over stays.
<1>4. CASE pc[q] = "ok"
  <2>1. PICK i \in 1..Len(mtab) : mtab[i].by = q /\ root[mtab[i].dev] = [owner |-> q, mode |-> "0770"]
    BY <1>4 DEF HandedOver
  <2>2. q # r /\ pc'[q] = "ok"
    <3>1. pc[r] \notin Exited
      BY <1>1, OnePcMoves
    <3> QED
      BY <1>1, <1>4, <3>1 DEF Touches, Exited
  <2>3. i \in 1..Len(mtab') /\ mtab'[i] = mtab[i]
    <3>1. CASE mtab' = mtab
      BY <3>1
    <3>2. CASE pc[r] = "mount" /\ MountLoop(r, dev[r], ShareDir)
      <4>1. dev[r] \in Dev
        BY <3>2 DEF TypeOK, HandlesOK
      <4> QED
        BY <1>3, <3>2, <4>1, MountAdds
    <3> QED
      BY <1>1, <3>1, <3>2, NewMount
  <2>4. root'[mtab[i].dev] = root[mtab[i].dev]
    <3>1. CASE root' = root
      BY <3>1
    <3>2. CASE pc[r] = "mount"
      <4>1. Mounted(mtab[i].dev)
        BY DEF Mounted
      <4>2. CASE MountLoop(r, dev[r], ShareDir)
        BY <1>2, <4>1, <4>2 DEF MountLoop, TypeOK, KernelTypeOK
      <4>3. CASE UNCHANGED kernelVars
        BY <4>3 DEF kernelVars
      <4> QED
        BY <1>1, <3>2, <4>2, <4>3, QuietUnlessMounted
    <3>3. CASE pc[r] \in {"chmod", "chown"}
      <4>1. mtab # <<>> /\ mtab[Len(mtab)].by = r
        BY <3>3 DEF HandedOver
      <4>2. TopDev # mtab[i].dev
        BY <1>3, <2>1, <2>2, <4>1 DEF TopDev, MountsShow
      <4>3. \A d \in Dev \ {TopDev} : root'[d] = root[d]
        BY <1>1, <3>3, HandsOverTop
      <4> QED
        BY <1>2, <4>2, <4>3
    <3> QED
      BY <1>1, <3>1, <3>2, <3>3 DEF Touches
  <2> QED
    BY <2>1, <2>2, <2>3, <2>4
<1>5. CASE q # r /\ pc[q] # "ok"
  <2>1. pc'[q] = pc[q]
    BY <1>1, <1>5 DEF Touches
  <2>2. CASE pc[q] \in {"chmod", "chown"}
    <3>1. InFlight(q)
      BY <2>2 DEF InFlight, Exited
    <3>2. UNCHANGED <<mtab, root>>
      BY <1>5, <3>1, OneActs DEF kernelVars
    <3> QED
      BY <1>5, <2>1, <2>2, <3>2 DEF HandedOver, TopDev
  <2> QED
    BY <1>5, <2>1, <2>2
<1>6. CASE q = r /\ pc[q] # "ok"
  <2>1. CASE pc'[r] = "chmod"
    <3>1. pc[r] = "mount" /\ MountLoop(r, dev[r], ShareDir) /\ dev[r] \in Dev
      BY <1>1, <2>1, NewMount DEF TypeOK, HandlesOK
    <3> QED
      BY <1>6, <2>1, <3>1, MountAdds
  <2>2. CASE pc'[r] \in {"chown", "ok"}
    <3>1. pc[r] \in {"chmod", "chown"} /\ mtab # <<>> /\ mtab[Len(mtab)].by = r
      BY <1>1, <2>2 DEF Arrives, HandedOver
    <3>2. TopDev \in Dev /\ root[TopDev] \in Perm
      BY <1>2, <1>3, <3>1 DEF TopDev, TypeOK, KernelTypeOK
    <3>3. pc'[r] = "chown" => mtab' = mtab /\ root'[TopDev].mode = "0770"
      BY <1>1, <3>1, <3>2 DEF Arrives, SetTopRoot, TypeOK, KernelTypeOK, Perm
    <3>4. pc'[r] = "ok" => mtab' = mtab /\ root'[TopDev] = [owner |-> r, mode |-> "0770"]
      <4> SUFFICES ASSUME pc'[r] = "ok"
                   PROVE  mtab' = mtab /\ root'[TopDev] = [owner |-> r, mode |-> "0770"]
        OBVIOUS
      <4>1. root[TopDev].mode = "0770" /\ SetTopRoot([root[TopDev] EXCEPT !.owner = r])
        BY <1>1 DEF Arrives, HandedOver
      <4>2. root'[TopDev] = [root[TopDev] EXCEPT !.owner = r] /\ mtab' = mtab
        BY <3>1, <3>2, <4>1 DEF SetTopRoot, TypeOK, KernelTypeOK
      <4> QED
        BY <3>2, <4>1, <4>2 DEF Perm
    <3> QED
      BY <1>3, <1>6, <2>2, <3>1, <3>3, <3>4 DEF TopDev
  <2> QED
    BY <1>6, <2>1, <2>2
<1> QED
  BY <1>4, <1>5, <1>6

-----------------------------------------------------------------------------
(* The theorems *)

LEMMA SInvStep ==
  ASSUME SameNameSameSize, TypeOK, MountsInv, SInv, [SerialNext]_vars
  PROVE  TypeOK' /\ MountsInv' /\ SInv'
<1>1. CASE \E r \in Run : Serially(r)
  <2> PICK r \in Run : Serially(r)
    BY <1>1
  <2>1. Step(r) \/ Kill(r)
    BY DEF Serially
  <2>2. TypeOK' /\ MountsInv'
    BY <2>1, TypeStep, MountsStep, MountsInvStep
  <2> QED
    BY <2>1, <2>2, OneAtATimeStep, FilesStep, NewFileStep, AttachStep, MountsShowStep, HandedOverStep
       DEF SInv
<1>2. CASE UNCHANGED vars
  <2>1. TypeOK' /\ MountsInv'
    BY <1>2 DEF vars, kernelVars, diskVars, runVars, TypeOK, KernelTypeOK, DiskTypeOK, RunTypeOK,
                HandlesOK, MountsInv
  <2>2. OneAtATime' /\ Files' /\ NewFile' /\ Attach'
    BY <1>2 DEF vars, kernelVars, diskVars, runVars, SInv, OneAtATime, InFlight, Files, NewFile, Attach,
                Mounted, Inode, Size, VfsSize
  <2>3. MountsShow' /\ HandedOver'
    BY <1>2 DEF vars, kernelVars, diskVars, runVars, SInv, MountsShow, HandedOver, TopDev, Size, VfsSize
  <2> QED
    BY <2>1, <2>2, <2>3 DEF SInv
<1> QED
  BY <1>1, <1>2 DEF SerialNext, Serially, AllExited

LEMMA SerialInvariant == ASSUME SameNameSameSize PROVE SerialSpec => [](TypeOK /\ SInv)
<1>1. Init => TypeOK /\ MountsInv /\ SInv
  <2> SUFFICES ASSUME Init PROVE TypeOK /\ MountsInv /\ SInv
    OBVIOUS
  <2>1. TypeOK /\ MountsInv
    BY RunAssumption
       DEF Init, TypeOK, KernelInit, KernelTypeOK, DiskTypeOK, RunTypeOK, HandlesOK,
           Mount, Perm, OnDisk, Stage, DevOpen, Exited, MountsInv
  <2>2. OneAtATime /\ Files /\ NewFile /\ Attach
    BY NullAssumption DEF Init, KernelInit, OneAtATime, InFlight, Files, NewFile, Attach, Attaching, DevOpen
  <2>3. MountsShow /\ HandedOver
    BY DEF Init, KernelInit, MountsShow, HandedOver
  <2> QED
    BY <2>1, <2>2, <2>3 DEF SInv
<1>2. TypeOK /\ MountsInv /\ SInv /\ [SerialNext]_vars => TypeOK' /\ MountsInv' /\ SInv'
  BY SInvStep
<1> QED
  BY <1>1, <1>2, PTL DEF SerialSpec

\* What a run that exits 0 reports is and stays true, whatever failed or was
\* killed before or since, and whatever an earlier run left under its name.
THEOREM ReportsAreTrue == ASSUME SameNameSameSize PROVE SerialSpec => []ReportTrue
<1>1. TypeOK /\ SInv => ReportTrue
  <2> SUFFICES ASSUME TypeOK, SInv, NEW r \in Run, pc[r] = "ok"
               PROVE  \E i \in 1..Len(mtab) :
                        LET file == backing[mtab[i].dev]
                        IN /\ mtab[i].by = r
                           /\ file \in Run /\ NameOf[file] = NameOf[r]
                           /\ block[file].gb = PassedSize(VfsSize(r))
                           /\ root[mtab[i].dev] = [owner |-> r, mode |-> "0770"]
    BY DEF ReportTrue
  <2>1. PICK i \in 1..Len(mtab) : mtab[i].by = r /\ root[mtab[i].dev] = [owner |-> r, mode |-> "0770"]
    BY DEF SInv, HandedOver
  <2>2. /\ backing[mtab[i].dev] \in Run /\ NameOf[backing[mtab[i].dev]] = NameOf[r]
        /\ block[backing[mtab[i].dev]] = [gb |-> Size(r), fmt |-> "xfs"]
    BY <2>1 DEF SInv, MountsShow
  <2>3. block[backing[mtab[i].dev]].gb = PassedSize(VfsSize(r))
    BY <2>2 DEF Size
  <2> QED
    BY <2>1, <2>2, <2>3
<1> QED
  BY <1>1, SerialInvariant, PTL

\* Every mounted device holds a formatted block also when runs share names,
\* as long as they do not overlap.
THEOREM SerialMountsFormatted == ASSUME SameNameSameSize PROVE SerialSpec => []MountedIsFormatted
<1>1. SInv => MountedIsFormatted
  <2> SUFFICES ASSUME SInv, NEW i \in 1..Len(mtab)
               PROVE  /\ backing[mtab[i].dev] # NoRun
                      /\ block[backing[mtab[i].dev]].fmt = "xfs"
    BY DEF MountedIsFormatted
  <2>1. /\ backing[mtab[i].dev] \in Run
        /\ block[backing[mtab[i].dev]] = [gb |-> Size(mtab[i].by), fmt |-> "xfs"]
    BY DEF SInv, MountsShow
  <2> QED
    BY <2>1, NullAssumption
<1> QED
  BY <1>1, SerialInvariant, PTL

-----------------------------------------------------------------------------
(* Recovery *)

\* What the theorem needs of the constants: every argument asks for a block, and
\* there is a device for every run.
AllAskForBlocks == \A r \in Run : VfsSize(r) > 0 /\ ~Oversize(Size(r)) /\ Size(r) # 0
EnoughDevices == /\ IsFiniteSet(Run) /\ IsFiniteSet(Dev)
                 /\ Cardinality(Run) <= Cardinality(Dev)

Attached == {"get_free", "open_file", "open_dev", "set_fd", "set_status", "close_dev",
             "mount", "chmod", "chown"}

\* A run in flight that succeeds unless one more fault happens.
Healthy(r) ==
  /\ dirs = {"hss", "share"}
  /\ \/ pc[r] = "access" /\ (Inode(r) = NoRun \/ block[Inode(r)].fmt = "xfs")
     \/ pc[r] \in {"creat", "ftruncate"}
     \/ pc[r] = "mkfs" /\ block[r].gb # 0 /\ block[r].fmt = "blank"
     \/ /\ pc[r] \in Attached
        /\ Inode(r) # NoRun /\ block[Inode(r)].fmt = "xfs"
        /\ pc[r] \in {"open_dev", "set_fd"} => file_fd[r] = Inode(r)
        /\ pc[r] \in {"open_file", "open_dev", "set_fd"} => backing[dev[r]] = NoRun
        /\ pc[r] \in {"set_status", "close_dev", "mount"} =>
             backing[dev[r]] = Inode(r) /\ ~autoclear[dev[r]]

Doomed == {r \in Run : pc[r] \notin {"parse", "ok"} /\ ~Healthy(r)}

\* A run in flight answers for its file, but for one that mkfs is to refuse.
Covers(r) == InFlight(r) /\ ~(pc[r] = "mkfs" /\ block[r].gb = 0)

\* Names under which an unformatted file waits for the next run.
Spoiled == {n \in Name : /\ dirent[n] # NoRun /\ block[dirent[n]].fmt # "xfs"
                         /\ \A r \in Run : NameOf[r] = n => ~Covers(r)}

FaultsPay == Cardinality(Doomed) + Cardinality(Spoiled) <= 2 * faults

\* A bound device was given to a run, and a run gets one device.
DevsUsed == /\ \A d \in Dev : backing[d] # NoRun => \E q \in Run : dev[q] = d
            /\ \A r \in Run : pc[r] \in Making \cup {"get_free"} => dev[r] = NoDev

RInv == SInv /\ DevsUsed /\ FaultsPay

-----------------------------------------------------------------------------
(* Faults and devices *)

LEMMA OneFaultAtMost ==
  ASSUME TypeOK, NEW r \in Run, Step(r) \/ Kill(r)
  PROVE  UNCHANGED faults \/ Fault
<1>1. CASE ParseArgs(r)
  BY <1>1 DEF ParseArgs
<1>2. CASE Access(r) \/ Creat(r) \/ Ftruncate(r) \/ Mkfs(r)
  BY <1>2 DEF Access, Creat, Ftruncate, Mkfs, Fails
<1>3. CASE LoopdevFindUnused(r) \/ OpenFile(r) \/ OpenDev(r) \/ SetFd(r) \/ SetStatus(r)
  BY <1>3 DEF LoopdevFindUnused, OpenFile, OpenDev, SetFd, SetStatus, Fails
<1>4. CASE CloseDev(r) \/ ClrFd(r) \/ CloseAfterError(r) \/ MountDev(r)
  BY <1>4 DEF CloseDev, ClrFd, CloseAfterError, MountDev, Fails
<1>5. CASE Chmod(r) \/ Chown(r) \/ UMount(r) \/ Remove(r) \/ Kill(r)
  BY <1>5 DEF Chmod, Chown, UMount, Remove, Kill
<1> QED
  BY <1>1, <1>2, <1>3, <1>4, <1>5 DEF Step

LEMMA FreeDevice ==
  ASSUME EnoughDevices, TypeOK, DevsUsed, NEW r \in Run, pc[r] = "get_free"
  PROVE  GetFreeDevs # {}
<1> SUFFICES ASSUME GetFreeDevs = {} PROVE FALSE
  OBVIOUS
<1>1. dev[r] = NoDev
  BY DEF DevsUsed
<1>2. \A d \in Dev : \E q \in Run \ {r} : dev[q] = d
  BY <1>1, NullAssumption DEF GetFreeDevs, DevsUsed
<1> DEFINE user == [d \in Dev |-> CHOOSE q \in Run \ {r} : dev[q] = d]
<1>3. \A d \in Dev : user[d] \in Run \ {r} /\ dev[user[d]] = d
  BY <1>2
<1>4. user \in [Dev -> Run \ {r}]
  BY <1>3
<1>5. IsFiniteSet(Run \ {r}) /\ Cardinality(Run \ {r}) = Cardinality(Run) - 1
  BY FS_RemoveElement DEF EnoughDevices
<1>6. Cardinality(Run) \in Nat /\ Cardinality(Dev) \in Nat
  BY FS_CardinalityType DEF EnoughDevices
<1>7. Cardinality(Run \ {r}) < Cardinality(Dev)
  BY <1>5, <1>6 DEF EnoughDevices
<1> HIDE DEF user
<1>8. PICK d \in Dev, e \in Dev : d # e /\ user[d] = user[e]
  BY <1>4, <1>5, <1>7, FS_PigeonHole DEF EnoughDevices
<1> QED
  BY <1>3, <1>8

LEMMA DevsUsedStep ==
  ASSUME TypeOK, MountsInv, DevsUsed, NEW r \in Run, Step(r) \/ Kill(r)
  PROVE  DevsUsed'
<1>1. Arrives(r) /\ Touches(r)
  BY EffectsOfCall
<1>2. ASSUME NEW d \in Dev, backing'[d] # NoRun PROVE \E q \in Run : dev'[q] = d
  <2>1. CASE backing[d] # NoRun
    <3>1. PICK q \in Run : dev[q] = d
      BY <2>1 DEF DevsUsed
    <3>2. dev'[q] = dev[q]
      BY <1>1, <3>1, NullAssumption DEF Touches, DevsUsed
    <3> QED
      BY <3>1, <3>2
  <2>2. CASE backing[d] = NoRun
    <3>1. d = dev[r] /\ dev'[r] = dev[r]
      BY <1>1, <1>2, <2>2 DEF Touches
    <3> QED
      BY <3>1
  <2> QED
    BY <2>1, <2>2
<1>3. ASSUME NEW q \in Run, pc'[q] \in Making \cup {"get_free"} PROVE dev'[q] = NoDev
  <2>1. (pc[q] \in Making /\ q = r) \/ (q # r /\ pc'[q] = pc[q])
    BY <1>1, <1>3 DEF Arrives, Touches, Making
  <2>2. dev'[q] = dev[q]
    BY <1>1, <2>1 DEF Touches, Making
  <2> QED
    BY <1>3, <2>1, <2>2 DEF DevsUsed
<1> QED
  BY <1>2, <1>3 DEF DevsUsed, Making

-----------------------------------------------------------------------------
(* What one call does to a run and to its name *)

LEMMA DoomedStep ==
  ASSUME TypeOK, MountsInv, OneAtATime, NEW r \in Run, Serially(r)
  PROVE  Doomed' \subseteq Doomed \cup {r}
<1>1. Touches(r)
  BY EffectsOfCall DEF Serially
<1> SUFFICES ASSUME NEW q \in Run, q # r, pc'[q] \notin {"parse", "ok"}, ~Healthy(q)'
             PROVE  ~Healthy(q) /\ pc[q] = pc'[q]
  BY DEF Doomed
<1>2. pc'[q] = pc[q] /\ dev'[q] = dev[q] /\ file_fd'[q] = file_fd[q]
  BY <1>1 DEF Touches
<1>3. CASE InFlight(q)
  <2>1. UNCHANGED <<kernelVars, diskVars>>
    BY <1>3, OneActs
  <2> QED
    BY <1>2, <2>1 DEF kernelVars, diskVars, Healthy, Inode
<1>4. CASE ~InFlight(q)
  BY <1>2, <1>4 DEF InFlight, Exited, Healthy, Attached
<1> QED
  BY <1>3, <1>4

LEMMA SpoiledStep ==
  ASSUME TypeOK, MountsInv, Files, NewFile, NEW r \in Run, Step(r) \/ Kill(r)
  PROVE  Spoiled' \subseteq Spoiled \cup {NameOf[r]}
<1>1. Touches(r)
  BY EffectsOfCall
<1> SUFFICES ASSUME NEW n \in Name, n # NameOf[r], dirent'[n] # NoRun,
                    block'[dirent'[n]].fmt # "xfs",
                    \A q \in Run : NameOf[q] = n => ~Covers(q)'
             PROVE  n \in Spoiled
  BY DEF Spoiled, Name
<1>2. dirent'[n] = dirent[n]
  <2>1. CASE Creat(r) \/ Remove(r)
    BY <2>1 DEF Creat, Remove, TypeOK, DiskTypeOK
  <2>2. CASE Ftruncate(r) \/ Mkfs(r) \/ dirent' = dirent
    BY <2>2 DEF Ftruncate, Mkfs
  <2> QED
    BY <1>1, <2>1, <2>2 DEF Touches
<1>3. dirent[n] \in Run \ {r}
  BY <1>2 DEF Files, TypeOK, DiskTypeOK
<1>4. block'[dirent[n]] = block[dirent[n]]
  BY <1>3, OwnWrites
<1>5. ASSUME NEW q \in Run, NameOf[q] = n PROVE ~Covers(q)
  <2>1. q # r /\ pc'[q] = pc[q] /\ block'[q] = block[q]
    BY <1>1, <1>5, OwnWrites DEF Touches
  <2>2. ~Covers(q)'
    BY <1>5
  <2> QED
    BY <2>1, <2>2 DEF Covers, InFlight
<1> QED
  BY <1>2, <1>3, <1>4, <1>5 DEF Spoiled

\* Without a fault a healthy run stays healthy until it succeeds.
LEMMA HealthyStep ==
  ASSUME AllAskForBlocks, EnoughDevices, TypeOK, MountsInv, SInv, DevsUsed,
         NEW r \in Run, Step(r), UNCHANGED faults, Healthy(r)
  PROVE  Healthy(r)' \/ pc'[r] = "ok"
<1>1. ~Fault /\ faults' = faults
  BY RunAssumption DEF Fault, TypeOK
<1>2. Arrives(r) /\ Touches(r)
  BY EffectsOfCall
<1>3. CASE Access(r)
  BY <1>3 DEF Access, Goto, TypeOK, RunTypeOK, Healthy, Attached, Inode, diskVars
<1>4. CASE Creat(r)
  <2>1. pc'[r] = "ftruncate" /\ dirs' = dirs
    BY <1>1, <1>4 DEF Creat, Fails, Goto, Healthy, TypeOK, RunTypeOK
  <2> QED
    BY <2>1 DEF Healthy
<1>5. CASE Ftruncate(r)
  <2>1. pc[r] = "ftruncate" /\ file_fd[r] = r /\ block[r] = [gb |-> 0, fmt |-> "blank"] /\ dirs' = dirs
    BY <1>5 DEF Ftruncate, SInv, NewFile, Making
  <2>2. block'[r] = [gb |-> Size(r), fmt |-> "blank"] /\ pc'[r] = "mkfs"
    BY <1>1, <1>5, <2>1 DEF Ftruncate, Goto, Size, TypeOK, DiskTypeOK, RunTypeOK
  <2> QED
    BY <2>1, <2>2 DEF Healthy, AllAskForBlocks, Size, VfsSize
<1>6. CASE Mkfs(r)
  <2>1. pc[r] = "mkfs" /\ Inode(r) = r /\ block[r].gb # 0 /\ block[r].fmt = "blank" /\ dirs' = dirs
    BY <1>6 DEF Mkfs, SInv, NewFile, Making, Healthy, Attached
  <2>2. block'[r].fmt = "xfs" /\ pc'[r] = "get_free" /\ dirent' = dirent
    BY <1>1, <1>6, <2>1, NullAssumption DEF Mkfs, Fails, Goto, TypeOK, DiskTypeOK, RunTypeOK
  <2>3. Inode(r)' = r
    BY <2>1, <2>2 DEF Inode
  <2> QED
    BY <2>1, <2>2, <2>3, NullAssumption DEF Healthy, Attached
<1>7. CASE /\ pc[r] \in Attached
           /\ LoopdevFindUnused(r) \/ OpenFile(r) \/ OpenDev(r) \/ SetFd(r) \/ SetStatus(r)
              \/ CloseDev(r) \/ MountDev(r) \/ Chmod(r) \/ Chown(r)
  <2>1. UNCHANGED diskVars
    BY <1>7 DEF LoopdevFindUnused, OpenFile, OpenDev, SetFd, SetStatus, CloseDev, MountDev, Chmod, Chown
  <2>2. /\ dirs' = {"hss", "share"} /\ Inode(r)' = Inode(r) /\ Inode(r) # NoRun
        /\ block[Inode(r)].fmt = "xfs" /\ block'[Inode(r)].fmt = "xfs"
    BY <1>7, <2>1 DEF Healthy, Attached, Inode, diskVars
  <2>3. CASE LoopdevFindUnused(r)
    <3>1. pc[r] = "get_free" /\ GetFreeDevs # {} /\ UNCHANGED kernelVars
      BY <2>3, FreeDevice DEF LoopdevFindUnused
    <3>2. pc'[r] = "open_file" /\ dev'[r] \in GetFreeDevs
      BY <1>1, <2>3, <3>1 DEF LoopdevFindUnused, Fails, Goto, TypeOK, RunTypeOK
    <3> QED
      BY <2>2, <3>1, <3>2 DEF Healthy, Attached, GetFreeDevs, kernelVars
  <2>4. CASE OpenFile(r)
    <3>1. pc'[r] = "open_dev" /\ file_fd'[r] = Inode(r) /\ dev' = dev /\ backing' = backing /\ pc[r] = "open_file"
      BY <1>1, <2>2, <2>4 DEF OpenFile, Fails, Goto, TypeOK, RunTypeOK, kernelVars
    <3> QED
      BY <2>2, <3>1 DEF Healthy, Attached
  <2>5. CASE OpenDev(r)
    <3>1. pc'[r] = "set_fd" /\ file_fd' = file_fd /\ dev' = dev /\ backing' = backing /\ pc[r] = "open_dev"
      BY <1>1, <2>5 DEF OpenDev, Goto, TypeOK, RunTypeOK, kernelVars
    <3> QED
      BY <2>2, <3>1 DEF Healthy, Attached
  <2>6. CASE SetFd(r)
    <3>1. pc[r] = "set_fd" /\ backing[dev[r]] = NoRun /\ file_fd[r] = Inode(r) /\ dev[r] \in Dev
      BY <2>6 DEF SetFd, Healthy, Attached, TypeOK, HandlesOK, DevOpen
    <3>2. pc'[r] = "set_status" /\ LoopSetFd(dev[r], Inode(r)) /\ dev' = dev
      BY <1>1, <2>6, <3>1 DEF SetFd, Fails, Goto, TypeOK, RunTypeOK
    <3>3. backing'[dev[r]] = Inode(r) /\ ~autoclear'[dev[r]]
      BY <3>1, <3>2 DEF LoopSetFd, TypeOK, KernelTypeOK
    <3> QED
      BY <2>2, <3>2, <3>3 DEF Healthy, Attached
  <2>7. CASE SetStatus(r)
    <3>1. pc[r] = "set_status" /\ backing[dev[r]] = Inode(r) /\ dev[r] \in Dev /\ dev' = dev
      BY <2>7 DEF SetStatus, Healthy, Attached, TypeOK, HandlesOK, DevOpen, runVars
    <3>2. pc'[r] = "close_dev" /\ LoopSetStatus(dev[r])
      BY <1>1, <2>2, <2>7, <3>1 DEF SetStatus, Fails, Goto, TypeOK, RunTypeOK
    <3>3. backing'[dev[r]] = Inode(r) /\ ~autoclear'[dev[r]]
      BY <3>1, <3>2 DEF LoopSetStatus, TypeOK, KernelTypeOK
    <3> QED
      BY <2>2, <3>1, <3>2, <3>3 DEF Healthy, Attached
  <2>8. CASE CloseDev(r)
    <3>1. pc[r] = "close_dev" /\ backing[dev[r]] = Inode(r) /\ ~autoclear[dev[r]] /\ dev' = dev
      BY <2>8 DEF CloseDev, Healthy, Attached, runVars
    <3>2. pc'[r] = "mount" /\ UNCHANGED <<backing, autoclear>>
      BY <2>8, <3>1 DEF CloseDev, CloseLoop, Goto, TypeOK, RunTypeOK
    <3> QED
      BY <2>2, <3>1, <3>2 DEF Healthy, Attached
  <2>9. CASE MountDev(r)
    <3>1. pc[r] = "mount" /\ backing[dev[r]] = Inode(r) /\ "share" \in dirs
      BY <2>9 DEF MountDev, Healthy, Attached
    <3>2. ~Mounted(dev[r])
      BY <3>1 DEF SInv, Attach, Attaching
    <3>3. ~OnTop(dev[r])
      BY <3>2 DEF OnTop, Mounted, TypeOK, KernelTypeOK
    <3>4. pc'[r] = "chmod"
      BY <1>1, <2>2, <2>9, <3>1, <3>3 DEF MountDev, Fails, Goto, TypeOK, RunTypeOK
    <3> QED
      BY <2>2, <3>4 DEF Healthy, Attached
  <2>10. CASE Chmod(r) \/ Chown(r)
    <3>1. pc'[r] \in {"chown", "ok"}
      BY <1>1, <2>10 DEF Chmod, Chown, Goto, TypeOK, RunTypeOK
    <3> QED
      BY <2>2, <3>1 DEF Healthy, Attached
  <2> QED
    BY <1>7, <2>3, <2>4, <2>5, <2>6, <2>7, <2>8, <2>9, <2>10
<1>8. CASE ParseArgs(r) \/ ClrFd(r) \/ CloseAfterError(r) \/ UMount(r) \/ Remove(r)
  BY <1>8 DEF ParseArgs, ClrFd, CloseAfterError, UMount, Remove, Healthy, Attached
<1> QED
  BY <1>3, <1>4, <1>5, <1>6, <1>7, <1>8
     DEF Step, Attached, LoopdevFindUnused, OpenFile, OpenDev, SetFd, SetStatus, CloseDev, MountDev, Chmod, Chown

\* What a call without a fault does to the accounts: nothing, or the run comes
\* upon a spoiled file, or a run that was given up succeeds after all.
Balanced(r) ==
  \/ Doomed' \subseteq Doomed /\ Spoiled' \subseteq Spoiled
  \/ /\ NameOf[r] \in Spoiled
     /\ Doomed' \subseteq Doomed \cup {r} /\ Spoiled' \subseteq Spoiled \ {NameOf[r]}
  \/ /\ r \in Doomed
     /\ Doomed' \subseteq Doomed \ {r} /\ Spoiled' \subseteq Spoiled \cup {NameOf[r]}

LEMMA ParseBalanced ==
  ASSUME AllAskForBlocks, TypeOK, MountsInv, SInv,
         NEW r \in Run, Alone(r), ParseArgs(r), UNCHANGED faults
  PROVE  Balanced(r)
<1>1. Doomed' \subseteq Doomed \cup {r} /\ Spoiled' \subseteq Spoiled \cup {NameOf[r]}
  BY DoomedStep, SpoiledStep DEF Step, Serially, SInv
<1>2. /\ pc[r] = "parse" /\ pc'[r] = "access" /\ dirs' = {"hss", "share"}
      /\ UNCHANGED <<dirent, block>> /\ NameOf[r] \in Name
  <2>1. ~Fault
    BY RunAssumption DEF Fault, TypeOK
  <2>2. VfsSize(r) > 0 /\ ~Oversize(PassedSize(VfsSize(r))) /\ VfsSize(r) \in Int
    BY SizeNat DEF AllAskForBlocks, Size
  <2> QED
    BY <2>1, <2>2 DEF ParseArgs, Goto, Name, TypeOK, RunTypeOK
<1>3. Inode(r)' = Inode(r)
  BY <1>2 DEF Inode
<1>4. NameOf[r] \notin Spoiled'
  BY <1>2 DEF Spoiled, Covers, InFlight, Exited
<1>5. CASE Inode(r) = NoRun \/ block[Inode(r)].fmt = "xfs"
  <2>1. Healthy(r)'
    BY <1>2, <1>3, <1>5 DEF Healthy
  <2>2. r \notin Doomed'
    BY <2>1 DEF Doomed
  <2> QED
    BY <1>1, <1>4, <2>2 DEF Balanced
<1>6. CASE Inode(r) # NoRun /\ block[Inode(r)].fmt # "xfs"
  <2>1. \A q \in Run : ~InFlight(q)
    BY <1>2 DEF Alone, InFlight
  <2>2. NameOf[r] \in Spoiled
    BY <1>2, <1>6, <2>1 DEF Spoiled, Covers, Inode
  <2> QED
    BY <1>1, <1>4, <2>2 DEF Balanced
<1> QED
  BY <1>5, <1>6

\* A run that fails without a fault leaves no spoiled file that was not there.
LEMMA FailsClean ==
  ASSUME TypeOK, MountsInv, SInv, NEW r \in Run, Step(r), UNCHANGED faults,
         pc[r] # "parse", pc'[r] \in Exited \ {"ok"}, NameOf[r] \in Spoiled'
  PROVE  /\ pc[r] = "mkfs" /\ block[r].gb = 0
         /\ dirent[NameOf[r]] # NoRun /\ block[dirent[NameOf[r]]].fmt # "xfs"
<1>1. ~Fault /\ NameOf[r] \in Name
  BY RunAssumption DEF Fault, TypeOK, Name
<1>2. dirent'[NameOf[r]] # NoRun /\ block'[dirent'[NameOf[r]]].fmt # "xfs"
  BY DEF Spoiled
<1>3. ~(pc'[r] \in Attached \cup Making \cup DevOpen \cup {"umount", "remove"})
  BY DEF Exited, Attached, Making, DevOpen
<1>4. CASE Creat(r)
  <2>1. Inode(r) = NoRun /\ dirent' = dirent
    <3>1. Inode(r) = NoRun
      BY <1>4 DEF Creat, SInv, NewFile, Making
    <3>2. pc'[r] # "ftruncate"
      BY <1>3 DEF Making
    <3>3. dirent' = dirent
      BY <1>4, <3>2, CreatNew DEF SInv, Goto, TypeOK, RunTypeOK
    <3> QED
      BY <3>1, <3>3
  <2> QED
    BY <1>2, <2>1 DEF Inode
<1>5. CASE Mkfs(r)
  <2>1. pc[r] = "mkfs" /\ Inode(r) = r /\ dirent' = dirent
    BY <1>5 DEF Mkfs, SInv, NewFile, Making
  <2>2. block' = block
    BY <1>3, <1>5 DEF Mkfs, Goto, TypeOK, RunTypeOK, Attached
  <2>3. block[r].fmt # "xfs"
    BY <1>2, <2>1, <2>2 DEF Inode
  <2>4. block[r].gb = 0
    BY <1>1, <1>3, <1>5, <2>1, <2>3, NullAssumption
       DEF Mkfs, Fails, Goto, TypeOK, RunTypeOK, Attached
  <2> QED
    BY <1>2, <2>1, <2>2, <2>4
<1>6. CASE Remove(r)
  BY <1>1, <1>2, <1>6 DEF Remove, TypeOK, DiskTypeOK
<1>7. CASE Access(r) \/ Ftruncate(r) \/ LoopdevFindUnused(r) \/ OpenFile(r) \/ OpenDev(r) \/ SetFd(r)
  BY <1>3, <1>7 DEF Access, Ftruncate, LoopdevFindUnused, OpenFile, OpenDev, SetFd, MountFails,
                    Goto, TypeOK, RunTypeOK, Attached, Making, DevOpen
<1>8. CASE SetStatus(r) \/ CloseDev(r) \/ ClrFd(r) \/ CloseAfterError(r) \/ MountDev(r)
  BY <1>3, <1>8 DEF SetStatus, CloseDev, ClrFd, CloseAfterError, MountDev, MountFails,
                    Goto, TypeOK, RunTypeOK, Attached, Making, DevOpen
<1>9. CASE Chmod(r) \/ Chown(r) \/ UMount(r)
  BY <1>3, <1>9 DEF Chmod, Chown, UMount, Goto, TypeOK, RunTypeOK, Attached, Exited
<1>10. CASE ParseArgs(r)
  BY <1>10 DEF ParseArgs
<1> QED
  BY <1>4, <1>5, <1>6, <1>7, <1>8, <1>9, <1>10 DEF Step

LEMMA CallBalanced ==
  ASSUME AllAskForBlocks, EnoughDevices, TypeOK, MountsInv, SInv, DevsUsed,
         NEW r \in Run, Alone(r), Step(r), UNCHANGED faults, pc[r] # "parse"
  PROVE  Balanced(r)
<1>1. Doomed' \subseteq Doomed \cup {r} /\ Spoiled' \subseteq Spoiled \cup {NameOf[r]}
  BY DoomedStep, SpoiledStep DEF Serially, SInv
<1>2. Arrives(r) /\ Touches(r) /\ pc[r] \notin Exited
  BY EffectsOfCall, OnePcMoves
<1>3. NameOf[r] \in Name
  BY DEF Name
\* A file of an unformatted inode that waits was already waiting.
<1>4. \A q \in Run \ {r} : ~Covers(q)
  BY DEF Alone, Covers, InFlight
<1>5. CASE Healthy(r)
  <2>1. Healthy(r)' \/ pc'[r] = "ok"
    BY <1>5, HealthyStep
  <2>2. r \notin Doomed'
    BY <2>1 DEF Doomed
  <2>3. NameOf[r] \notin Spoiled'
    <3>1. CASE Healthy(r)'
      <4>1. Covers(r)'
        BY <3>1 DEF Healthy, Covers, InFlight, Exited, Attached
      <4> QED
        BY <4>1 DEF Spoiled
    <3>2. CASE pc'[r] = "ok"
      <4>1. pc[r] = "chown" /\ UNCHANGED <<dirent, block>>
        BY <1>2, <3>2 DEF Arrives, Touches, Creat, Ftruncate, Mkfs, Remove
      <4>2. block'[dirent'[NameOf[r]]].fmt = "xfs"
        BY <1>5, <4>1 DEF Healthy, Attached, Inode
      <4> QED
        BY <4>2 DEF Spoiled
    <3> QED
      BY <2>1, <3>1, <3>2
  <2> QED
    BY <1>1, <2>2, <2>3 DEF Balanced
<1>6. CASE ~Healthy(r)
  <2>1. r \in Doomed
    BY <1>2, <1>6 DEF Doomed, Exited
  <2>2. CASE pc'[r] = "ok"
    <3>1. r \notin Doomed'
      BY <2>2 DEF Doomed
    <3> QED
      BY <1>1, <2>1, <3>1 DEF Balanced
  <2>3. CASE pc'[r] # "ok" /\ NameOf[r] \in Spoiled'
    <3>1. ~Covers(r)'
      BY <2>3 DEF Spoiled
    <3>2. CASE pc'[r] \in Exited
      <4>1. /\ pc[r] = "mkfs" /\ block[r].gb = 0
            /\ dirent[NameOf[r]] # NoRun /\ block[dirent[NameOf[r]]].fmt # "xfs"
        BY <2>3, <3>2, FailsClean
      <4>2. ~Covers(r)
        BY <4>1 DEF Covers
      <4>3. NameOf[r] \in Spoiled
        BY <1>3, <1>4, <4>1, <4>2 DEF Spoiled
      <4> QED
        BY <1>1, <2>1, <4>3 DEF Balanced
    <3>3. CASE pc'[r] = "mkfs" /\ block'[r].gb = 0
      <4>1. Ftruncate(r) /\ pc[r] = "ftruncate"
        BY <1>2, <3>3 DEF Arrives, Touches, Creat, Mkfs, Remove
      <4>2. file_fd[r] = r /\ ~Fault
        BY <4>1, RunAssumption DEF SInv, NewFile, Making, Fault, TypeOK
      <4>3. block'[r].gb = Size(r)
        BY <4>1, <4>2 DEF Ftruncate, Size, TypeOK, DiskTypeOK
      <4> QED
        BY <3>3, <4>3 DEF AllAskForBlocks
    <3> QED
      BY <1>2, <3>1, <3>2, <3>3 DEF Covers, InFlight, Arrives
  <2>4. CASE NameOf[r] \notin Spoiled'
    BY <1>1, <2>1, <2>4 DEF Balanced
  <2> QED
    BY <2>2, <2>3, <2>4
<1> QED
  BY <1>5, <1>6

-----------------------------------------------------------------------------
(* The accounts *)

LEMMA NamesFinite ==
  ASSUME EnoughDevices
  PROVE  IsFiniteSet(Name)
<1> DEFINE name == [r \in Run |-> NameOf[r]]
<1>1. name \in Surjection(Run, Name)
  BY DEF Surjection, Name
<1> QED
  BY <1>1, FS_Surjection DEF EnoughDevices

LEMMA AccountsFinite ==
  ASSUME EnoughDevices
  PROVE  /\ IsFiniteSet(Doomed) /\ IsFiniteSet(Spoiled)
         /\ Cardinality(Doomed) \in Nat /\ Cardinality(Spoiled) \in Nat
<1>1. Doomed \in SUBSET Run /\ Spoiled \in SUBSET Name
  BY DEF Doomed, Spoiled
<1>2. IsFiniteSet(Doomed) /\ IsFiniteSet(Spoiled)
  BY <1>1, NamesFinite, FS_Subset DEF EnoughDevices
<1> QED
  BY <1>2, FS_CardinalityType

LEMMA FaultsPayStep ==
  ASSUME AllAskForBlocks, EnoughDevices, TypeOK, MountsInv, RInv, NEW r \in Run, Serially(r)
  PROVE  FaultsPay'
<1>0. SInv /\ DevsUsed /\ FaultsPay /\ (Step(r) \/ Kill(r))
  BY DEF RInv, Serially
<1>1. Doomed' \subseteq Doomed \cup {r} /\ Spoiled' \subseteq Spoiled \cup {NameOf[r]}
  BY <1>0, DoomedStep, SpoiledStep DEF SInv
<1>2. IsFiniteSet(Doomed) /\ IsFiniteSet(Spoiled)
  BY AccountsFinite
<1>3. /\ Cardinality(Doomed) \in Nat /\ Cardinality(Spoiled) \in Nat
      /\ Cardinality(Doomed') \in Nat /\ Cardinality(Spoiled') \in Nat
      /\ Cardinality(Doomed') <= Cardinality(Doomed) + 1
      /\ Cardinality(Spoiled') <= Cardinality(Spoiled) + 1
  BY <1>1, <1>2, GainsAtMostOne
<1>4. faults \in Nat /\ Cardinality(Doomed) + Cardinality(Spoiled) <= 2 * faults
  BY <1>0, RunAssumption DEF TypeOK, FaultsPay
<1>5. CASE Fault
  BY <1>3, <1>4, <1>5 DEF Fault, FaultsPay
<1>6. CASE UNCHANGED faults
  <2>1. Alone(r) /\ Step(r)
    BY <1>6, RunAssumption DEF Serially, Kill, Fault, TypeOK
  <2>2. pc[r] = "parse" => ParseArgs(r)
    BY <2>1 DEF Step, Access, Creat, Ftruncate, Mkfs, LoopdevFindUnused, OpenFile, OpenDev,
                SetFd, SetStatus, CloseDev, ClrFd, CloseAfterError, MountDev, Chmod, Chown, UMount, Remove
  <2>3. Balanced(r)
    BY <1>0, <1>6, <2>1, <2>2, ParseBalanced, CallBalanced
  <2>4. Cardinality(Doomed') + Cardinality(Spoiled') <= Cardinality(Doomed) + Cardinality(Spoiled)
    <3>1. CASE Doomed' \subseteq Doomed /\ Spoiled' \subseteq Spoiled
      <4>1. Cardinality(Doomed') <= Cardinality(Doomed) /\ Cardinality(Spoiled') <= Cardinality(Spoiled)
        BY <1>2, <3>1, FS_Subset
      <4> QED
        BY <1>3, <4>1
    <3>2. CASE /\ NameOf[r] \in Spoiled
               /\ Spoiled' \subseteq Spoiled \ {NameOf[r]}
      <4>1. Cardinality(Spoiled') <= Cardinality(Spoiled) - 1
        BY <1>2, <3>2, LosesOne
      <4> QED
        BY <1>3, <4>1
    <3>3. CASE r \in Doomed /\ Doomed' \subseteq Doomed \ {r}
      <4>1. Cardinality(Doomed') <= Cardinality(Doomed) - 1
        BY <1>2, <3>3, LosesOne
      <4> QED
        BY <1>3, <4>1
    <3> QED
      BY <2>3, <3>1, <3>2, <3>3 DEF Balanced
  <2> QED
    BY <1>3, <1>4, <1>6, <2>4 DEF FaultsPay
<1> QED
  BY <1>0, <1>5, <1>6, OneFaultAtMost

-----------------------------------------------------------------------------
(* The theorem *)

\* When runs do not overlap, the runs that fail or are killed are no more than two
\* for each fault, whatever is left under HSS/ and however often a name is retried:
\* main removes the file it could not mount (Pre-Expedite.c:93), so that one retry
\* pays for a leftover and the next one is clean.
THEOREM FaultsSpoilTwoRuns ==
  ASSUME SameNameSameSize, AllAskForBlocks, EnoughDevices
  PROVE  SerialSpec => []FaultSpoilsTwoRuns
<1>1. Init => TypeOK /\ MountsInv /\ DevsUsed /\ FaultsPay
  <2> SUFFICES ASSUME Init PROVE TypeOK /\ MountsInv /\ DevsUsed /\ FaultsPay
    OBVIOUS
  <2>1. TypeOK /\ MountsInv
    BY RunAssumption
       DEF Init, TypeOK, KernelInit, KernelTypeOK, DiskTypeOK, RunTypeOK, HandlesOK,
           Mount, Perm, OnDisk, Stage, DevOpen, Exited, MountsInv
  <2>2. DevsUsed
    BY DEF Init, KernelInit, DevsUsed
  <2>3. Doomed = {} /\ Spoiled = {}
    BY DEF Init, Doomed, Spoiled
  <2> QED
    BY <2>1, <2>2, <2>3, FS_EmptySet DEF FaultsPay, Init
<1>2. TypeOK /\ MountsInv /\ SInv /\ DevsUsed /\ FaultsPay /\ [SerialNext]_vars
        => MountsInv' /\ DevsUsed' /\ FaultsPay'
  <2> SUFFICES ASSUME TypeOK, MountsInv, SInv, DevsUsed, FaultsPay, [SerialNext]_vars
               PROVE  MountsInv' /\ DevsUsed' /\ FaultsPay'
    OBVIOUS
  <2>1. CASE \E r \in Run : Serially(r)
    <3> PICK r \in Run : Serially(r)
      BY <2>1
    <3>1. MountsInv'
      BY MountsStep, MountsInvStep DEF Serially
    <3>2. DevsUsed'
      BY DevsUsedStep DEF Serially
    <3>3. FaultsPay'
      BY FaultsPayStep DEF RInv
    <3> QED
      BY <3>1, <3>2, <3>3
  <2>2. CASE UNCHANGED vars
    <3>1. MountsInv' /\ DevsUsed'
      BY <2>2 DEF vars, kernelVars, runVars, MountsInv, DevsUsed
    <3>2. Doomed' = Doomed /\ Spoiled' = Spoiled /\ faults' = faults
      BY <2>2 DEF vars, kernelVars, diskVars, runVars, Doomed, Healthy, Inode, Spoiled, Covers, InFlight
    <3> QED
      BY <3>1, <3>2 DEF FaultsPay
  <2> QED
    BY <2>1, <2>2 DEF SerialNext, Serially, AllExited
<1>3. TypeOK /\ FaultsPay => FaultSpoilsTwoRuns
  <2> SUFFICES ASSUME TypeOK, FaultsPay
               PROVE  Cardinality({r \in Run : pc[r] \in {"fail", "killed"}}) <= 2 * faults
    BY DEF FaultSpoilsTwoRuns
  <2> DEFINE lost == {r \in Run : pc[r] \in {"fail", "killed"}}
  <2>1. lost \subseteq Doomed
    BY DEF Doomed, Healthy, Attached
  <2>2. IsFiniteSet(lost) /\ Cardinality(lost) <= Cardinality(Doomed)
    BY <2>1, AccountsFinite, FS_Subset
  <2>3. Cardinality(lost) \in Nat /\ faults \in Nat
    BY <2>2, FS_CardinalityType, RunAssumption DEF TypeOK
  <2> QED
    BY <2>2, <2>3, AccountsFinite DEF FaultsPay
<1> QED
  BY <1>1, <1>2, <1>3, SerialInvariant, PTL DEF SerialSpec
=============================================================================
