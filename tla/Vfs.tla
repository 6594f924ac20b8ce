-------------------------------- MODULE Vfs --------------------------------
(***************************************************************************)
(* The VFS layer: the table of named devices and mounted volumes           *)
(* (vfs/vfslist.c), path translation (vfs/vfslookup.c), the current        *)
(* directories (vfs/vfscwd.c), open and close (vfs/vfspath.c), the vnode   *)
(* reference counts (vfs/vnode.c) and those who use them: the menu         *)
(* (main/menu.c), the processes it starts, and shutdown (main/main.c).     *)
(* What a path finds inside a volume is left open; the volumes themselves  *)
(* are modules Sfs, Semfs and Emufs.                                       *)
(*                                                                         *)
(* vfs_biglock covers everything from acquire to release, so such a part   *)
(* is one step.  References are counted under a spinlock: every VOP_DECREF *)
(* made without vfs_biglock is a step of its own, and so is the reclaim    *)
(* that the last one asks for.                                             *)
(***************************************************************************)
EXTENDS Integers, Sequences, FiniteSets, SequencesExt

CONSTANTS
    Menu,       \* the kernel's process, in which the menu runs
    User,       \* the processes it may start
    Handle,     \* bound: the open files
    MaxLost,    \* bound: the vnodes whose reclaim fails
    Volume,     \* the fs objects that mount may make
    Attached,   \* the devices that autoconf attaches, in this order
    VolName,    \* the name on each disk
    None

Process == {Menu} \cup User
Hardwired == {a.fs : a \in {b \in Range(Attached) : b.kind = "fs"}}
Fs == Volume \cup Hardwired

\* The vnodes: a root and something below it in every volume, and the devices.
Leaf(f) == IF f \in Hardwired THEN <<f, "dir">> ELSE <<f, "file">>
Root(f) == <<f, "root">>
DevNode(n) == <<n, "device">>
Vnode == {Root(f) : f \in Fs} \cup {Leaf(f) : f \in Fs}
           \cup {DevNode(a.name) : a \in {b \in Range(Attached) : b.kind # "fs"}}
IsDir(v) == v[2] \in {"root", "dir"}
IsDevice(v) == v[2] = "device"

VARIABLES
    knowndevs,  \* the table: name, mountable or not, and kd_fs
    refs,       \* vn_refcount; 0 for a vnode of a volume that is not loaded
    p_cwd,      \* the current directory of each process
    bootfs,     \* bootfs_vnode
    files,      \* the vnodes of the open files
    st,         \* per process: where it is, its vnodes, and what it has to drop
    lost,       \* history: vnodes whose reclaim failed, and kept a reference
    unsynced,   \* history: a sync has failed at the end
    halted

vars == <<knowndevs, refs, p_cwd, bootfs, files, st, lost, unsynced, halted>>

----------------------------------------------------------------------------
(* The table of devices *)

Raw(n) == Append(n, "raw")
Names(kd) ==
    {kd.name} \cup (IF kd.mountable THEN {Raw(kd.name)} ELSE {})
      \cup (IF kd.fs \in Volume THEN {VolName[kd.name]} ELSE {})

badnames(devs, kd) == \E i \in DOMAIN devs : Names(devs[i]) \cap Names(kd) # {}

\* vfs_adddev for a device, vfs_addfs for a file system that is its own device.
vfs_doadd(devs, a) ==
    LET kd == [name |-> a.name, mountable |-> a.kind = "disk",
               fs |-> IF a.kind = "fs" THEN a.fs ELSE None] IN
    IF badnames(devs, kd) THEN devs ELSE Append(devs, kd)

\* What a device name refers to: a vnode, or None for ENXIO and ENODEV.
Refers(kd, n) ==
    IF kd.fs # None /\ n \in Names(kd) \ {Raw(kd.name)} THEN {Root(kd.fs)}
    ELSE IF n = kd.name THEN {IF kd.mountable THEN None ELSE DevNode(n)}
    ELSE IF kd.mountable /\ n = Raw(kd.name) THEN {DevNode(kd.name)}
    ELSE {}

\* The first device of the table that has the name decides.
vfs_getroot(n) ==
    LET hit == {i \in DOMAIN knowndevs : Refers(knowndevs[i], n) # {}} IN
    IF hit = {} THEN None
    ELSE CHOOSE v \in Vnode \cup {None} :
             v \in Refers(knowndevs[CHOOSE i \in hit : \A j \in hit : i <= j], n)

Mountable(n) == {i \in DOMAIN knowndevs : knowndevs[i].mountable /\ knowndevs[i].name = n}
Mounted == {i \in DOMAIN knowndevs : knowndevs[i].mountable /\ knowndevs[i].fs # None}

Init ==
    /\ knowndevs = FoldLeft(vfs_doadd, <<>>, Attached)
    /\ refs = [v \in Vnode |-> IF IsDevice(v) \/ v \in {Root(f) : f \in Hardwired}
                               THEN 1 ELSE 0]
    /\ p_cwd = [p \in Process |-> None]
    /\ bootfs = None
    /\ files = [h \in Handle |-> None]
    /\ st = [p \in Process |-> [pc |-> IF p = Menu THEN "idle" ELSE "dead",
                                vn |-> None, how |-> None, drops |-> <<>>]]
    /\ lost = {}
    /\ unsynced = FALSE
    /\ halted = FALSE

----------------------------------------------------------------------------
(* Paths: "dev" is name:rest, "boot" is /rest, "fs" is :rest, "rel" is rest. *)

DevNames == UNION {{a.name, Raw(a.name)} : a \in Range(Attached)}
              \cup {VolName[n] : n \in DOMAIN VolName}
Paths ==
    [from : {"dev"}, name : DevNames, rest : BOOLEAN]
      \cup [from : {"boot", "fs"}, name : {None}, rest : BOOLEAN]
      \cup [from : {"rel"}, name : {None}, rest : {TRUE}]

\* Where the translation begins; None is an error.
getdevice(p, path) ==
    CASE path.from = "rel" -> p_cwd[p]
      [] path.from = "dev" -> vfs_getroot(path.name)
      [] path.from = "boot" -> bootfs
      [] path.from = "fs" -> IF p_cwd[p] = None THEN None ELSE Root(p_cwd[p][1])

\* VOP_LOOKUP of what is left: a device has nothing below it, a directory may.
Found(p, path) ==
    LET v == getdevice(p, path) IN
    IF v = None THEN {None}
    ELSE IF ~path.rest THEN {v}
    ELSE IF v[2] = "root" THEN {Leaf(v[1]), None}
    ELSE {None}

\* VOP_LOOKPARENT: the directory; a device has no names in it.
Parent(p, path) ==
    LET v == getdevice(p, path) IN
    IF v = None \/ ~path.rest \/ ~IsDir(v) THEN {None} ELSE {v, None}

Incref(v) == refs' = [refs EXCEPT ![v] = @ + 1]
Calm(p) == ~halted /\ st[p].drops = <<>>
Ready(p) == Calm(p) /\ st[p].pc = "idle"
Go(p, pc, vn, how, drops) ==
    st' = [st EXCEPT ![p] = [pc |-> pc, vn |-> vn, how |-> how, drops |-> drops]]
GiveUp(p, drops) == Go(p, "idle", None, None, drops)

\* vfs_lookup for call `how': the vnode comes back with a reference.
Lookup(p, how) ==
    \E path \in Paths : \E v \in Found(p, path) :
        /\ v # None /\ Incref(v)
        /\ Go(p, how, v, how, <<>>)

----------------------------------------------------------------------------
(* References *)

\* vnode_decref outside vfs_biglock: the last reference is handed to reclaim.
vnode_decref(p) ==
    /\ ~halted /\ st[p].drops # <<>> /\ st[p].pc # "reclaim"
    /\ LET v == Head(st[p].drops) IN
       IF refs[v] > 1
         THEN /\ refs' = [refs EXCEPT ![v] = @ - 1]
              /\ st' = [st EXCEPT ![p].drops = Tail(@)]
         ELSE /\ st' = [st EXCEPT ![p] = [@ EXCEPT !.pc = "reclaim",
                                                   !.how = <<@, st[p].pc>>]]
              /\ UNCHANGED refs
    /\ UNCHANGED <<knowndevs, p_cwd, bootfs, files, lost, unsynced, halted>>

\* Mutant of Reclaim: a vnode somebody has found meanwhile goes too.
ReclaimBlind(p) ==
    /\ ~halted /\ st[p].pc = "reclaim"
    /\ refs' = [refs EXCEPT ![Head(st[p].drops)] = 0]
    /\ st' = [st EXCEPT ![p] = [@ EXCEPT !.drops = Tail(@), !.pc = st[p].how[2],
                                         !.how = st[p].how[1]]]
    /\ UNCHANGED <<knowndevs, p_cwd, bootfs, files, lost, unsynced, halted>>

\* VOP_RECLAIM under vfs_biglock: if somebody has found the vnode meanwhile the
\* reference is just dropped, else the vnode is unloaded, or a volume that cannot
\* write it back leaves it as it is.
Reclaim(p) ==
    /\ ~halted /\ st[p].pc = "reclaim"
    /\ LET v == Head(st[p].drops) IN
       \/ refs' = [refs EXCEPT ![v] = @ - 1] /\ UNCHANGED lost
       \/ /\ refs[v] = 1 /\ Cardinality(lost) < MaxLost
          /\ lost' = lost \cup {v} /\ UNCHANGED refs
    /\ st' = [st EXCEPT ![p] = [@ EXCEPT !.drops = Tail(@), !.pc = st[p].how[2],
                                         !.how = st[p].how[1]]]
    /\ UNCHANGED <<knowndevs, p_cwd, bootfs, files, unsynced, halted>>

----------------------------------------------------------------------------
(* Open and close *)

\* vfs_open without O_CREAT; writing is "rd" to a file, and "trunc" to a directory.
OpenLookup(p) ==
    /\ Ready(p)
    /\ \E path \in Paths, how \in {"rd", "trunc"} : \E v \in Found(p, path) :
           v # None /\ Incref(v) /\ Go(p, "eachopen", v, how, <<>>)
    /\ UNCHANGED <<knowndevs, p_cwd, bootfs, files, lost, unsynced, halted>>

\* vfs_open with O_CREAT, or vfs_remove: the directory first, ...
OpenParent(p) ==
    /\ Ready(p)
    /\ \E path \in Paths, how \in {"creat", "remove"} : \E v \in Parent(p, path) :
           v # None /\ Incref(v) /\ Go(p, "inparent", v, how, <<>>)
    /\ UNCHANGED <<knowndevs, p_cwd, bootfs, files, lost, unsynced, halted>>

\* ... then, no longer under the same vfs_biglock, VOP_CREAT or VOP_REMOVE in it.
InParent(p) ==
    /\ Calm(p) /\ st[p].pc = "inparent"
    /\ LET dir == st[p].vn
           new == Leaf(dir[1]) IN
       \/ /\ st[p].how = "creat" /\ dir[2] = "root"
          /\ Incref(new)
          /\ Go(p, "eachopen", new, "creat", <<dir>>)
       \/ GiveUp(p, <<dir>>) /\ UNCHANGED refs
    /\ UNCHANGED <<knowndevs, p_cwd, bootfs, files, lost, unsynced, halted>>

\* VOP_EACHOPEN and O_TRUNC: who may not be opened so, or cannot be cut short.
Refused(v, how) ==
    \/ IsDevice(v) /\ how \in {"creat", "trunc"}
    \/ IsDir(v) /\ how = "trunc"

EachOpen(p) ==
    /\ Calm(p) /\ st[p].pc = "eachopen"
    /\ LET v == st[p].vn IN
       \/ /\ ~Refused(v, st[p].how)
          /\ \E h \in Handle : files[h] = None /\ files' = [files EXCEPT ![h] = v]
          /\ GiveUp(p, <<>>)
       \/ /\ \/ Refused(v, st[p].how) \/ st[p].how \in {"creat", "trunc"}
             \/ \A h \in Handle : files[h] # None
          /\ GiveUp(p, <<v>>) /\ UNCHANGED files
    /\ UNCHANGED <<knowndevs, refs, p_cwd, bootfs, lost, unsynced, halted>>

\* vfs_close, by whoever closes an open file last.
Close(p) ==
    /\ Ready(p)
    /\ \E h \in Handle :
           /\ files[h] # None
           /\ files' = [files EXCEPT ![h] = None]
           /\ GiveUp(p, <<files[h]>>)
    /\ UNCHANGED <<knowndevs, refs, p_cwd, bootfs, lost, unsynced, halted>>

----------------------------------------------------------------------------
(* Current directories *)

\* cmd_chdir: vfs_chdir's lookup, ...
Chdir ==
    /\ Ready(Menu) /\ Lookup(Menu, "setcurdir")
    /\ UNCHANGED <<knowndevs, p_cwd, bootfs, files, lost, unsynced, halted>>

Old(v) == IF v = None THEN <<>> ELSE <<v>>

\* ... then vfs_setcurdir, and the drops of the old directory and of the lookup.
vfs_setcurdir ==
    /\ Calm(Menu) /\ st[Menu].pc = "setcurdir"
    /\ LET v == st[Menu].vn IN
       IF IsDir(v)
         THEN /\ Incref(v)
              /\ p_cwd' = [p_cwd EXCEPT ![Menu] = v]
              /\ GiveUp(Menu, Append(Old(p_cwd[Menu]), v))
         ELSE GiveUp(Menu, <<v>>) /\ UNCHANGED <<refs, p_cwd>>
    /\ UNCHANGED <<knowndevs, bootfs, files, lost, unsynced, halted>>

\* cmd_pwd: vfs_getcwd takes a reference while it looks for the volume's name.
GetcwdBegin ==
    /\ Ready(Menu) /\ p_cwd[Menu] # None
    /\ Incref(p_cwd[Menu])
    /\ Go(Menu, "getcwd", p_cwd[Menu], None, <<>>)
    /\ UNCHANGED <<knowndevs, p_cwd, bootfs, files, lost, unsynced, halted>>

GetcwdEnd ==
    /\ Calm(Menu) /\ st[Menu].pc = "getcwd"
    /\ GiveUp(Menu, <<st[Menu].vn>>)
    /\ UNCHANGED <<knowndevs, refs, p_cwd, bootfs, files, lost, unsynced, halted>>

\* The menu's p command and sys_fork: the new process has the same directory.
proc_create_runprogram(p, q) ==
    /\ Ready(p) /\ st[q].pc = "dead"
    /\ p_cwd' = [p_cwd EXCEPT ![q] = p_cwd[p]]
    /\ IF p_cwd[p] = None THEN UNCHANGED refs ELSE Incref(p_cwd[p])
    /\ st' = [st EXCEPT ![q].pc = "idle"]
    /\ UNCHANGED <<knowndevs, bootfs, files, lost, unsynced, halted>>

\* proc_destroy, at exit.
proc_destroy(p) ==
    /\ Ready(p) /\ p \in User
    /\ p_cwd' = [p_cwd EXCEPT ![p] = None]
    /\ Go(p, "dead", None, None, Old(p_cwd[p]))
    /\ UNCHANGED <<knowndevs, refs, bootfs, files, lost, unsynced, halted>>

----------------------------------------------------------------------------
(* The menu's file system commands: all under vfs_biglock, reclaim included. *)

Less(r, v) == IF v = None THEN r ELSE [r EXCEPT ![v] = @ - 1]

\* The counts become r; the vnodes of vs that nobody holds any more are unloaded,
\* unless that fails.
Unload(r, vs) ==
    \E bad \in SUBSET {v \in vs \ {None} : r[v] = 0} :
        /\ Cardinality(lost \cup bad) <= MaxLost
        /\ refs' = [v \in Vnode |-> IF v \in bad THEN 1 ELSE r[v]]
        /\ lost' = lost \cup bad

\* cmd_bootfs (and boot, with emu0): also the menu's current directory.
vfs_setbootfs ==
    /\ Ready(Menu)
    /\ \E n \in DevNames :
           LET v == vfs_getroot(n) IN
           /\ v # None /\ IsDir(v)
           /\ bootfs' = v
           /\ p_cwd' = [p_cwd EXCEPT ![Menu] = v]
           /\ Unload(Less(Less([refs EXCEPT ![v] = @ + 2], p_cwd[Menu]), bootfs),
                     {p_cwd[Menu], bootfs})
    /\ UNCHANGED <<knowndevs, files, st, unsynced, halted>>

\* vfs_mount: mountfunc makes an fs, or fails.
vfs_mount ==
    /\ Ready(Menu)
    /\ \E n \in DevNames : \E i \in Mountable(n) :
           /\ knowndevs[i].fs = None
           /\ \E f \in Volume \ {knowndevs[j].fs : j \in DOMAIN knowndevs} :
                  knowndevs' = [knowndevs EXCEPT ![i].fs = f]
    /\ UNCHANGED <<refs, p_cwd, bootfs, files, st, lost, unsynced, halted>>

\* FSOP_UNMOUNT says EBUSY while any vnode of the volume is loaded.
Busy(f) == \E v \in {Root(f), Leaf(f)} : refs[v] > 0

\* A sync that fails, as well, leaves the volume mounted.
vfs_unmount ==
    /\ Ready(Menu)
    /\ \E n \in DevNames : \E i \in Mountable(n) :
           /\ knowndevs[i].fs # None /\ ~Busy(knowndevs[i].fs)
           /\ knowndevs' = [knowndevs EXCEPT ![i].fs = None]
    /\ UNCHANGED <<refs, p_cwd, bootfs, files, st, lost, unsynced, halted>>

----------------------------------------------------------------------------
(* shutdown, from the menu's q command or a process that calls reboot *)

vfs_clearbootfs(p) ==
    /\ Ready(p)
    /\ bootfs' = None
    /\ Unload(Less(refs, bootfs), {bootfs})
    /\ Go(p, "clearcurdir", None, None, <<>>)
    /\ UNCHANGED <<knowndevs, p_cwd, files, unsynced, halted>>

vfs_clearcurdir(p) ==
    /\ Calm(p) /\ st[p].pc = "clearcurdir"
    /\ p_cwd' = [p_cwd EXCEPT ![p] = None]
    /\ Go(p, "unmountall", None, None, Old(p_cwd[p]))
    /\ UNCHANGED <<knowndevs, refs, bootfs, files, lost, unsynced, halted>>

\* What is busy, or cannot be synced in two tries, stays mounted.
vfs_unmountall(p) ==
    /\ Calm(p) /\ st[p].pc = "unmountall"
    /\ \E failed \in SUBSET Mounted :
           /\ knowndevs' = [i \in DOMAIN knowndevs |->
                  IF i \in Mounted \ failed /\ ~Busy(knowndevs[i].fs)
                  THEN [knowndevs[i] EXCEPT !.fs = None] ELSE knowndevs[i]]
           /\ unsynced' = (unsynced \/ failed # {})
    /\ halted' = TRUE
    /\ UNCHANGED <<refs, p_cwd, bootfs, files, st, lost>>

Next ==
    \/ \E p \in Process :
           \/ vnode_decref(p) \/ Reclaim(p)
           \/ OpenLookup(p) \/ OpenParent(p) \/ InParent(p) \/ EachOpen(p) \/ Close(p)
           \/ \E q \in User : proc_create_runprogram(p, q)
           \/ proc_destroy(p)
           \/ vfs_clearbootfs(p) \/ vfs_clearcurdir(p) \/ vfs_unmountall(p)
    \/ Chdir \/ vfs_setcurdir \/ GetcwdBegin \/ GetcwdEnd
    \/ vfs_setbootfs \/ vfs_mount \/ vfs_unmount

Spec == Init /\ [][Next]_vars

----------------------------------------------------------------------------
(* Properties *)

\* The places that hold a reference to v.
Holders(v) ==
    Cardinality({p \in Process : p_cwd[p] = v})
      + Cardinality({h \in Handle : files[h] = v})
      + Cardinality({p \in Process : st[p].vn = v})
      + Cardinality({<<p, i>> \in Process \X (1 .. 3) :
                        i \in DOMAIN st[p].drops /\ st[p].drops[i] = v})
      + (IF bootfs = v THEN 1 ELSE 0)

\* vn_refcount counts exactly the pointers there are, at every moment of every
\* call: current directories, bootfs_vnode, open files, the local variables of
\* calls under way and the references on their way to reclaim, besides the one
\* the device table keeps and those that a failed reclaim has left behind.
RefsCounted ==
    \A v \in Vnode :
        refs[v] = Holders(v) + (IF IsDevice(v) \/ v \in {Root(f) : f \in Hardwired} \/ v \in lost
                                THEN 1 ELSE 0)

\* "As long as the guy calling us holds a reference to the fs, the fs cannot go
\* away" (vfs_getdevname): every vnode anybody holds belongs to a volume that is
\* in the table, so vfs_getcwd always finds a name.
FsStays ==
    ~halted => \A v \in Vnode :
        (Holders(v) > 0 \/ v \in lost) /\ ~IsDevice(v) => \E i \in DOMAIN knowndevs : knowndevs[i].fs = v[1]

\* No process ever stands in a device, nor is one the boot file system: the
\* assertions of getdevice and vfs_getcwd that the directory has a volume.
StandsInVolume ==
    /\ \A p \in Process : p_cwd[p] # None => ~IsDevice(p_cwd[p])
    /\ bootfs # None => ~IsDevice(bootfs)

\* Once the processes are gone and their files closed, the q command leaves
\* no disk mounted, unless a sync or a reclaim failed: no reference has been lost on the way.
QuitUnmounts ==
    /\ halted /\ ~unsynced /\ lost = {}
    /\ \A p \in User : st[p].pc = "dead" /\ st[p].drops = <<>>
    /\ \A h \in Handle : files[h] = None
    => Mounted = {}

============================================================================
