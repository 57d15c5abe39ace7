# a-box in TLA+

TLA+ modules of a-box, TLC runs that check them on small instances, and TLAPS
proofs that hold for every instance. a-box is a machine that boots a small
updater first, installs the NixOS system that a pointer file on a web server
names, and then boots into that system, which runs Firecracker guests behind a
filtering proxy.

Contents: [inventory](#inventory), [modules](#modules), [runs](#runs),
[findings](#findings), [proofs](#proofs), [limits](#what-is-abstracted-and-what-is-left-out),
[plan](#plan).

    tlc -workers 4 -config Publisher.cfg MCPublisher     # any run of PROJECT.json
    for m in *Proofs.tla ; do tlapm $m ; done

## Inventory

| Component | Source | State | Operations |
|---|---|---|---|
| Publisher | `publish/stage.sh`, `publish/upload.sh`, `.github/workflows/publish.yml` | bucket objects: NARs, narinfos, `nix-cache-info`, pointer | build, stage, four upload phases |
| Updater: network | `updater/init.sh` (`network`, `fetch_pointer`), `updater/udhcpc.sh` | `/etc/resolv.conf`, default route, `/run/net-up` | DHCP per interface, wait, download, fallback DNS, retry |
| Updater: install and hand-off | `updater/init.sh` (the rest) | Nix store and system profile (btrfs), ESP (FAT), EFI variables | install, prune, collect, write entries, copy, clean, register, reboot, fall back |
| Installer | `updater/a-box-install.sh`, `installer.sh` | partitions, boot order | choose disk, format, copy the updater |
| Main host | `modules/*.nix`, `configuration.nix` | NixOS options | declarative |
| Guest units | `modules/guests.nix`, `modules/guest-proxy/default.nix` | systemd units and jobs, processes, console FIFO, sockets | start, stop, restart of each unit; what one unit's end does to the others |
| Guard | `modules/guest-proxy/guard.py`, `addon.py` | policy, credentials, flow metadata, access log | start, `http_connect`, `request`, `response`, `error` |
| Guest image, boot media | `guest/`, `updater/*.nix` | none | build recipes, a linear init |
| Firecracker driver, vsock bridge (archived) | `archive/agent-vm/host/.../firecracker.py`, `vsock_bridge.py` | process handle, console log, API and vsock sockets | `start`, `wait_for_console_string`, `connect_guest_port`, `stop` |
| pid1 (archived) | `archive/agent-vm/guest/pid1-init` | vsock listener | boot, one accept, spawn |
| Session manager (archived) | `session_manager.py`, same directory | client list, transcript, guest connection | attach, type, fan out, hang up, close |

How they interact. The publisher writes the bucket, the updater reads it: the
pointer, then narinfos, then NARs, while another run may be uploading. The
updater and the firmware communicate through BootNext and the ESP; the updater
and systemd-boot through boot entries and file names on the ESP; the updater and
its own later self through what a previous, possibly interrupted, boot left on
the two partitions. `init.sh` and the background `udhcpc` processes share three
files or kernel objects without a lock. mitmproxy calls the guard's hooks. In the
session manager threads share the client list and the transcript, each under its
own lock, and the sockets, under none. The units of a guest act on each other through
systemd's dependencies, the console FIFO and the entry socket; the archived
driver and bridge, Firecracker and pid1 through the two sockets, and what the
bridge returns is the connection the session manager starts with.

What is hard, and what makes each part correct:

* **Power may go at any step.** btrfs returns to its last commit, FAT orders
  nothing. The profile must stay sound on disk, a file with its final name on
  the ESP must be whole, and no boot may be sent to a system that is not there.
* **Steps fail one at a time.** A download, `nixos-install`, the garbage
  collector, a `cp`, a mount, an EFI variable. The box must come up again, and
  converge to the published system.
* **Readers and writers of the bucket overlap**, and runs stop half way. A
  reader must find everything the pointer leads to.
* **Lease scripts race** each other and the fallback-DNS code of `fetch_pointer`.
* **Several allowlist entries match one name**; several hooks run for one flow;
  a check may raise; large requests are sent on before the hook that checks them
  runs. What is forwarded, injected and logged must follow from the entry syntax as
  documented.
* **Threads of a session** add and remove clients while a chunk is being fanned
  out. The transcript must come first, complete and in order.
* **Each call of a launch may time out, fail or find the process dead** while the
  guest boots at its own pace and accepts one connection in its life. Nothing may
  be left running, and the connection returned must be the one that is served.
* **Units of a guest are started, stopped and fail at any moment.** No guest may
  run without its proxy and logger, no unit may be left, no console line cut
  off, and no unit may wait for ever for another's end of the FIFO.

`PROJECT.json` lists these as hazards, each at its line and with the properties
that would catch it.

## Modules

| Module | What it is |
|---|---|
| `Updater` | `init.sh` from power-on to reboot, the firmware, the disks, faults |
| `Box` | abstract: a machine that runs published systems only, and changes what it holds only while it runs none |
| `UpdaterBox` | `Updater` with a history variable, mapped to `Box` |
| `MCUpdater` | systems, boot files and loaders for TLC |
| `UpdaterProofs`, `UpdaterBoxProofs` | theorems about `Updater`, and that it implements `Box` |
| `Publisher` | staging, uploading, a concurrent reader |
| `PointerService` | abstract: the pointer names complete systems, which stay complete |
| `MCPublisher`, `PublisherProofs` | instance and theorems |
| `Network`, `MCNetwork` | `network`, `fetch_pointer`, `udhcpc.sh` |
| `NetworkProofs` | theorems about `Network` |
| `Guard`, `MCGuard` | `guard.py`, `addon.py` |
| `GuardProofs` | theorems about `Guard`; general lemmas on numbers, orders and sequences first |
| `Session`, `SessionProofs` | `session_manager.py`, and theorems about it |
| `Launch` | `firecracker.py`, `vsock_bridge.py`, and pid1's boot as their peer |
| `LaunchProofs` | theorems about `Launch` |
| `GuestUnits` | the units of `guests.nix` and `guest-proxy/default.nix`, and `Guard.running` |
| `GuestUnitsProofs` | theorems about `GuestUnits` |

`Updater` is the centre. It takes from `Publisher` that a published system can be
fetched (`PointerService`; a failed download is still a fault of `Updater`), and
from `Network` that a download happens in the end (a fair step of `Updater`).
`Launch` ends where `Session` begins, with `at = "session"`: its `Served` is what
`Session` takes for granted, a connection that the guest is at the other end of.
`GuestUnits` takes from `Guard` that the proxy may refuse to start.

### Updater

`nix` is a record of the store (the set of complete paths), the generation links
and the link `system`; `nixDisk` is the same as of the last btrfs commit. `esp`
holds boot files by their content-addressed name (absent, partial, complete),
entries by generation, temporary names and the loader; `espDisk` is the same as
of the last `sync`, and `dirty` the names whose data is not flushed. `nvram` is
the a-box boot entry and BootNext. `pc` names the step of the script, and
"firmware", "main", "dead" and "shell" are the places outside of it.

| Action | Code |
|---|---|
| `Start`, `try_update`, `realise`, `check_system` | mount, `try_update`, `nix-store --realise`, the check for a NixOS system |
| `create_generation`, `switch_profile` | `nixos-install`: the link first, then `system` |
| `delete_generations`, `collect_garbage` | pruning to `keepGenerations` |
| `HandOff`, `NextGeneration`, `EnsureKernel`, `EnsureInitrd`, `WriteConf`, `RemoveUnlisted` | `handoff`, `write_entries` and its cleanup |
| `CopyCp`, `CopySync`, `CopyMv` | `copy_to_esp`, also used for the loader |
| `install_loader`, `WriteLoaderConf`, `FlushHandoff` | `install_loader` and the `sync` after it |
| `DeleteEntries`, `CreateEntry`, `SetBootNext` | `register_loader` |
| `Fallback`, `LeaveShell`, `Reboot` | the end of the script, `fatal` |
| `Firmware`, `Reset` | external: BootNext, systemd-boot, a host restarted |
| `PowerCut`, `Writeback`, `Publish` | the environment |

`PowerCut` takes `nix` back to `nixDisk`; on the ESP every name is, on its own,
as before or as after, and a dirty one may be torn. `Writeback` lets the kernel
commit btrfs at any time, so a cut may lose any suffix of the changes.

`Faults` selects the kinds of fault, `MaxFaults` how many happen. A fault is
something the code handles or should: a failed transfer ("net"), a power cut, a
failed `nix-env`/`nixos-install` step ("install"), a failed mount ("mount"), a
failed write to the ESP ("esp"), a `cp` that stops half way ("cp"), a failed
EFI variable write ("nvram").

### Publisher

One workflow run at a time (the workflow's concurrency group). A run stages the
closure without what upstream serves; a failed lookup only stages more. Each
phase copies objects in any order and ends when all are there. A path may be
rebuilt with a different NAR; `--ignore-existing` keeps the first narinfo.
`FailRun` stops a run anywhere. The reader may restart with a newer pointer at
any time and its lookups interleave with every upload.

### Network

`dhcp[i]` is the `udhcpc` of interface i and the step of `udhcpc.sh` it is in;
`resolv` says whose servers `/etc/resolv.conf` holds. `site` is the network the
box is in: which servers resolve the pointer's host, and whether there is IPv6.
Modelled for a box without a system, which tries until it has one. A `udhcpc`
lives for 30 s at most (`-n -t 10 -T 3`), so `Retry`, which follows a sleep of
30 s, waits for all of them to end.

### Guard

An entry is what `parse_entry` gets: does the text match the pattern as a whole,
the name, the wildcard, the port or none. One that does not match or whose port
is out of range stops the start, as a missing credential does. A
host name is the sequence of its labels, so that "a.example below example" is
a suffix (`IsBelow`). Case folding and the trailing dot are modelled; label contents are
not. `lookup` is the code's `max` by `rank`; `Covers` and `MoreSpecific` state the
documented meaning of entries separately, and `MostSpecificDecides` compares
them. An exception inside a check may happen at any request and blocks it
(`guarded`). Hop-by-hop headers of the guest go before credentials are added. An
accepted CONNECT gets no log line of its own.

mitmproxy is external, and so is which requests are large. It calls
`http_connect` before a tunnel is made, and in a tunnel every request has the
tunnel's destination. A request that is buffered is one step, `request`: the hook
runs before anything is sent. With `stream_large_bodies=1m`
(`guest-proxy/default.nix:318`) a request whose body is larger is streamed: `Stream`
sends it as the guest wrote it, `request_AfterBody` is the hook at its end, and the
server may answer, or the flow fail, before (`LogFlow`). The guard has no hook of
its own for the headers. What a response carries is left out.

### Session

One reader thread, one accept thread, one thread per client, and the owner that
starts and closes the session. A critical section under a lock is one step.
`sendall` to a peer that is gone, or on a socket that is closed already, raises. To
a client or a guest that does not read (`stalled`, `deaf`) it blocks for as long
as that peer stays: a `close()` of the same socket on another thread does not wake
it, as on Linux. So the reader stays with a stalled client that its own thread has
let go (`Gone`), and a client's thread stays in the send to the guest, also over
`close()` (`pump[c] = "blocked"`). A write to `terminal.jsonl` may raise, and the bytes that
were read are then neither recorded nor sent on: the reader thread ends, or
the client's thread ends and removes its client. `Faulty` is all these
kinds of fault, and `MaxFaults` bounds their number. `unwritten` is a history variable:
whose writes have failed. `terminal.jsonl` is kept per origin. `recv` and `accept` calls that were blocked at `close()` may still
return what arrives, as they do on Linux.

### Launch

One thread owns a guest and calls `start`, `wait_for_console_string`,
`connect_guest_port` and `stop`; `at` is the call it is in, `late` whether the
deadline of that call has passed. `handle` is the launch `_process` belongs to,
`running` the launches whose process runs, `api` and `uds` say whose the files at
the two socket paths are, and `backlog`, `served` and `conn` are the two ends of
a vsock connection.

| Action | Code |
|---|---|
| `start` | `start` up to `Popen`, which may raise; leftover sockets are removed |
| `wait_for_api_socket`, `wait_for_console_string` | `_poll_until`: deadline, process, condition, in this order |
| `put`, `PutFails` | `_put`, request by request; a request that raises may have been carried out |
| `force_cleanup` | the `except` of `start` |
| `stop`, `terminated`, `kill` | `stop`: SIGTERM, wait, SIGKILL, wait |
| `StartConnect`, `attempt`, `reply` | `connect_guest_port`: an attempt, and the four ways it ends |
| `BindApi`, `Exit`, `Forward` | external: Firecracker, its vsock proxy, the guest's kernel |
| `Boot`, `Accept` | `main.rs`: the liveness line, then the listener, then one `accept` |

A file at `api_socket` exists before it is listened on. The guest's kernel answers
a connection when it is queued, before pid1 accepts it, so the host can give up a
connection that the guest will accept later; `reply` gives one up only after the
deadline, and then fails: that is what `Served` rests on.

### GuestUnits

`state` and `job` are systemd's, per unit; `mitmproxy`, `logger` and `vm` are the
processes; `pipe` counts the lines in the FIFO. The relations `BindsTo`,
`Requires`, `PartOf`, `After` and the set `StopWhenUnneeded` are the declarations
of the two files. What systemd does with them is external and written once, per
rule: which units a start, a stop or a restart takes along (`Started`, `Stopped`,
`Restarted`, and `Pulled`, `RestartsWith`, `FailsWith` below them), which job waits
for which (`Waits`), what a failed start fails (`StartFails`), and that `BindsTo` and `StopWhenUnneeded` enqueue stops of their
own (`StopWhenBound`, `StopUnneeded`).

| Action | Code |
|---|---|
| `StartEntry`, `Gone`, `Fails` | the entry socket, which does not start while its service is there |
| `Connection`, `StartForwarder`, `Gone`, `Fails` | a program in the guest connects to the entry, which starts the forwarder; it requires the proxy and never ends by itself |
| `StartProxy`, `Listen`, `running`, `ProxyGone`, `ProxyFails` | the proxy: started when `Guard.running` sends READY; it fails when its key or policy is wrong |
| `StartLog`, `LoggerReads`, `Eof`, `PreStopEnds`, `LoggerCrashes` | svlogd behind the FIFO, and the 10 s of its `preStop` |
| `StartGuest`, `OpenFifo`, `VmExits`, `ExecStopPost` | Firecracker: started when what it binds to is active, its sockets removed as its last step |
| `Command`, `GuestWrites` | the operator, the guest |

Both ends block in opening the FIFO; the logger's unit counts as started before
it has opened its own, or the guest could never start. `excused` is a history
variable: whether something happened that may cost console lines.

## Runs

| Run | Shows | Bounds |
|---|---|---|
| `Updater_faults` | With any two faults but ESP write errors: profile sound, ESP files whole, no dead boot, ESP equal to the profile when a host runs, few generations kept, and `Box` is implemented, in which what is installed never goes back to nothing | 3 systems, 3 generations, keep 2, 2 pointer moves |
| `Updater_live` | With one fault of any kind but "cp": comes up again and again; converges unless a leftover generation stays newest | the same, 1 fault |
| `Updater_cp` | *violated*: `ComesUp` with a failing `cp` | 2 systems, 1 fault |
| `Updater_esp` | *violated*: `NoDeadBoot` with failing ESP writes | 3 systems, 2 faults |
| `Publisher` | The reader misses nothing, the pointer is complete, `PointerService` is implemented | 2 systems, 4 paths, 2 builds, 2 runs |
| `Network` | Flag means configured, fallback taken back, downloads in the end | 2 interfaces, 3 sites, 2 transfer errors |
| `Network_late` | *violated*: `Downloads` with IPv6 and a late lease | 1 interface |
| `Network_race` | *violated*: `OneLeaseWins` | 2 interfaces |
| `Guard` | Lookup means what the syntax says; what is forwarded, injected and logged follows from the entries, for streamed requests as far as the properties say | all policies of two entries, some of three, ports 0 and 65536 included; 8 names; 3 flows, followed under some policies of at most two overlapping entries, invalid ones included (`FollowedPolicies`) |
| `Session` | Transcript first and in order, no gaps, no client left behind, clients let go unless stuck in a send to the guest, everything recorded unless a client that does not hang up stops reading for good or the transcript could not be written | 2 clients, 2 chunks out, 1 in, 1 fault |
| `Launch` | Nothing left running, own sockets, the returned connection is served, a slow boot is waited for, every call ends | 3 launches |
| `GuestUnits` | Guarded start, no guest alone, no sockets or lines left and no units but what a forwarder keeps, every job ends | 3 commands, 2 failures, 1 console line |

Why the bounds are enough. Three systems with `Keep` = 2 are the least that
delete and collect a generation; the three share kernel and initrd pairwise, so
that removing one must keep a file another needs, and the third brings a new
loader. Three generation numbers let each system be installed once after a cut
between link and switch. Two faults reach a fault during the recovery from
another. Two publisher runs are the least that rebuild a path. Two interfaces
and two clients are the least that race. Three flows are a CONNECT and two
requests in its tunnel; that the lookup is right is asked of a policy once, before the
first flow. Three launches let one find what a second
that failed in any way has left, with a first before it; the theorems of
`LaunchProofs` hold for any number. Three commands start a guest and overtake
one stop or restart of any unit by another command, and two failures let one
happen during the recovery from another. Where a generation number, a pointer
move or a flow would exceed its bound the action is not enabled; runs without
`CHECK_DEADLOCK FALSE` (all updater runs) show that this never stops the machine.
In the other modules the last allowed run, flow, download, launch or command is a proper end,
and their cfgs say so.

Fairness. `FairSpec` of `Updater` assumes weak fairness of `Machine` as a whole: the script runs, a host is restarted now and
then, someone leaves an emergency shell or resets a hung machine. Faults end,
because their number is bounded; nothing is assumed of the pointer beyond what
the property says of it. `Network` assumes that processes run, that routers
advertise where there are any, and that a DHCP server which is asked again and
again answers at some time (strong fairness of `Bound`): the code can do no more
than ask again. `Session` assumes that threads run, but not that a
`recv` or an `accept` that is blocked ends when its socket is closed (`ReaderRuns`),
and nothing of the guest, the clients or the owner after the start. `Launch` assumes that the calling thread runs
and that time passes, and nothing of Firecracker or the guest. `GuestUnits`
assumes that systemd works its queue off, that processes run, and that
Firecracker ends when it is told to (systemd kills it after `TimeoutStopSec`);
nothing is assumed of the operator or of what the guest writes.

## Findings

1. **A failing `cp` is not noticed** (`init.sh:221`, run `Updater_cp`). `set -e`
   is off in a function called from `||`; a torn kernel gets its final name and
   no later boot replaces it.
2. **The fallback may boot a deleted system** (`init.sh:328`, `Updater_esp`).
   Pruning and collection come before the ESP is written; when that fails, the
   entries on the ESP are older than the store.
3. **A late lease is overwritten** (`init.sh:159`, `Network_late`). `prev` is read
   before the fallback is tried and written back after it.
4. **Two leases may both be first** (`udhcpc.sh:11`, `Network_race`).

Three more that the properties of passing runs name as exceptions. Each has a property
without the exception and a configuration with which TLC finds it violated:

5. **A streamed request is sent before it is checked** (`guest-proxy/default.nix:318`;
   `NothingElseSent`, `tlc -config Guard_streamed.cfg MCGuard`; the exception of
   `OnlyAllowed`). The `request` hook runs at the end of a body larger than 1 MiB;
   outside of a tunnel the request has then gone to a server that no entry covers,
   although everything not matched is to be answered 403 (`guard.py:11`). In a tunnel
   the destination was checked at the CONNECT, the Host header is not.
6. **A streamed request keeps the guest's own headers** (the same line;
   `GuestCopyReplaced`, `Guard_streamed_own.cfg`; the exception of `CredentialsInPlace`).
   Neither the replacement of `guard.py:187` nor the removal of hop-by-hop headers
   comes in time.
7. **A used proxy outlives its guest** (`guest-proxy/default.nix:233`;
   `RunOnlyWithGuest`, `tlc -config GuestUnits_forwarder.cfg GuestUnits`; the exception
   of `NothingStays`). The forwarder requires the proxy and ends only with it; when
   Firecracker exits on its own, forwarder, proxy and entry socket stay, against
   `guest-proxy/default.nix:25` and `guests.nix:400`. A stop of the guest's unit does
   take them along.

What the code does besides. The properties hold with it, by an exception they name
or because they do not depend on it:

* `ConvergesOrLeftover`: after a power cut between the new generation link and
  the profile switch (`init.sh:186`), a pointer that goes back to the current
  system is "up to date", but the leftover link's entry is the newest and boots.
* A power cut between switch and pruning leaves one generation more than
  `keepGenerations` (`updater/default.nix:31`) until the next installation.
  `FewGenerations` bounds it: one more for each fault at most, and none after an
  installation has pruned.
* `EspMatchesProfile`: a cut during the copy of the loader leaves its temporary file
  under `EFI/a-box` (`init.sh:221`), which the cleanup (`init.sh:258-261`) does not
  visit. The next copy of a loader writes over it; without one it stays.
* `OneTrueLine`: the line of a streamed request tells what the late check found. It
  may say blocked, or `credential_injected=true`, of a request that was sent whole
  and without a credential (findings 5 and 6).
* `LetGo`: a client's thread that sends to a guest which does not read stays as long
  as the guest does (`session_manager.py:105`), and so do the client's entry in the
  list and its socket unless the reader removes them.
* `RecordedUnlessStalled`: a client that does not hang up and does not read stops the
  recording (`session_manager.py:99`), also when its own thread has removed it
  meanwhile, although
  `archive/docs/agent-vm-host/11-session-transcript-receivers.md:50` has it go on
  "regardless of attach state", and a failed write to the transcript ends
  the thread that moves the bytes (`session_manager.py:94`).
* `NothingLeft`: when `Popen` raises at the first launch the console log stays
  open, since `stop` returns at once without a process (`firecracker.py:216`).
* The console log is appended to, so `wait_for_console_string` may return because
  of an earlier launch's line (`firecracker.py:134`). `Launch` has this, and its
  other properties hold with it.
* The time limit of the handshake is per byte (`vsock_bridge.py:34`): a peer that
  answers slowly stretches an attempt, to at most 256 limits. A reply that
  ends without a newline is accepted.
* `NothingCutOff`: a start of the guest that comes while it is stopping replaces its
  stop job, and a logger that is being restarted then no longer waits for it.
* A port of 0 passes the build's check of policy entries (`guests.nix:238`), and the
  proxy refuses it at its start.

## Proofs

Every invariant and every action property that a passing run checks, and both
refinements, are theorems, for every value of the constants that the
assumptions allow. Each rests on an inductive invariant that holds at the start
and is kept by every step; its step lemma has a case per action.

`UpdaterProofs`, profile: `TypeCorrect` (`TypeOK`) and `ProfileAlwaysSound`
(`ProfileSound`), for any systems, files, loaders, number of kept generations,
faults and bounds. `ProfileSound` is not inductive: that a new link names a
complete system depends on what the script has learnt on the way to that step.
`IInv` adds `Knows`, which says per step what `want`, `gen` and `todo` are: want
is a valid path after the pointer was read, in the store after realise, a NixOS
system after the check, and named by the newest link before the switch; the
hand-off has a profile, and the generation it handles is one of its links. The
lemmas follow the operations: a store may change as long as links stay in it
(`StoreChange`), a link is added after the newest (`LinkAdded`), pruning keeps
the current one (`Pruned`), switching is to a link (`Switched`), a power cut
takes the disk's profile (`CutKeeps`). `NewestFacts` rests on `MaxExists`, from
the well-foundedness of `<` on the naturals. `Step` has one case per action.
`StaysInstalled` says that no step takes a disk's profile back to none. The run has
this through `Box`, the theorem without excluding any fault. It needs `Retained`:
what the script would commit has a current system if the disk's profile has one.

`GenerationsStayFew` (`FewGenerations`) excludes no fault either. `Few` counts per
step the links in memory and on disk: a new link adds one, pruning leaves at most
`Keep` because the current generation is the newest when it runs (`PrunedCount`),
and an installation that does not reach its pruning has cost a fault.

`UpdaterProofs`, ESP. Each theorem excludes the faults with which the property
does not hold, and no other:

| Theorem | Property | Faults excluded |
|---|---|---|
| `FilesAlwaysWhole` | `NamedFilesComplete` | "cp" (finding 1) |
| `EspAlwaysMatches` | `EspMatchesProfile`, the loader included | "esp" |
| `NeverDead` | `NoDeadBoot` | "cp" and "esp" (findings 1 and 2) |
| `UpdaterImplementsBox` in `UpdaterBoxProofs` | `ImplementsBox` | "esp" |

`FilesWhole` says why a power cut tears no boot file: what is copied is complete
and flushed before the rename, so the names whose data is not on the disk are
entries. `Progress` follows the loop of `write_entries`: what has left `todo` is on
the ESP and in `/run/keep`, and nothing else is in `/run/keep`, so that the cleanup
leaves exactly the profile, and of temporary files the loader's at most. `HandedOver`
takes it from there: the ESP shows the profile until the flush, and from
`install_loader` on the loader is the current system's; after the flush the disks
hold the same as memory, and BootNext is set only then, so that a cut or a reset at
that point loses nothing. `ShowsBoots` then gives the boot: the default entry of an ESP that shows a
sound profile is its newest generation. The refinement adds `AllOffered` (links
and `want` were published): a commit to the disk is an `Install` of `Box`, and `Boot`
runs what the disk holds because the host starts after the flush only.

`PublisherProofs`: `Typing`, `AlwaysServed`, `AlwaysComplete` and
`PublisherImplementsService`, for any closures, builds and number of runs. `PInv`
adds what a run knows in each phase and that what the reader has still to look up
is served. `UploadsAdd` is the key: no step takes an object away.

`NetworkProofs`: `Typed`, `ConfiguredWhenUp` (`UpMeansConfigured`) and
`FallbackIsTakenBack` (`FallbackTakenBack`), for any interfaces and any network.
`udhcpc.sh` tests the flag, writes the route, then the servers, then the flag, with
other leases and the script in between; `Configured` says what a lease has left
behind at each of its steps and that nothing removes it. `FallbackOwned` says that
`prev` is never the fallback while the fallback is tried, so that putting it back is
taking the fallback away.

`GuardProofs`: `Typed`, `MostSpecific` (`MostSpecificDecides`),
`NothingElseAllowed` (`OnlyAllowed`), `CredentialsStay` (`CredentialsInPlace`) and
`OneLinePerFlow` (`OneTrueLine`), for policies of any length in any order, any names
of any number of labels, ports and credentials. The first is about `lookup` alone:
`Normalized` (a normalised name is a name), `SuffixIsBelow` and
`MatchesWhatItCovers` (`matches` is what the syntax says), `SpecificOutranks` (of two
entries that cover a name, the more specific has the higher rank) and `RankOrder`
with `FirstOfOrder` (a `max` by rank exists in a finite policy, and is what
`lookup` returns) meet in `LookupDecides`. The others need `GuardInv`: `Loaded`, a
started proxy has read its credentials; `Meant`, what was sent of a buffered request
is what the deciding entry makes of the guest's headers; `Streamed`, a streamed one
carries no credential; `Tunneled`, a tunnel leads where the lookup allows, which is all
that stands between a streamed request and its server; `Logged`, no line is written
before the flow is marked as logged and the line of a buffered one tells the flags
from then on. The three theorems say of streamed requests what the code gives them,
and no more: findings 5 and 6 are the rest.

`GuestUnitsProofs`: `Typing`, `LinesKept` (`NothingCutOff`) and `GuardedStarts`
(`StartsGuarded`), for any number of commands, failures and lines. That no line is
cut off depends on the order of stops, which depends on the jobs systemd has
queued: `StopsInOrder` says that while the guest runs, a stop of the logger never
comes without one of the guest, which goes first, and `LoggerOutlives` that the
logger therefore reads as long as the guest writes. `Relations` evaluates the
dependencies, and `StartDoes`, `StopDoes` and `RestartDoes` say what a command does
to the jobs of the two.

`SessionProofs`: `Typed`, `Recorded` (`TranscriptFirst`), `NoGap` (`Gapless`) and
`NobodyLeftBehind` (`NoGhost`), for any number of clients and chunks. `Gapless` is
not inductive, because the reader thread goes through a copy of the list while
others change it: `UpToDate` says that the last chunk a listed client has is the
reader's, or the one before if the client is still in the copy. That a client that
was added meanwhile is in no copy is `Listed`, and that nobody is added twice
`AcceptsOnce`. `AppendDoes`, `TailDoes` and `WithoutDoes` say what the list operations
do to the members, the last one for Python's `list.remove`.

`LaunchProofs`: `TypeCorrect`, `NothingIsLeft`, `SocketsAreOwn` and `AlwaysServed`
(`TypeOK`, `NothingLeft`, `OwnSockets`, `Served`), for any number of launches. The
last two are not inductive. `IInv`, at the end of `Launch`, adds `Owns`, which says
from which step on each socket is the launch's own (the vsock socket from the
fourth request), and `Queued`, which says where the one connection is: nobody
waits in the guest's queue before an attempt, also not at the next attempt
unless the deadline has passed, and a connection that was queued is the only
one. `IInvStep` has one case per action and under it one step per part of `IInv`;
`EndsKeeps` is what the end of a process does, `GivenUp` what closing a
connection does to the queue.

The assumptions are those named in the modules: sentinels are distinct and not
systems, every system has boot files and a loader, ESP names of files, entries
and the loader do not clash, bounds are natural numbers, closures are sets of
paths, names are nonempty sequences of labels that case folding maps to labels,
a policy's credentials are distinct from what a guest writes, a client is not
`Nobody`. TLC evaluates them in every run.

Only model-checked: liveness, that is `ComesUp`, `ConvergesOrLeftover`, `Downloads`,
`CallsEnd`, `Patient`, `RecordedUnlessStalled`, `LetGo`, `NeverAlone`, `NothingStays` and
`Settles`. They rest on weak or strong fairness, and what `WF` and `SF` of an action
say needs `ENABLED`, which the prover does not reason about.

## What is abstracted, and what is left out

* btrfs commits are snapshots of the whole profile and store; order within a
  commit is not modelled. FAT directory and data updates of different names are
  independent after a cut; a damaged FAT is not modelled.
* `nix-env --set`, `--delete-generations +N`, the garbage collector, systemd-boot,
  the firmware, rclone and mitmproxy are external and modelled by how the code
  uses them.
* The garbage collector of `realise` (min-free) runs or does not.
* Contents of `loader.conf` and of entries beyond the system they name, messages,
  signatures, compression, log formatting, systemd sandboxing options.
* `Launch` is a VM with a vsock device; one without it has one request less. `Boot`
  and `Accept` are all of the guest: mounts and the agent's spawning fail by
  ending the guest, which `Exit` has.
* `GuestUnits`: nftables is up and the instance number is valid; disk preparation,
  users and sandboxing are left out, and a connection that stays in the entry's queue
  when the forwarder crashes and the guest is gone. How long a `preStop` waits is not
  modelled: it may end at once. A second
  start limit (`StartLimitBurst`) is not reached within the bounds.
* The installer: its result is `Init` of `Updater`.
* Build recipes (`*.nix` under `guest/` and `updater/`), declarative host options,
  `release.yml`: nothing that runs concurrently or keeps state.

## Plan

1. Theorems that go beyond the runs: which entries and files the ESP has when a
   write to it fails.
2. `Installer`: disk choice, formatting, boot order, interrupted installs.
