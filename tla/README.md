# TLA+ models of khadas_edge-openwrt

OpenWrt images for the Khadas Edge boards: shell helpers behind LuCI pages,
the pages themselves, boot scripts, and the scripts that build and release the
images.  This directory holds TLA+ modules of the helpers whose mistakes cost a
device its firmware, its disk or its network, and of the pages that drive them;
TLC configurations that check them on small instances, and TLAPS proofs of what
should hold for every instance.

    tlc -config FwUpdate_one.cfg MCFwUpdate     # model-check
    tlapm FwUpdateProofs.tla                    # check proofs

`PROJECT.json` maps every definition to the lines it models, and lists runs,
mutants (one plausible bug per checked property), findings and hazards.

## 1. Inventory

All paths are below `src/`; `feed` stands for `openwrt/feed`.

| component | code | state it keeps | operations |
|---|---|---|---|
| Firmware update, helper | `feed/luci-app-khadas-fwupdate` | `/tmp/khadas-fwupdate`: release.json, check.json, job.state, firmware.img.gz with .part, .sha256, .name; the flash | check, download (background job), job, install, clean |
| - page | `khadas-fwupdate.js` | the sections "Latest release" and "Downloaded image", a watch that polls every second | load, check, download, watchJob, install, clean |
| Disk install, boot from disk, helper | `feed/khadas-storage` (helper, boot script) | disks: MBR and id, boot partition with boot.scr and boot.scr.openwrt, root; `/tmp/khadas-install`: upload, job.state; mounts | status, install (background job), bootext enable/disable; U-Boot's choice of disk |
| - page | `khadas-storage.js` | the status it was loaded with, one modal dialog, polls every two seconds | installDialog, upload, showJob, expand, bootext, reboot |
| Root expansion | same helper, `lib/preinit/79_expand_rootfs` | partition table, the kernel's copy of it, overlay size, flag file | expand, status, preinit, resize-overlay |
| Docker apps, helper | `feed/luci-app-docker-apps` | `/opt/docker-apps/NAME`, `/tmp/docker-apps` uploads and one job state per app, Docker's containers | install, action (start, stop, restart, update, delete), pull, job, list |
| - page | `docker-apps.js` | the list it was loaded with, one modal dialog (a form or a job that is followed) | install from catalog, Docker Hub, registry, address or text; actions, logs |
| ZeroTier gateway, helper | `feed/luci-app-zt-gateway` | uci ztgateway, zerotier, network, firewall; the controller's networks and members | apply, member requests, status |
| - page | `zt-gateway.js` | the status it was loaded with | the form, authorize, deauthorize, rename, delete |
| KVM guests | `feed/luci-app-kvm` (`vms.js`, `init.d/kvm`) | uci kvm, disk images, tap devices, procd's instances | save, reload, start_vm |
| Wi-Fi auto configuration | `feed/khadas-wifi-autoconf` | uci wireless, the list of configured radios | run at first boot and on hotplug |
| Build and release | `openwrt/ib`, `.github/workflows`, `selector` | download caches, signing key, feed branch, release | image builder, kernel packages, feed, release |
| Display, HDMI, radio firmware, boards | `feed/khadas-edge-*`, `boards` | one-shot settings, data | - |

How they interact.  The pages call the helpers through rpcd: one process per
request, no lock, so requests of two pages (or of a page and a shell) overlap
at every command of the scripts.  Long work runs in a background shell that
outlives its request and talks to later requests through files: a state word,
a log, the product.  The storage helper also talks to U-Boot (boot.scr on the
eMMC / SD card) and to preinit of the next boot (the expand flag), that is
across reboots and power cuts.  A page is a set of promise chains over requests
whose answers come late, in another order, or never (a poll that fails becomes
an empty object), next to timers that go on whatever dialog is shown; it goes by
the status it was loaded with, while other administrators, jobs and reboots
change what is behind it.  A saved form of KVM or ZeroTier triggers a reload by
procd, which does nothing but compare lists.

What is hard: test and set of the state word are two steps; files are read
again later than they were checked; `die` is `exit` and ends the shell it runs
in; boot partitions are mounted for a moment by requests that exclude each
other; the power may go between any two writes; a disk copied sector by sector
carries the id of its source; an answer describes a state that is gone; one
dialog takes the place of another's.  The list with lines is `hazards` in
`PROJECT.json`.

What makes each component correct:

* firmware update: with one administrator only a release's own image, with its
  checksum, reaches the flash; a started download reports a result;
* disk install: `done` means a whole system with its own id; the running disk
  is left alone; the device starts after a power cut; the page learns of a
  failure; the disk that was asked for is the one that boots;
* root expansion: what expand promised is there after the next boot, and what
  is not done yet stays on offer;
* Docker apps: one job per app, no containers without their app;
* ZeroTier gateway: apply is idempotent and can be repeated after any failure;
  one controller network; nobody is let into a private network but by a click;
* pages: a result is that of the own job; a poll and a dialog come to an end;
* KVM: a change of one machine leaves the others alone, what is enabled runs,
  vCPUs stay on cores of one type;
* Wi-Fi: every radio configured once, names unique, channels of the plan legal;
* release: what a device downloads fits what it checks it against.

Where the code does not keep one of these, section 6 says so.

## 2. Plan

The modules, most important first, and what is proved of each:

1. `Job`, `FwUpdate`: the abstract background job, and the helper that
   implements it.  One run with one administrator (everything) and one with two
   (what still holds).  Theorems: types, both image properties, the safety of the
   refinements of `Job` and `FwHelper`.
2. `Storage`: install, bootext, U-Boot, power cuts.  Theorems: types, the three
   properties of an install, the safety half of `Job`.
3. `StorageExpand`: three theorems.
4. `DockerApps`: apps, uploads, a job per app that implements `Job`, the
   containers compose leaves.  Theorems: types, no containers without their app,
   what `done` means, the refinement of `Job` for every name.
5. `ZtGateway`, `ZtMembers`: apply under the lock, failures and restarts between
   two commits; the members, whose requests do not take the lock.  Theorems:
   types, `Settled`, `ClosedWhenUnnamed`, and four on the members.
6. `FwPage`, `DockerPage`, `StoragePage`: the pages, each over the helper as the
   page sees it.  Theorems: types, and every safety property.  `FwHelper` is that
   helper for `FwPage`, and `FwUpdate` is proved to implement it for one request
   at a time.
7. `Kvm`: form, init script and procd's list.  Three theorems.

Every safety property of a run is proved but the violated one and
`JobNeverWaits`, which needs ENABLED.  What would come next: an abstract specification
of apply (the configuration is there, or is applied again), which `ZtGateway`
implements; the same for one name of `DockerPage`, whose helper tests and sets in
two steps as `DockerApps` does; a composition of `FwUpdate`'s flash with
`StorageExpand` (an update rewrites the partition table).

## 3. The modules

`Job` is what the pages rely on: a job starts when none runs, ends, and its
result is written once.

`FwHelper` is more of the same for one helper: the job's word, the image that a
download has left and the install that is about to flash it, changed by whole
requests.  `FwPage` extends it; `FwUpdate` implements it (`ServesPage`: `Fetched`
is the image of the abstract helper), for one administrator.

`FwUpdate` (`khadas-fwupdate`).  `caller[c]` is a request, `job[j]` the
background shell with what it has read into its variables, `flashing` the shell
that sleeps before sysupgrade; the other variables are the files of `$WORK`,
the flash and the newest release on GitHub.  A release is a model value that
stands for its document, its listed checksum and its image.  One action per
step between which another process can change what the next step reads:
`check` is fetch / mv / read / write, `download` guard / start, `install` guard /
sum / hash / schedule, and `download_run` check / sums / url / open / fetch / sha /
move / record / test.  `die` in it goes to the step that writes `failed`, as the
extra subshell does.  Two jobs share `firmware.img.gz.part`: `SharedWith` and
`Written` say what two curls leave in one file, also under the name mv gave it
meanwhile.  Left out: `KEEP`, the text of logs, the order of the two checksum
files, the comparison of build dates (it is shown, nothing depends on it).

`Storage` (`khadas-storage install`, `bootext`, the mounts of `status`, the
boot script).  A disk is a record of what U-Boot and the kernel tell apart: what
was last written, the boot script and its backup, the MBR id.  `job[j]` walks
through `install_run`; each step may die after what it may have written, and
`Die` removes the job without touching the state, because the helper's `exit`
does (section 6).  The helper does not know the disk it runs from, it looks for
the PARTUUID of the kernel's command line (`uuid`): `BootDisks` are the disks that
have it, and `JobGuards` takes any of them (`from`).  An image may be written in
part, as no error of gzip or dd counts (`WrittenOf`); so may an enable that fails
(`HalfEnabled`).  `arg.src` is what the job reads as its image; `Upload` replaces it
while the job has yet to read it.  `mnt` holds the momentary mounts, which exclude
each other by mode.  `PowerCut` applies between any steps, and what a write leaves
that is cut is what one leaves that fails.  `BootTarget` is the boot script,
`RootsOf` the kernel's search by PARTUUID.  A random disk id is one that no disk
has.  Left out: what the settings are, the overlay that a disk may keep behind the
new root (its dd is unchecked) and the size of the root (their steps are there, a
disk record does not show them), mounts by the user, a second eMMC / SD card.

`StorageExpand` (`expand`, `status`, the button, preinit, `resize_overlay`).
Two sizes, `ImageSize` and `WholeDisk`.  `kernel` is the partition the running kernel
knows: partx updates it, a boot reads it again.  `told` is a history variable:
an expand has said that the next reboot grows the overlay, and whether the power
went or resizing failed since.  `Reboot` is the user's, when no request runs;
`ExpandCut` comes at any step and may lose a flag that is not yet synced.
Preinit gives up, with the flag in place, where a tool or a device is missing
(`PreinitFlag`).  fstools' formatting of a missing overlay and mount_root are
external.

`DockerApps` (`docker-apps`). Per app: the uploaded file, the installed file, the
containers of the compose project (`ctr[a].all`, those that run in `.up`) and the
job state. `caller[c]` is a request between its tests and `job_start`, whose test
and set of the state are two actions; `job[j]` is the background shell. `After`
says what a compose command makes of the containers, given the services of the
file; a command that fails or is cut off by a reboot leaves anything between
before and after (`Partly`). compose reads its file when it starts (`JobLoad`) and
works on what it has read. `left` is a history variable: the apps whose last
compose down failed. Containers start again after a reboot as they ran, because
all compose files of the catalog and of the page say `restart: unless-stopped` (a
pasted one may not). Left out: images and volumes, logs, search, fetch, starting
dockerd (a command fails when it does not run, as it may at any time).

`ZtGateway` (`zt-gateway apply`, the saved form, boot).  `cfg` is the
configuration of the page, `zt`, `devmap`, `netif` and `fw` what apply commits,
`daemon` what zerotier-one was last started with, `nets` and `gateways` the own
controller's networks.  `run` is the apply that has the lock, with the
configuration it has read and whether it owes a restart; `pending` counts those
that wait.  There is one action per commit, restart and request to the API.  A
request may fail before or after it was carried out.  `zerotier_setup` is used
twice by controller mode, before and after the network exists (`phase`).
`PowerCut` ends everything and boots.  The settings of the network and of the
firewall are one value `opt`, because they only have to arrive together;
zerotier's own start (`Started`) is external.  Left out: members and status
(they are `ZtMembers`'), and the options the firewall rules are made of.

`ZtMembers` (the table of members in `zt-gateway.js`, `member_update` and the
lists of `status` in the helper).  `member[n][m]` is the controller's record,
`shown` the status the page was rendered from, `op` the click under way.  A
click fixes its action from `shown` (`Toggle`); the helper reads the network's
id (`ReadId`) and asks the controller (`Request`) in two steps, without the lock
apply holds.  `SaveForm` drops the id in controller mode, as the form does, and
`ApplyCreate` may put another network in its place, before or after the click.
`granted` and `strayed` are history variables: whom a click let into the network
it was made for, and whom into another.  The answer, also an error, reloads the
page.  Apply is two steps here (the network and its id, its settings and the
gateway); `ZtGateway` has all of them.  Left out: names and addresses, and the
form's fields but mode and `private`.

`FwPage` (`khadas-fwupdate.js`).  The helper (`FwHelper` with check.json) answers
a request in one step, when the page sends it; the answer is in `inbox` until
the page takes it, in any order, or is told that it is lost.  A check is more
than that: `check[c]` reads a release (`CheckDump` writes check.json), reads
check.json again (`CheckCat`) and is answered, while other checks do the same.  As
they share release.json and its `.tmp`, the release a check reads is any.
`checkBox` and `jobBox` are what the two sections show.  A watch has two calls
under way, the first that `watchJob` makes itself and the one of the timer;
`ShowJob` is the answer's handler, which also runs when the watch has ended
meanwhile.  A button is off only until its own answer (`ui.createHandlerFn`), and
a section that is drawn again has new ones: `Clickable` bounds nothing but the
number of requests.  `doubt` (a section whose content was lost, overtaken or
changed by somebody else) is a history variable.  A reboot ends the helper's
processes and empties /tmp; the page stays as it is and goes on asking.  Left out:
what the sections say besides the release, the word and the image, and the
password that LuCI asks for after a reboot (an answer is then lost).

`DockerPage` (`docker-apps.js`).  Each click starts a chain (`chain[c]`):
write, ask, follow, and after a pull ask for the image's ports.  There is one
`modal`: a form, or the chain it follows; a chain that reaches its dialog takes
the place of whatever is shown.  The helper's side is one job name, an app's or
the one all pulls share: `word` is its state, and a request in `job` has tested it
(`Test`) before it writes it and is answered (`Answer`), so that two may have done
the first.  `by` is the chain that waits, `real` how its job ended, and `mixed`,
a history, that the word may be another's: two had tested at once, another job
started after the end, or the device was restarted.  A reload forgets the
chains; their jobs go on.  Left out: the compose files, the search, the catalog.

`StoragePage` (`khadas-storage.js`).  The page goes by `shown`, the buttons of the
status it was loaded with.  An install is a chain, perhaps after an upload, that
ends in `showJob`.  In the helper a request in `shell` has found no job (`Test`),
then writes the word and is answered (`Answer`), and its job may die at any time,
which leaves the word `running`.  `mixed` is as in `DockerPage`.  `short` is an
expand or bootext request with the reload that follows it.  A partition that is
mounted is missing in the status, and one that does not mount is shown as
switched off, so that the page may be loaded with any of the buttons (`Read`).
The details of the install are `Storage`'s, those of the expansion
`StorageExpand`'s.

`Kvm` (`vms.js`, `init.d/kvm`).  `on`, `set` and `storage` (the directory that the
form sets for all machines) are the configuration, `inst` the command procd has
for each machine, `proc` the process.  The directory is in every command: in the
path of the UEFI variables, and in that of the disk where the machine has none of
its own.  `file[v]` are the disks that are there.  `Reload` runs start_vm for every
enabled machine and gives procd the whole list; it may fail for any of them, after
it has created a disk.  procd (external) stops what is not in the list, restarts
what has another command and starts what does not run; a process that is told to
stop takes its time (`Stopped`).  `Launch` fails when another process has the tap
device, whose name is cut to twelve characters of the machine's (`sharing`).  Left
out: memory, screen, CD and extra arguments, which only travel into the command,
and the format of a disk, which is a matter of its name (section 6).

## 4. The runs

| run | bounds | result |
|---|---|---|
| FwUpdate_one | 1 request, 1 job, 3 releases, 2 names | pass, 25 560 states |
| FwUpdate_race | 2 requests, 2 jobs, 1 release | pass, 328 360 states |
| Storage_install | SD + NVMe, 1 page, 1 job, the system and 2 kinds of images | pass, 1 480 561 states |
| Expand_faults | 2 pages, cuts and failing tools | pass, 970 states |
| Docker_one | 1 request, 2 jobs, 1 app, 2 valid files and a refused one | pass, 99 570 states |
| ZtGateway_faults | 1 foreign and 1 own network, 2 settings, 1 apply waits, cuts and API faults | pass, 813 202 states |
| ZtGateway_network | 2 own networks, no faults | violated: a saved page makes a second network |
| FwPage | 1 watch (2 calls), 2 checks in the helper, 2 releases, one of them with an image, a click next to 1 request, 1 request of somebody else | pass, 639 928 states |
| DockerPage | 2 clicks, 2 requests or jobs of one name | pass, 187 360 states |
| StoragePage | 2 clicks, 2 installs in the helper | pass, 248 040 states |
| ZtMembers | 2 networks, 1 client and the gateway, 1 click at a time | pass, 165 504 states |
| Kvm | 2 machines, 3 settings of one and 1 of the other, 2 storage directories | pass, 302 048 states |

Why the bounds are enough. Three releases give every relation a check and a later
read of release.json can have: the same release, another with the same image name,
another with another name. Two requests and two jobs are the smallest race; more
only repeat it. With two requests and two releases the state space is beyond a run
(more than 20 million states); the race run therefore has one release, as its
property is about the word, in whose steps the release does not matter. For
`Storage` two disks make every duplicate id that involves the target; of a third
disk that has the running one's id, and passes for it, `RunningDiskKept` says
nothing (the theorems are for any number of disks). Of the four kinds of images
the run has a whole one that fits and a truncated one of another board; the other
two reach no step these do not. One page and one job are one administrator; a
page's request and the job still overlap. In `DockerApps` the second compose file
lacks a service of the first, so that a project has orphans; the app is called
`pull`, which makes the job of image pulls its own, the name with the most to
interfere. Apps share nothing else, and the theorem is for any number. The second
job never starts in the code's own behaviour of one administrator; it is there so
that the exclusion is checked and not assumed.

In `StorageExpand` a cut in preinit, after the flag is gone and before the
overlay is resized, loses the expansion; `GrowsOnReboot` excludes that by `told`.
In `ZtGateway` an apply reads the configuration when it gets the lock, so that one
that waits stands for any number.  With one own network a second creation fails
in `ZtGateway_faults`, which the API may do anyway; two are in `ZtGateway_network`
(with both faults and two networks there are 9 million states, for which TLC
found `Settled` to hold, too long for a regular run; `SettlesAsConfigured` proves it
for any networks and faults).

For the pages: with one watch its two calls already cross in every order, and a
second watch starts as soon as the first has ended; two clicks under way are the
smallest case in which one dialog takes the place of another's, and in which an
install follows one whose result is not shown yet; two requests in the helper are
the smallest in which both test before either sets.  A job that is nobody's on
this page stands for any administrator's.  Two checks overlap in every order of
their steps, and of two releases only one has an image, so that the job may find
none.  Two networks are the one that a
page was loaded for and the one that apply made since; a second client would
only repeat the first, and `MembersLetIn` is proved for any number.  Kvm's
settings are on both sides of every boundary of start_vm: two and three vCPUs,
an affinity of its own, a disk in the storage or elsewhere, with and without a
size.

Deadlock is checked in every run: the device can always reboot, publish or cut
the power.

Fairness. `FwUpdate` and `DockerApps` assume weak fairness of every step of a
background job: the shell is scheduled, and curl and compose return (curl is
started with a bounded number of retries and TCP notices a dead connection).
`Storage` assumes none: that a job never waits is an invariant of it, and a job
whose steps are taken is at its end after ten. No request is assumed to be made,
no release to be published, and nobody to reboot. `ZtGateway` assumes weak
fairness of the steps of apply: procd starts it, requests to the API time out
after ten seconds and the wait for it after ninety attempts. `Storage`,
`StorageExpand` and `ZtMembers` have safety properties only. `FwPage` and
`DockerPage` assume that a background job ends (shown for the helpers in
`FwUpdate_race` and `Docker_one`), `StoragePage` does not, as an install may die
without a word. All three assume that a poll is sent again (LuCI's timer runs
whatever is shown), and that an answer arrives or is given up; `DockerPage` and
`StoragePage` assume strong fairness of taking one, that is that not every answer
is lost for ever. No click is assumed. `Kvm` assumes that procd reloads when it is
triggered, starts what it has, and ends a process that was told to stop (it kills
after thirty seconds). A liveness property says in its premise what may prevent
it: jobs started again for ever, a job that died, a device restarted for ever.

Properties that hold for one administrator only say so.  With two, downloads
(and installs, and jobs of one app) may start twice, because the test and the
set of the state are two steps; `FwUpdate_race` shows what holds nevertheless.
The finding is what the violated run shows, with the line that says otherwise.
Histories (`doubt`, `mixed`, `real`, `granted`, `strayed`, `expect`, `same`,
`refused`, `told`, `left`) record what happened that the state alone does not tell;
no step is guarded by one.  Where a property has an exception, it names one, and
section 6 says what the code does then.

## 5. The proofs

`FwUpdateProofs`, for any releases, names and jobs:

* `TypeCorrect`: types, directly inductive.
* `OffersOnlyVerified`, `FlashesOnlyReleases`: assume one request at a time
  (`\A c, d \in Callers : c = d`).  The invariant `OneInv` adds to the
  properties that at most one job works, that a request past its guard excludes
  a job (`OneJob`), and what is in the files at each step of the job
  (`JobFiles`): `ReadyVerified` alone is not inductive, because it says nothing
  of the image before the job writes `done`.  One lemma per kind of step.
  TLC checked `OneInv` on the instance of `FwUpdate_one` before the proof.
* `RunningHasJob`, any number of requests: the word `running` has a job behind it.
  (The converse holds for one administrator only.)
* `FollowsJob`, one request at a time: every change of the word is a step of
  `Job`, from `OneJob`.
* `ServesThePage`, one request at a time: every step is one of `FwHelper` or
  changes nothing that module has.  `VerifyReady` is needed besides `OneInv`: an
  install that has passed its test still finds the image when it hashes it and
  when it schedules the flash, because no job works and no other request comes in
  between.  A flash while a
  download runs, whose image is in place but not yet tested, is a reboot there.

`FwPageProofs`, for any releases, watches, checks in flight and requests of others:

* The answers in flight are a sequence from which any may be taken, so the proof
  starts with lemmas on `Aged`, `Rest` and `Append`: what remains of a queue when
  an answer is taken, added or made old.
* `PageInv`: `TypeOK`; `LastHolds`, the last answer in the queue that is good and
  speaks of the download says what the helper has; `JobSection`, the section is
  right, or in doubt, or an answer to come or a watch will correct it;
  `GoodIsLast`, the answer of a check is what check.json has, or known to be old;
  `CheckSection`, the section of the release is right, or in doubt, or a check of
  this page is still under way.  `JobShown` itself
  only speaks of a page at rest, and an answer that is shown may be an old one: the
  queue is what decides whether a newer one follows.  TLC checked `PageInv` with
  one and with two watches before the proof.
* `ShowsTheDownload`, `ShowsTheRelease` and `TypeCorrect` follow.

`StorageProofs`, for any disks and images:

* `StorageInv`, any number of requests and jobs: `TypeOK`; `Stopped`, nothing runs
  while the system is down; `Copying`, a job that copies the system has a disk to
  copy it from.  The type of an id needs that `random_disk_id` finds one:
  `RandomIdIsFree` counts, there are more ids than disks.  `TypeCorrect` follows.
* `OneInv`, one request at a time: one job at most, and none while a request is
  past its test (`OneJob`); `Found`, a job works on another disk than the one it
  took for the running one, which still has the PARTUUID; and `JobDisk`, what the
  disk of a job has at each step, a whole system after the copy of one and an id
  of its own after sfdisk.  `DoneIsInstalled`, `DoneIsAlone` and `FollowsJob` (the
  safety half of `Job`: an install may die) follow.  Earlier cuts may have left
  any number of disks with one id; the proof does not assume otherwise.
* `KeepsRunningDisk`, one request at a time: where no third disk has the running
  one's id, `Found` says that the target is not the running disk, also when the
  target has that id too.

Its second part, on `StorageExpand`, is for any number of pages and any faults:

* `AlwaysSafe`: `ExpandTypeOK`, `Ordered` and `Stage` (a request past sfdisk has grown
  the table; while the system boots the kernel knows exactly the table and no
  request runs) are inductive together; `ExpandTypeCorrect` and
  `AlwaysOrdered` follow.
* `ExpandKeepsItsWord`: `Kept` follows the promise, for as long as `told` is
  "yes", through the stages of the boot: flag, then a whole table, then a whole
  overlay; where preinit gives up, the flag is still there.

`DockerAppsProofs`, for any apps, compose files and jobs:

* `TypeCorrect`: `TypeOK` needs `Kinds`, that a job which works on an app's files
  is not one of an image pull.
* `ContainersKeepTheirApp`: assumes one request at a time.  `NoOrphans` is not
  inductive: a delete removes the file in a step of its own.  `OneInv` adds that
  a name has one job at most, and none while a request is past its test
  (`OneJob`), that compose works on an app whose file is there and that a delete
  at its last step has left no containers or has failed (`JobFiles`).
* `DoneIsDone`, one request at a time: `JobResult` adds that compose works with the
  file that is installed, and that nothing between compose and `done` takes back
  what it has achieved.
* `FollowsJob`, one request at a time: for every name, of an app or of the pulls,
  `Job` with that name's state; needs that a request about to set the state still
  finds none running (`SetFree`).
* `RunningHasJob`, any number of requests, also on one app.

`ZtProofs`, second part, `ZtMembers`, for any networks and clients:

* `MemberInv`: `MembersTypeOK`; `ShownNet`, a page without a network lists no
  members; `ReadNet`, the helper that asks the controller has the id of a network,
  which need not be the click's; `Clicked`, nobody but a client is clicked on;
  `LetIn`, whoever is authorized was let in, in a public network too.
  `AccessGranted` alone is not inductive: a public network may be made private.
* `MembersTypeCorrect`, `MembersLetIn` and `GatewayIn` follow.
* `ShowsAsClicked` needs `Promised` besides: while nobody disturbs it, a click is
  for the configured network at every step, and once the controller has answered
  its record is as the button said.

`DockerPageProofs`, for any number of clicks under way:

* `PageInv`: `TypeOK`; `Asking`, a request or job that a click made has that click
  waiting for it or following it; `Following`, a click whose job was alone when it
  wrote the word: until that ends it stays alone, and then its end is the word
  until another starts; `EndWord`, a final word in flight is the own job's, where
  the words do not mix; and `NoDeadDialog`.  The exclusion is not given, as two
  requests may test before either sets: it follows for those that did not, because
  the word `running` keeps out the others.
* `TypeCorrect`, `ShowsOwnResult` and `DialogIsFollowed` follow.

`StoragePageProofs`, for any number of clicks, and of installs in the helper:

* `PageInv`: the same with `DoneWord`; the word nobody can replace while it is
  `running` is also that of a dead job, so that its follower never sees the `done`
  of another.
* `TypeCorrect`, `OwnDone` and `DialogIsFollowed` follow.

`KvmProofs`, for any machines, settings and storage directories:

* `KvmInv`: types; `Told`, when no reload is due procd has the command of the
  configuration, or none; `Unchanged`, so it has of a machine of which nothing
  was changed, the storage included, also before the reload.
* `CoresOfOneType` needs `Told`, `LeavesOthersAlone` needs `Unchanged`, because a
  reload compares what start_vm makes now with what procd has.

`ZtProofs`, first part, `ZtGateway`, for any networks, settings and faults, and
any number of applies that wait:

* `GatewayInv`: `TypeOK`; `Staged`, which steps an apply may be at in each of its
  phases; `OnDevice`, what it has committed by each step; `Current`, the last
  apply is for the configuration as it is now; `RunsCommitted`, zerotier-one
  runs with what is committed, or the apply owes a restart; and the two
  properties.  `Settled` says nothing while an apply runs, which is why
  `OnDevice` follows the device through every step.  An apply that failed between
  two commits leaves only what the next one writes again.
* `SettlesAsConfigured`, `ClosesUnnamed` and `TypeCorrect` follow.

The proofs rest on the named assumptions of the modules (`FwAssumption`,
`StorageAssumption`, `ExpandAssumption`, `DockerAssumption`, `JobAssumption`,
`MemberAssumption`, `ChainAssumption`, `PageAssumption` of the two pages,
`KvmAssumption`, `NoneAssumption`, `ZtAssumption`, `RunAssumption`), which TLC
evaluates, and on the hypotheses of the theorems.  What they ask is that `None` is
no value, that the disks are listed once, in a finite order, and that the bounds of
`FwPage` are numbers.

Only model-checked are the liveness properties (`JobEnds`, the fair half of
`ImplementsJob`, `Quiesces`, `WatchEnds`, `FollowEnds` of both pages, `Applied`)
and `JobNeverWaits`, which are out of the prover's reach (it has no rule for
ENABLED); and the violated run. `RunningHasJob` is the safe half of `JobEnds`:
what is left to fairness is that each step of that job is taken. The type
invariants of `FwUpdate`, `FwPage`, `DockerPage`, `StoragePage`, `ZtMembers` and
`Kvm` are proved and no property of a run.

## 6. What the models show of the code, besides

Some of what the code does is no disagreement with a property of a run, because
the property says where it stops.  A reader should know of it:

* Two requests may test a job's word before either sets it, as the test and the
  set are two steps.  Two downloads then write one part file, and the checksum,
  the name and the image that are left need not be of one of them; two installs
  write to one disk or read one upload, and the first to end removes the backup of
  the other; two jobs of one app run together.  Their word is one, and each page
  shows the end that comes first (`mixed` of the pages).
* install of the Firmware Update helper reads the checksum, hashes the image and
  schedules the flash one after the other, and sysupgrade opens the file two
  seconds later.  With two administrators another download may replace the file
  in between (`FwUpdate!InstallSum`, `InstallHash`, `InstallSchedule`, `Flash`), and
  what is flashed need not be what was hashed.
* All checks download to one release.json.tmp and move it, so that check.json and
  release.json may be of different releases.  The page shows the first, and the
  job takes the address from the second (`FwPage!CheckDump`, `JobEnd`).
* install names no image: what another administrator has downloaded since the page
  was drawn, or confirmed, is flashed (`FwPage!Install`).
* A poll of the Firmware Update page that fails ends the watch and empties the
  section, while the download goes on; the page then shows nothing until it is
  loaded again (`FwPage!ShowJob`, in `doubt`).  A reboot leaves the page with what
  it shows.
* An install to a disk that dies leaves the word `running`: `die` ends the
  background shell before the lines that write `failed`.  The dialog of the page
  cannot be closed then, and the next install is refused until a reboot
  (`Storage!Die`, `StoragePage!Die`; `StoragePage!FollowEnds` excepts it, and
  `DoneIsOwn` shows that the dead word is at least never taken for a result).
* A power cut after the copy of the boot partition leaves a second disk with the
  running root's PARTUUID and no root behind it, which the kernel may choose
  (`Storage!PowerCut`, `RootsOf`), and which boot_disk may name instead of the disk
  the system runs from (`BootDisks`).  The target of an install is compared with
  the one it names: with a third disk of that id the running disk may then be the
  target (excepted in `RunningDiskKept`), and the next copy may be one of the
  broken disk (excepted in `DoneMeansInstalled`).  `OwnDiskId` is about finished
  installs.
* No error of gzip or dd counts while an image is written: one that was written in
  part, and a truncated upload, whose metadata is lost and whose board is not
  compared, ends with `done` if its first sector has a signature, also the one
  the disk had before (`Storage!JobMeta`, `JobWrite`).
* An install that boots from the new disk dies in its last step when a status
  request has the eMMC / SD card's boot partition mounted (`Storage!JobExt`).
* The install names a slot, not a medium: one that took the place of the disk the
  page shows is erased.
* expand grows the partition before it writes the flag; when a status request
  has the boot partition mounted, the flag is not written, and the page says that
  the root uses the whole disk already (`StorageExpand!ExpandMount`, `ButtonFor`).
* Preinit removes the flag before it grows the overlay: a cut in between loses the
  expansion (`StorageExpand!ExpandCut`).
* A delete reports `done` although compose down failed, and its containers run on
  unlisted (`DockerApps!JobRemove`; `NoOrphans` excepts `left`).
* The compose file a form has written may be replaced by another of the same name
  before the install is asked for, and again before the job moves it
  (`DockerApps!Upload`).
* A dialog that comes late takes the place of a form that is being edited; a
  failed request of one install hides the dialog of another; the reload after
  bootext drops whatever is open (`DockerPage!TakeOther`, `TakeStarted`, and in
  `StoragePage` also `Fail`, `Timer`).
* A click on a member goes to the network of the configuration as it is when the
  helper reads it: after a save and an apply it lets the client into a network
  that was not there when the page was drawn (`ZtMembers!ReadId`, `strayed`).
* An error of a click on a member is a notification, and the reload that follows
  in the same handler takes it away (`ZtMembers!Answer`).
* A disk image that start_vm creates is a qcow2 file whatever its name, and opened
  as raw when the name does not end so (`init.d/kvm:64`), although the form says
  `Path to .qcow2 or raw disk image, created automatically if "Disk size" is set`.
  `Kvm` has no formats: which one is given to qemu depends on nothing but the name.
* Any reload starts a guest that was shut down, and stops a running one for which
  start_vm fails by now (`Kvm!Reload`).  A new storage directory restarts every
  machine, with new UEFI variables, those with a disk of their own too
  (`Kvm!SaveStorage`, excepted in `Undisturbed`).

## 7. Not modelled

Wi-Fi auto configuration: a script that runs through once per radio; what its
rules say of channels and bands is data, and what is concurrent in it is one read
and commit of /etc/config/wireless, which the hazards list.  The release workflow:
what order concurrent runs, caches and branches come in is decided by GitHub, and
the repository has only the calls.  Display, HDMI and radio
firmware have no state of their own; board support is data.  Texts, translations
and layout of the pages, and the JSON on the way to them, are left out
throughout; so are the compose files docker-apps.js generates (an image that
exposes a reserved port p and 8000 + p gets one host port for both) and starting
dockerd.
