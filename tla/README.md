# TLA+ models of goback

goback makes zip archives of directories and databases, keeps the last N of each
profile, and pulls the archives of one host to another. This directory holds TLA+
models of it, TLC configurations that check them, and TLAPS proofs of every safety
property that they check. Source paths below are relative to the repository.

## 1. Inventory

| Component | State | Operations | Interacts with |
|---|---|---|---|
| local backup run (`app/goback/goback.go`, `files.go`) | destination directory, archive being written, zip handler | `runLocalProfile`, `prepareDestination`, `backupLocal`, `copyLocalFiles`, `delZipAndErr`, `chown`, `chmod` | other goback processes through the directory; users who change the files it copies |
| retention (`app/goback/expurge.go`) | a listing and the list of files to delete | `ExpurgeDir`, `findToDelete`, `extractTime` | called by all three kinds of run; other purges of the directory |
| sftp sync (`app/goback/sftpsync.go`) | two listings, the list of downloads, partial copies | `runSyncProfile`, `syncRemoteBackups`, `sftpDownload`, `findDifferentProfiles` | a goback that changes the remote directory meanwhile |
| remote backup run (`goback.go`) | destination directory, ssh and agent connections | `runRemoteProfile`, `backupRemote`, `copyRemoteFiles` | the directory of local runs; an sftp server |
| ssh client (`lib/ssh`) | `conn`, `agentConn` | `New`, `Connect`, `Disconnect`, `Session`, `Which`; `Stat`, `ReadDir`, `WalkDir` (`scp.go`) | sync and remote runs |
| profile loading (`internal/profile`) | the loaded profiles, the collected errors | `LoadProfile`, `LoadProfiles`, the validations | command line |
| runner and commands (`goback.go`, `app/cmd/cmd.go`) | profile list, errors, exit code | `backup`, `validate`, `Run`, `RunProfile`, `RunWithNotify` | calls everything above |
| notification (`notify.go`) | none | `NotifySuccess`, `NotifyFailure` | mail server |
| zip handler (`lib/zip`) | `isOpen`, file, writer | `New`, `AddFile`, `AddSymlink`, `WriteFile`, `FileWriter`, `Close` | local and remote runs |
| database dumps (`lib/mysqldump`, `lib/pgdump`) | child process or container exec | `WriteLocal`, `WriteFromDocker`, `WriteFromRemote`, `WriteFromSshDocker` | local and remote runs |
| logger, metainfo, `generate`, `version` | none | print | none |

There are no threads in goback itself. What is hard is between processes: files
change while they are walked, dump commands write into pipes and end as they like,
connections are cut, crontab
entries (`zarf/cron_*.sh`) start a process each, nothing locks a directory, a
killed process leaves its archive under the final name, and a sync on another host
reads a directory while it changes. Names carry the only metadata: the profile and
a time stamp in local time with a resolution of a second. `PROJECT.json` lists the
hazards by line; what makes each part correct:

* **local run**: success means a complete archive; a failed run leaves nothing
  behind; a run does not disturb, and is not disturbed by, another profile's.
* **sources**: a success has archived every file that stayed in place and all of every
  dump; what fails has a cause; no command is left behind, and the copying ends.
* **retention**: at most N archives remain, exactly the newest; a purge that is cut
  off has deleted only what had N newer archives; a complete archive is not given
  up for a partial one.
* **sync**: a success has every archive of the listing; a copy is complete or will
  become so; a sync destroys no copy it still needs, and it ends.
* **remote run**: archives land in the destination, which itself is left alone.
* **runner and loading**: exit code 0 is honest, one profile's failure does not
  stop the others (a rejected file stops all, and the exit code says so), mails match outcomes, and what is loaded meets what the runs
  rely on.

## 2. Modules

| Module | What it models |
|---|---|
| `BackupStore` | abstract: a set of restorable archives from which a profile's newest is never lost |
| `Archives` | archives as (name, stamp); `findToDelete` on sets of them |
| `LocalBackup` | processes running local profiles into one directory, one action per system call others can observe |
| `ItemCopy` | abstract: what `LocalBackup` takes the copying of items to be |
| `BackupItems` | the loop over directories and databases that `backupLocal` and `backupRemote` share |
| `Paths` | a directory tree: which paths lie above and below which; used by `CopyWalk` and `SshWalk` |
| `CopyWalk` | `copyLocalFiles` and `copyRemoteFiles` path by path, under changes |
| `DbDump` | the handlers of `lib/mysqldump` and `lib/pgdump` with the dump command as a process |
| `Sources` | `CopyWalk` and `DbDump` together; implements `ItemCopy` |
| `SshWalk` | `WalkDir` of `lib/ssh/scp.go` |
| `Expurge` | `ExpurgeDir` down to file names: byte-ordered listing, `year_DAY_month` dates, parsing, stable sort, slice. Shown to agree with `Archives` |
| `SftpSync` | one sync process, its destination, and a remote directory that changes |
| `PullSystem` | `LocalBackup` on one host, `SftpSync` on another |
| `RemoteBackup` | a remote profile run into the directory of `LocalBackup`, with the ssh client |
| `ProfileLoader` | which profile files are accepted |
| `Runner` | one `backup` or `validate` command up to its exit code and mails |
| `MC*` | the constants of the TLC instances |
| `Archives_proofs`, `Paths_proofs` | lemmas about `findToDelete` and about trees, used by the others |
| `Expurge_proofs`, `Sources_proofs`, `SftpSync_proofs`, `SshWalk_proofs`, `Runner_proofs` | the theorems about the module of the name |
| `LocalBackup_proofs` | the theorems about `LocalBackup` and what it is composed into, `RemoteBackup` and `PullSystem` |

Operators that end in `_Something` are mutants: the definition with a plausible
bug, which must break a property (`PROJECT.json`, `mutants`).

**LocalBackup.** `pc[p]` is the place of process p in `runLocalProfile`; `files` is
the directory, `good` the archives in it whose zip is complete, `handle[p]` says
whether the open file is p's alone, is also written by another process, or has
lost its name in the directory. `zip`, `left`, `todel` are `destZip`, what the loops
of `backupLocal` have still to do, and `filesToDelete`. Each action is one system
call with all its outcomes; `Faults` says which may fail by themselves, on top of
failures other processes cause. What is abstracted: the content of an archive
(complete or not), a directory's walk and a dump (one step of `CopyDir` or `CopyDb`
that succeeds, fails or, for a dump, panics; `Sources` has the detail), the time
between ticks. A glob that a name makes is `Matches[name]`; names
`glob.Compile` rejects are `Uncompilable`.

**Sources.** `pc` is the place in `backupLocal` or `backupRemote`, `item` the pass of
its loops, `entries` the sources that have an entry in the zip, `whole` the sources of
which the zip has everything. *CopyWalk*: `todo` is what the walk has listed and not
visited, with what the listing said; `filepath.Walk` looks at a path again before it
visits it, sftp's `Walker` does not (`InfoOf`), and lists whatever it finds in place
of a directory when it comes to it (`Descend`). `touched` remembers what others have
changed. Directories are listed, paths visited and opened in separate steps, so that
changes come between them; a path is then read in one step, and the order within a
listing is free. `handles` counts the files `copyRemoteFiles` leaves open. *DbDump*:
the dump command (`proc`) has written `wrote` chunks, of which the zip has `got`; it
blocks when the pipe is full, ends or closes its output when it likes, and its
connection (`link`) may be lost. The eight handlers differ in how they find the
command (`bin`), start it and learn of its end (`ExitOk`); `via` tells them apart.
`mysqldump` and `pgdump` are twins but for the search in a container. Each shared
definition is mapped to one of the twins it stands for. `faulted` is history: an
operation failed by itself.

**SshWalk.** `stack` has, for each `walkDir` in progress, the entries still to come;
`calls` is the history of the calls of the caller's function and its answers. `readDir`
may return its entries together with an error, when only the `Close` of the session
fails; the walk then goes on over them if the function answers the error with nil. Nothing
in goback calls `WalkDir`; it is an exported function of the library with tests of
its own.

**SftpSync.** `spc` is the place in `runSyncProfile`. `locals`, `diff`, `sdel` are
the local listing, the downloads left and `filesToDelete`; `cur` and `src` are the
download in progress and whether the archive was complete when it was opened.
`listed` and `complete` are history variables that the properties refer to. The
order of downloads is free: properties do not depend on the order of the listing.

**PullSystem.** `SftpSync` is instantiated with the `files` and `good` of
`LocalBackup` for the remote directory. Every step of the backup host may come between
any two steps of a sync; nothing in the code keeps them apart. `caught` is a history
variable: the archives whose copy here was opened while a run had them unfinished. That the backup host behaves as the
environment of `SftpSync` is itself a checked refinement (`SyncSpec`).

**RemoteBackup.** `runRemoteProfile` passes the directory where the name of the
archive belongs, so `zip.New` fails whatever happens; the model has the steps up to
there and the clean-up. What `backupRemote` does after a successful `zip.New` is
unreachable from the commands; `Sources` models it all the same, for the day the name
is right.

**Runner.** A profile file is a record of what the checks can tell of it
(`Document` of `ProfileLoader`); `Commands` is what can be typed. How a run
ends is nondeterministic. A Go panic ends the command with code 2. `skipped` holds the
files the walk of a directory could not see.

## 3. Runs

Passing runs:

| Run | Instance | Shows |
|---|---|---|
| `LocalShared` | 2 processes with a profile each (keep 1 and 2, one with 2 items, of which one is a database), 5 old archives, clock 2..4, every fault but `close` and `glob`, kills | `SuccessHasArchive`, `RetentionBound`, `KeepsNewest`, `StoreSpec` |
| `LocalGraceful` | the same processes without abrupt ends, with short listings, fairness | `NoPartialLeft`, `KeepsNewestUsable`, `RunEnds` |
| `LocalFaultless` | nothing fails but `Close`, the clock may be set back, starts are not paced, one profile has a name that is no pattern; fairness | `NoSpuriousFailure`, `RunSucceeds`, both but for the panic of the bad pattern (`Panics`) |
| `Expurge` | all directories of up to 4 files from 3 names and 6 dates (two of them no dates), a name that matches another, keep -1..3 | `OldestGoFirst`, `KeepsExactlyN`, `AgreesWithArchives` |
| `Sync` | 2 names with 2 stamps each, profiles of 0, 1 and 2 directories, all faults but `glob`, kills; fairness | `MirrorsListing`, `LocalRetention`, `KeepsNewestCopies`, `SyncEnds` |
| `PullHosts` | both hosts with two runs of the one and any number of syncs of the other, interleaved freely, failing and killed backups; fairness | `PulledWhatWasComplete`, `SyncFailsOnlyForGone`, `SyncSpec`, `EventuallyPulled`; by `SyncSpec` what `Sync` shows of copies carries over |
| `RemoteShared` | a local and a remote profile, all destinations, all remote faults; fairness | `RemoteTypeOK` (which connections are open when), `StoreSpec`, `RemoteEnds` |
| `RunnerAll` | every single-file defect, directories of up to 3 files, all command faults; fairness | `ExitCodeHonest`, `AllOrNoneRun`, `MailsMatchOutcomes`, `LoadedMeetsAssumptions`, `CommandEnds` |
| `Sources` | local and remote profiles of two directories, of two databases in each of the four ways, and of both; 12 trees with links, dangling links, locked paths and bad roots, paths replaced at any time, all faults; fairness | `StableFilesArchived`, `DumpsComplete`, `FailuresExplained`, `CopySpec`, `SourcesEnd`, `NoCommandStays` |
| `SshWalk` | 5 paths in 3 levels, trees with types `parseStatLine` does not know, paths replaced at any time, sessions that fail before the listing or after it, all answers of the caller; fairness | `NothingMissed`, `ErrorsAreTheCallers`, `WalkEnds` |

Runs that end in a counterexample, each against a sentence of the repository
(`PROJECT.json`, `findings`, quotes it):

| Run | Counterexample |
|---|---|
| `PullRetry` | a partial download is taken for the archive by the next sync |
| `RemoteNever` | no remote profile ever succeeds |

The passing runs mark where the promises end. A change of one constant, or dropping an
exception that a property makes, shows what lies beyond:

| Change | What TLC then shows |
|---|---|
| `LocalShared`, `"close"` in `Faults` | `Handler.Close` drops its errors: the run succeeds and the archive is incomplete (`SuccessHasArchive`) |
| `LocalShared`, `ClockBack = TRUE` | the purge takes the archive just made for the oldest (`SuccessHasArchive`) |
| `LocalFaultless`, `InitDest = {"absent"}` | two processes create the destination, one `Mkdir` fails (`NoSpuriousFailure`) |
| `LocalGraceful`, `"crash"` in `Faults` | the partial archive of a killed run stays (`NoPartialLeft`), and is kept in place of a complete one (`KeepsNewestUsable`) |
| `LocalShared`, both processes run the same profile | one purge deletes the other's new archive (`SuccessHasArchive`) |
| `LocalShared`, `Paced = FALSE` | a second run in the same second truncates the archive of the first (`KeepsNewest`) |
| `PullHosts`, without the exception of `caught` | an archive pulled while it is written is complete at the next sync, and is never pulled again (`PulledWhatWasComplete`, `EventuallyPulled`) |
| `Sources`, `ExitRecorded = FALSE` | the code inspects an exec without waiting for it (`docker.go`: "Wait for the exec to complete and get the exit code"): a dump that failed half-way is a success (`DumpsComplete`) |
| `Sources`, an exclude pattern that matches the root of a directory (`RootsKept` fails) | `copyRemoteFiles` tests the root against the patterns where it is a symbolic link: the directory is left out and the run succeeds (`StableFilesArchived`) |
| `SshWalk`, without the second case of `Excused` for errors | the skip that answers the error of a directory leaves out what follows the directory in the one above (`NothingMissed`) |
| `SshWalk`, without the last line of `Due` | `ls` prints nothing of a directory it cannot read, `readDir` reports neither entries nor an error (`NothingMissed`) |

Outside every promise the repository makes, but seen in the models: a source error
leaves the zip handler open until the process ends; digits that are no date parse to
the zero time and are deleted first; a failed dial leaves the connection to the ssh
agent open; a remote run removes an empty destination directory; a sync fails when a
file it has listed is purged before it is downloaded; two directories of a profile with
the same last element, or two databases of a name, share entries of the zip (entries are
identified by their source here); a panic, or one
invalid file, keeps the other profiles from running, and in the second case nobody is
mailed; profiles in an unreadable part of the directory are left out with exit code 0
(`skipped`); a dangling link fails a run unless it is excluded (a TODO of the
repository's README); an excluded directory is walked all the same, and fails the run
where it cannot be read; a directory that is a link can be backed up here and not over
sftp; a special file with a short path makes `parseStatLine` panic; the README's notify example lacks `from` and sends no mail.

**Bounds.** `MaxClock` bounds the stamps. In `LocalShared`, with 5 old archives and
three further seconds, each profile can be run three times, more often than the
largest keep, so that its own new archives become the oldest. `LocalFaultless` needs
one second only: starts are not paced there, and a run may follow a run in it. Two
processes suffice for the interference between pairs, and each action names only one
process besides its own through the files it removes; the proofs cover any number.
`MaxFiles = 4` in `Expurge` exceeds the largest keep by one, with dates around the
changes of month and year that tell byte order from age. In `Sync` two stamps let an
archive appear, be completed, superseded and removed while a sync that keeps one
runs; in `PullHosts` the backup host, which keeps one archive, makes two more and
purges those before them while syncs list and download, or come too late.
In `Sources` a
dump of 3 chunks does not fit a pipe of 1, an sftp server keeps one file open, and the
changing directory has a path below another, so that a directory can become a file
with its listing taken, and the reverse. `SshWalk` has two siblings in an inner
directory and one in the outer, which tells the loops that a skip may leave apart.
`CHECK_DEADLOCK FALSE` is set where the bounded clock lets everything come to rest
(a paced run may start only in a new second) or where the program ends; in
`LocalFaultless`, `Sync` and the `Remote` runs deadlock is checked.

**Fairness.** `FairSpec` of `LocalBackup`, `SftpSync`, `RemoteBackup`, `Runner`,
`Sources` and `SshWalk`
is weak fairness of the steps of a run that has begun: goback is one thread per
process and waits for nobody, so a run goes on as long as its system and network
calls return. The calls have no timeouts; a call that never returns is a hazard
listed without a property. No fairness is assumed for starts of local runs, ticks
or crashes. `PullFairSpec` adds weak fairness of the start of a sync: the crontab of
the pulling host starts one again and again. `EventuallyPulled` speaks of behaviours in
which runs and syncs are kept apart from some time on (`<>[]Apart`), as two crontabs
can do and the code does not; where they never are, every copy may be caught. `Sources` adds weak fairness of a dump command that is
not blocked (`Command`); that it fails, closes its output early or loses its
connection is possible and never required.

**The operating rule.** The promises of `LocalBackup` hold under `OperatingRule`:
no two processes run profiles of one name, no name is a pattern that matches
another, the clock is not set back, and no run starts in the second of its name's
last archive. Nothing in the program enforces it; the changes
above show that dropping a part of it breaks them.

## 4. Proofs

The theorems hold for all values of the constants that satisfy the named `ASSUME`s:
any number of processes, profiles, names, files, dates, paths, databases, chunks and
documents. Each states a property that a run of section 3 checks; the last three of
`PullSystem` state of the two hosts what the run `Sync` checks of one. *Rule* is the
operating rule.

| Module | Theorem | Condition | Conclusion |
|---|---|---|---|
| `LocalBackup` | `TypeCorrect` | none | `[]TypeOK` |
| | `SuccessfulRunLeavesArchive` | rule, no unreported `Close` error | `[]SuccessHasArchive` |
| | `RetentionIsBounded` | rule, complete listings | `[]RetentionBound` |
| | `NewestAreKept` | rule | `KeepsNewest` |
| | `ImplementsStore` | rule, no unreported `Close` error | `StoreSpec` (refinement of `BackupStore`) |
| | `PartialsAreRemoved` | rule, no abrupt end | `[]NoPartialLeft` |
| | `NewestUsableAreKept` | rule, no abrupt end | `KeepsNewestUsable` |
| | `NoRunFailsByAnother` | `SeparateNames`, `PlainNames`, only `close` and `glob` fail by themselves, the destination exists | `[]NoSpuriousFailure` |
| `Sources` | `SuccessHasStableFiles` | `RootsKept` | `[]StableFilesArchived` |
| | `SuccessHasAllDumps` | `ExitRecorded` | `[]DumpsComplete` |
| | `FailuresAreExplained` | none | `[]FailuresExplained` |
| | `ImplementsItemCopy` | `ExitRecorded` | `CopySpec` (refinement of `ItemCopy`) |
| `SftpSync` | `TypeCorrect` | none | `[]TypeOK` |
| | `Mirrors` | `PlainNames` | `[]MirrorsListing` |
| | `NewestCopiesKept` | `PlainNames` | `KeepsNewestCopies` |
| | `RetentionBounded` | `PlainNames`, complete listings | `[]LocalRetention` |
| `Expurge` | `OldestRemovedFirst` | none | `[]OldestGoFirst` |
| | `ExactlyNKept` | none | `[]KeepsExactlyN` |
| | `SelectsAsArchives` | none | `[]AgreesWithArchives` |
| `RemoteBackup` | `RemoteTypeCorrect` | none | `[]RemoteTypeOK` |
| | `LocalRunsBesideRemoteRuns` | as for local runs alone | `[]SuccessHasArchive`, `[]RetentionBound` |
| | `SharedDirectoryImplementsStore` | rule, no unreported `Close` error | `StoreSpec` |
| `PullSystem` | `BackupHostIsARemoteHost` | rule | `SyncSpec` (refinement of `SftpSync`) |
| | `SyncsFailOnlyForGone` | rule, of the sync's operations only `glob` fails, names of syncs compile | `SyncFailsOnlyForGone` |
| | `SyncsPullWhatWasComplete` | rule, no download breaks off | `[]PulledWhatWasComplete` |
| | `PullMirrorsListing` | `PlainNames` | `[]MirrorsListing` |
| | `PullKeepsNewestCopies` | `PlainNames` | `KeepsNewestCopies` |
| | `PullRetentionBounded` | `PlainNames`, complete listings | `[]LocalRetention` |
| `Runner` | `ZeroMeansDone` | none | `[]ExitCodeHonest` |
| | `AllHaveRunOrNone` | none | `[]AllOrNoneRun` |
| | `OneMailPerOutcome` | none | `[]MailsMatchOutcomes` |
| | `LoadedCanRun` | none | `[]LoadedMeetsAssumptions` |
| `SshWalk` | `OnlyTheCallersErrors` | none | `[]ErrorsAreTheCallers` |
| | `NoPathForgotten` | none | `[]NothingMissed` |

The conditions hold in the runs that check the properties, and the table of changes
in section 3 drops most of them one by one and gives the counterexample. *Complete
listings* means that `"glob"` is not among the faults, *abrupt ends* are
`AbruptFaults`: kills, panics, a failed removal of the partial archive, and `"close"`,
the error `Handler.Close` drops.

**What is assumed.** That the constants are sets of the right kind: names are numbered
and each has a pattern (`NamesAssumption`, `GlobAssumption`), every profile has a name,
a number to keep and at least one source, which loading enforces (`LoadedCanRun`;
`ProfilesAssumption`, `SourcesAssumption`), every path but the root lies in a
directory, with the root above all (`PathsAssumption`), the initial trees are trees
(`TreeAssumption`, `WalkAssumption`), a sync lists names (`SyncAssumption`,
`PullAssumption`), a date in a file name is a year, a month, a day and one of ten
times of day (`ExpurgeAssumption`), and commands are what the command line accepts
(`CmdAssumption`).
TLC evaluates them all.

**LocalBackup.** `TypeOK` is not inductive: that closing a handler completes a
*listed* archive needs `HandleLinked` (a handler that is not orphaned writes to a listed
file). The safety theorems rest on `IInv`, which says of each process: it runs one of
its profiles (`Owned`); until it opens its archive all archives of its name are older
than the clock (`FreshStamp`), so that the archive is then the newest of its name
(`ZipNewest`) and written by it alone (`Writing`); once written it stays in the
directory (`ArchiveKept`); whatever is still to be purged has Keep newer archives
(`Purging`), and what is not to be purged is within the bound (`Retained`).
`NonInterference` shows that a step of a process with other names leaves all that
these conjuncts mention alone. `NoRunFailsByAnother` needs neither paced starts nor
a clock that goes forward, so it has an invariant of its own: what a process has
listed, or is to remove, is still there (`Undisturbed`).

**Archives.** `FindToDelete` says that what is to be deleted is listed, has Keep newer
listed archives, and leaves at most Keep. It needs that a finite set of stamped archives
has, for every k, at most k elements with fewer than k later ones; that is proved from
the largest element, not by recursion. `LocalBackup`, `SftpSync` and `PullSystem` cite it.

**Expurge.** Sorting is stated by ranks: the i-th element of a sorted list is the
one with i - 1 before it. That there is one for each i (`RankIsOnto`) needs no induction:
ranks grow with a strict total order, so they are an injection into 1 .. n from a
set of n elements, and hence onto. `ListedTotal` and `PrecedesOrder` show that the byte
order of names and the order of times with ties broken by position are such orders;
`TimeOfDate` that the time of a date is as a reader of dates has it, where one that
does not parse has Go's zero time, the first second of year 1. `Selection` then says what `findToDelete`
returns: the matching archives by time, without the last N. For the purge itself,
`OrderInv` says that what has been removed, and what is still to be removed, comes
before everything that is left, whatever others remove, and `CountInv` that together
they are what there was too much of; both go into `ExactlyNKept`, which says how many
are kept and that none that went is later. `SelectsAsArchives` closes the gap between the two
levels: an archive goes by name if and only if N of those that match come after it
(`SelectionByCount`), which is how `Archives` defines it by stamp. So the theorems
about `LocalBackup`, `SftpSync` and `PullSystem`, which use `Archives`, hold of the
file names, where the dates in them are valid.

**Sources.** `Inv` has one part per concern: the place in the loop (`ItemsOK`), the
dump (`DumpInv`: the pipe is at its end only when everything has been read, and a
command that ended well has written everything), the zip (`ZipInv`: every entry is
whole but the dump in progress, and so is every database the loop has left behind), the tree (`TreeInv`: whoever
touches a directory touches what is below), the walk and the failures (`FailInv`). The
walk is the hard one: `Pending` says that each untouched path that must be archived
is in the zip, or it or a directory above it is still to come. This is inductive
only with `TodoInv` and `CurInv`: what the listing said of a path agrees with what
is there, unless somebody touched it.

**Trees.** "Above" is recursive, and recursive definitions are beyond the provers. `Paths`
defines the paths above a path as the least upward-closed set with its parent;
`Paths_proofs` derives what the walks need: the step through the parent,
transitivity, and that a path is not above itself.

**SshWalk.** As in `Sources`, `WalkInv` says that a path is told of, excused or
`Pending`; here a path may be pending in any of the nested loops (`Entries(stack)`).
A skip in answer to a file leaves the innermost loop, which excuses all that loop had
to come only because its entries lie in one directory (`Together`). The two exceptions
that `NothingMissed` makes, directories `ls` cannot read and errors answered with a
skip, are where the code differs from `filepath.WalkDir`; TLC has a counterexample
without either.

**SftpSync.** `Consistent` follows a listed archive: it is here, superseded here, or
still to be downloaded, and what is to be removed is superseded. `RetentionBounded`
needs more: the directories before the current one are within their bounds and stay
so (`DoneBounded`), because a download brings archives of the current name only, and
that is where a name that is listed twice needs care.

**RemoteBackup and PullSystem.** A remote run changes of the shared directory only
that an empty one may vanish, so `IInv` is kept (`RemoteSteps`, `DestKeepsIInv`). For
`SyncSpec` the steps of the backup host map to `RemoteStarts`, `RemoteCompletes`,
`RemoteRemoves` or a stutter (`BackupIsRemote`). `PulledWhatWasComplete` relates two
hosts: what is here and incomplete is caught, or dead on the other side
(`PartialsDead`), that is, nobody writes it any longer and its stamp is past
(`ZipPast`), so that it will not be listed as complete later; what was complete when
listed is here complete, caught, superseded or still to come (`Pulled`). For
`SyncsFailOnlyForGone`, what a purge takes away has Keep newer archives that no run is
still writing (`PurgedIsSuperseded`); such archives go only by another purge, so that
what was complete stays, or is gone in this way for good (`GoneStays`, `AccountedNext`). The last three theorems of the table are what
`SftpSync` promises, stated of the two hosts together; they need nothing of the backup
host, so that they hold even where the operating rule is broken there.

**Runner.** `LoadInv` ties the list of profiles to the documents seen, `RunInv` says
that the loop has run exactly the profiles before its index and that failures are
noted, `ErrInv` that a file is rejected if and only if the error of loading is set,
in which case nothing is run, `MailsInv` that each document has the mails its outcome calls for, but for
the one whose notification is next. A panic (exit code 2) is why the last is
conditional.

**Only model-checked.** Liveness (`RunEnds`, `RunSucceeds`, `SyncEnds`,
`EventuallyPulled`, `RemoteEnds`, `CommandEnds`, `SourcesEnd`, `NoCommandStays`,
`WalkEnds`) is out of the prover's reach, as is ENABLED. Every other property of a
passing run is a theorem.

## 5. Not modelled

* what `runRemoteProfile` does after a successful `backupRemote`: never reached, and
  the same as in `runLocalProfile`;
* the command lines and credentials of the dumps (`getArgs`, what `loadCnfFiles` reads): a dump
  command ends well or badly whatever they are;
* content that changes while it is copied: a file is read in one step;
* `ListFiles` of the zip package (tests only), `NewScp` (passes through);
* durability: the code calls no fsync, and a power failure is modelled as a kill;
* logger, metainfo, `generate`, `version`: they keep no state.

## 6. Plan

Done: all components that keep state are modelled, and every safety property and
refinement that a passing run checks is a theorem. What could come next:

1. Weaker conditions where the proofs do not use all of the rule: `NewestAreKept` and
   `ImplementsStore` for processes that share a name but never overlap.
2. Kills of the pulling process in `PullSystem`, which has them only in `SftpSync`: the
   partial copies they leave break `PulledWhatWasComplete`, as `PullRetry` shows for
   a download that breaks off.
3. Timeouts, should the code set any: the ssh, sftp and mail calls without one are
   the hazards that no property covers.
