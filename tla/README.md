# A TLA+ verification of the UCS@school ID Connector

The ID Connector replicates users and school classes of a UCS domain to the
systems of school authorities. This directory holds TLA+ modules translated
from its Python code, TLC configurations for small instances of them, and proofs
for TLAPS. Paths below are relative to the repository; `queues.py`, `rpc.py`,
`config_storage.py`, `db.py`, `models.py`, `utils.py` and
`scripts/queue_management.py` are in `src/ucsschool_id_connector/`,
`listener_objects.py`, `distribution_*.py` and `kelvin_*.py` in
`src/plugins/plugins/`, the other plugin code in
`src/plugins/packages/ucsschool_id_connector_defaults/`. The implementation is
Python throughout; the only JavaScript in the repository is the third-party bundle
that renders the API documentation (`static/redoc.standalone-*.js`), which is no
part of this project.

## The system

One service process (`scripts/queue_management.py`) runs asyncio tasks: one for
the in queue, one per active school authority for its out queue, and an RPC
server. A second process, the HTTP API, sends requests to the RPC server. All
state that survives is in files on a volume.

| Component | State | Operations | Interacts with |
|---|---|---|---|
| Listener and converter (outside the repository) | LDAP | write one JSON file per change | in queue's directory |
| In queue (`queues.py`, `listener_objects.py`) | listener files, old_data DB | preprocess, distribute | LDAP, out queues' directories |
| Distribution plugins (`distribution_*.py`) | none | which authorities get an object | mapping, list of out queues |
| Out queue (`queues.py`) | directory and trash of each authority, task | scan, handle | target system, RPC server |
| Output plugins (`*_handler_base.py`, `*_kelvin.py`) | handler per authority, caches of roles, schools and mapping | create, modify, remove on the target | target system (Kelvin REST API), LDAP |
| RPC server (`rpc.py`) | list of out queues | create, patch, delete an authority, replace the mapping, queries | all tasks, configuration storage |
| Configuration storage (`config_storage.py`) | one file per authority, mapping file | load, save, delete | volume |
| Service (`scripts/queue_management.py`) | tasks | start, SIGTERM | all |
| HTTP API (`http_api.py`, `token_auth.py`) | none | translate requests | RPC server, 5 s timeout |
| Schedulers (`*_scheduler.py`) | none | write listener files for a user, a group, a school | LDAP, converter |
| Old data DB (`db.py`) | last schools/UIDs (users) or members (groups) by entryUUID | get, set, touch | in queue |

What is hard in it:

* **Kills.** The app container is stopped for every update. A listener file goes
  through a DB update, an LDAP query, a truncating save, a rename, several
  copies and an unlink; a kill can fall between any two of them.
* **Order.** Correctness on the target depends on the order of changes, but the
  in queue reads its directory twice per pass, the out queue re-sorts by object
  type, and tasks are stopped and restarted.
* **Interleaving.** Every `await` lets another task run: requests change the
  list of out queues while a distribution uses a copy of it and while scans
  run.
* **Failure of one step of several.** Exceptions end tasks that nobody starts
  again, or are swallowed together with the file they are about.
* **Stale state.** Handlers, mapping, roles and schools are cached per process.

What makes the components correct: the in queue loses no change, keeps the order,
hands a file to each queue once and tells the authorities of the old schools;
the out queue sends in order and drops nothing unnoticed; the target ends up with one account
per user and with the classes as the source has them, and keeps what the school
there manages itself; a configuration that a client was
told of is in force, on disk, and served by exactly one running scan.

## Modules

| Module | Models | Extends |
|---|---|---|
| `HandOver` | the interface between in queue and out queues, as both promise it (abstract) | – |
| `Replication` | what an output plugin promises to the scan that calls it (abstract) | – |
| `Distribution` | `school_authorities_to_distribute_to` of the three plugins | – |
| `InQueue` | `InQueue`, the preprocessing hooks, service start and kill | `Distribution`; implements `HandOver` |
| `OutQueue` | `OutQueue.scan()`, `handle()`, the target | implements `HandOver` |
| `SchoolAuthorities` | HTTP API, RPC server, configuration storage, handler cache, the distribution's view of the queues | – |
| `KelvinUsers` | the user handler of the output plugins and the accounts on the target | implements `Replication` |
| `KelvinClasses` | the school class handler, with and without partial group sync | – |
| `Schedulers` | the commands `schedule_school`, `schedule_user`, `schedule_group` | – |
| `MCInQueue`, `MCOutQueue`, `MCSchoolAuthorities`, `MCKelvinUsers`, `MCKelvinClasses`, `MCSchedulers` | constants for TLC | the module named |
| `InQueueProofs`, `OutQueueProofs`, `SchoolAuthoritiesProofs`, `SchedulersProofs`, `KelvinClassesProofs`, `KelvinUsersQueueProofs` | theorems | the module named, `TLAPS` |
| `KelvinUsersProofs` | theorems about accounts | `KelvinUsersQueueProofs` |
| `ReplicationProofs` | what the promises of `Replication` add up to | `Replication`, `TLAPS` |

Definitions named `...` with a comment "A defect of" are variants of the
definition that follows them. They are not part of any specification: each is a
plausible bug with which TLC finds the property violated that is meant to
exclude it (`mutants` in `PROJECT.json`).

### HandOver

What the parts rely on when they are looked at one by one: `waiting[a]` are the
files in the directory of out queue *a*, `done[a]` those that its scan is through
with and that are not in the directory again. `Hand` gives a file to some queues, to
each only if the queue never had a newer one (`NotOvertaken`): a file that the queue
has already can only be its newest. `Take` removes one. `InQueue` implements it with
`waiting` as its copies, complete or not, and `done` as what was `taken` and is not
there again; `OutQueue` implements it for one queue, with `done` as the files that have
arrived and are not in the directory. The kills and restarted scans of both are
stuttering steps or disappear in the mapping: this is the formal statement that they
cannot be noticed on the other side. What *can* be noticed is the newest file a second
time, after an error in the middle of its copying (`InQueue.CopyFails`,
`OutQueue.ArrivesAgain`).

`KelvinUsers` and `KelvinClasses` take their objects from a sequence, in order. The
repeated newest file needs no action there: it is an object that is handled again
before any newer one, which is what a handler does that was cancelled after the target
had carried its request out (`Cancel` at `pc = "done"`).

### Replication

What an output plugin promises of one object of the source at a time. `reports` are
the reports it has not disposed of, `there[u]` what the target has of *u*, `Right(u, c)`
what is right to have if the source says *c* of *u*, `fate[u]` whether the target is
right but for the reports to come. `CarryOut` changes `there` in one step, and only to
what the oldest report asks for; `Dispose` lets that report go once that is there, or
puts its object on record as missed, which the next report makes up for, or as astray,
which none does. `KelvinUsers` implements it: the search, the get, the dropped links, the
cancelled and repeated handlers are stuttering steps, `Save` and `Delete` are `CarryOut`,
every way in which the handling of an object ends is `Dispose`, and `fate` is read off
the history variable `lost`. So what is right at the end is right *on the way*, too: unless
a user is astray, the target never has a state of the user that mixes two objects of
the queue or that no object asked for. If the target's schools change, all users count as astray.

### InQueue

asyncio switches tasks at awaits only, so an action is the code between two of
them, and the service may be killed between any two actions. A file is the number
*n* of the change it reports (names are time stamps and `queue_files()` sorts by
name); `place[n]` says where it is, `content[n]` which old_data it holds, or that
it is `Truncated` by `open(path, "w")`. An exception that nothing catches ends the
task alone (`TaskRaises`, `pc = "dead"`): the scans go on, the in queue stands still
until the next start of the service.

| Actions | Code |
|---|---|
| `ListenerWrites` | external |
| `Start`, `DistributionDone` | `manage_queues()`: initial `distribute()`, then the tasks |
| `ListRaw`, `PreprocessingDone` | `distribute_loop()` |
| `DiscardInvalid`, `Preprocess`, `LdapAnswers`, `OpenForWriting`, `WriteJSON`, `Rename` | `preprocess_file()` and the hooks of `listener_objects.py` |
| `LdapFails`, `OldDataFails` | an exception of `get_passwords()` or of the old_data DB, raised out of `distribute_loop()` |
| `ReadFails`, `SaveFails` | `OSError` while a file is loaded or saved: caught, the file is discarded (`place[n] = "lost"`) |
| `RenameFails`, `CopyFails` | `OSError` of `rename()`, of `copy2()` or of `unlink()`: in no `try`, the task ends; `CopyFails` after some of the copies, or in the middle of one |
| `ListReady`, `DiscardUnaddressed`, `DistributeFile` | `distribute()` |
| `ScanTakes` | an active out queue's scan removes a copy (refined by `OutQueue`) |
| `Crash`, `CrashWhileCopying` | kill or SIGTERM; during the copies (or by an error of one in the initial distribution, which ends the service), one may be left incomplete |

`shutil.copy2()` and `unlink()` are not awaited, so no other task runs between the
copies; a kill or an error does, hence `CutShort`, which `CrashWhileCopying` and
`CopyFails` share. The variables `taken` and `failed` (the files whose distribution an
error cut short) are history. `place[n] = "trash"` means in the trash or, if
`discard_file()` could not move it, unlinked; the module leaves out that neither
succeeds, after which the file would stay and be discarded again by the next pass.
Abstracted: password hashes (only whether some were found), the case of school
names (the code lower-cases at every look-up), the expiry of a removed object's
old_data after a week, record_uid and source_uid.

### OutQueue

The directory of one authority. `target[o]` is the number of the file that the
target's state of object *o* comes from; `gone` is history: the files unlinked
without a trace.

| Actions | Code |
|---|---|
| `Arrives`, `ArrivesAgain` | `distribute()` copies a file here; a start of the service repeats the newest one after an error of its copying |
| `StartScan`, `Cancel` | `start_task("scan")`; `stop_task()`, SIGTERM or a kill |
| `PingSucceeds`, `List`, `BatchDone` | `scan()`: ping, reading and sorting the directory, the sleep |
| `ListRaises` | a file that cannot be loaded for its sort key: `scan()` ends |
| `HandleStarts`, `HandleSucceeds` | `handle()` and, after its return, the `unlink()` of `scan()` |
| `HandleSkips` | the handlers return and have changed nothing: `NoObject` swallowed (`school_classes_kelvin.py:149-158`, `170-179`), preconditions not met or `MissingData` logged (`output_plugin_handler_base.py:135-136`, `150-152`, `256-258`); `scan()` unlinks the file |
| `HandleRaises`, `DiscardUnlinks` | an exception in `handle()`: the file goes to the trash or, if `discard_file()` cannot move it, is unlinked |
| `UnlinkRaises` | an `OSError` of `unlink()` in `scan()`: the task ends |
| `TargetApplies`, `Outage`, `Recovers` | external: the target |

`TargetApplies` is separate from `HandleSucceeds`, so a task may be cancelled, or an
outage set in, when the target has already done what it was asked for. The branches of
`scan()` for `ServerError`, `APICommunicationError` and other exceptions of `handle()`,
and with them the keep directory, cannot be reached: `handle()` lets no exception
out but a cancellation.
Not modelled: a request of a cancelled handler that takes effect only later.

### SchoolAuthorities

`rpc` is the place in the request being carried out, `req` the request. `conf`,
`task`, `handler` and `queues` are the service's memory, `disk`, `mapFile` and
`outDir` the volume. A configuration is whether it is active and a version of its
plugin_configs. `EvictHandler` is the identity because
`del plugin._per_s_a_handlers[key]` addresses a dictionary that never holds a
handler. Requests that only read and requests refused before they change anything
are stuttering steps.

| Actions | Code |
|---|---|
| `Create`, `Patch`, `Delete`, `PutMapping` | the routes of `http_api.py` and the beginnings of the handlers in `rpc.py`, up to their first await |
| `OpenConfigFile`, `WriteConfigFile` | `save_school_authority()`, `start_out_queue_task()` and the answer |
| `ApplyPatch`, `RefusePatch` | `stop_task()`, `recursive_dict_update()` and validation |
| `DeleteQueue`, `UnlinkConfigFile` | `delete_queue()`, `delete_school_authority()` and the answer |
| `OpenMappingFile`, `WriteMappingFile` | `save_school2target_mapping()` and the answer |
| `SaveFails`, `SaveMappingFails`, `DeleteQueueFails`, `UnlinkFails` | an `OSError` in each of these; all but the last end the request with "Unknown error", the last is only logged and the client is told of a success |
| `GiveUp` | `query_service()`: `RPC_CLIENT_TIMEOUT` has passed |
| `ScanEnds` | the scan ends by itself: a file of the queue cannot be read (`OutQueue.ListRaises`, `UnlinkRaises`) |
| `ScanHandles`, `DistributeStarts`, `DistributeCopies`, `DistributeEnds` | the tasks that run between the awaits |
| `Kill`, `Start` | the service |

The HTTP API opens a socket per request and gives up after 5 s; the request stays
in the socket, or in the RPC server's queue, and is carried out when the server
gets to it, perhaps after a restart and after newer ones. A client can have sent
any request at any time, so a request under way needs no variable: the server may
receive any request (`Receive`), with its client waiting (`here`) or not. History:
`acked` and `ackedMap` are what clients were told, `Unknown` if the client had given
up, the service was killed or the client was told of an error of the disk; `failed[a]`
says what went wrong with *a* since the start or the last request that succeeded, if
anything did: its scan was `stopped`, by a refused PATCH or by itself, or memory and
disk have parted (`unsaved`). `undeleted` are the names of which a client was told that
the configuration is deleted while its file is still there.

### KelvinUsers

One authority's `KelvinPerSAUserDispatcher`. The objects come in order, with the
old_data that the in queue adds, as `InQueue` and `OutQueue` promise; they are
made by `SourceChanges` and `SourceRemoves` from the states a user may have
(`Inputs`). `pc` is the await at which the handler is: the list of schools, the
mapping of attributes, the search, the get, the save or the delete. At each of them
the target may fail (`Fault`: the object goes to the trash, as `OutQueue` has it),
or the scan may be cancelled (`Cancel`: the object is handled again); `pc = "done"`
is the moment after the target carried the request out and before the answer is
seen.

| Actions | Code |
|---|---|
| `Ping` | `school_authority_ping()`: refreshes the list of schools |
| `HandleListenerObject`, `UserHasSchools` | `handle_create_or_update()`, `user_has_schools()`, `handle_has_no_schools()` |
| `Map`, `MapRaises` | `map_attributes()` and the `_handle_attr_*` methods |
| `SearchFinds`, `SearchFindsNone`, `SearchMissesData`, `SearchRaises` | `exists_on_target()`, `search_params()`, `fetch_obj()` |
| `Get`, `GetRaises`, `Save`, `DropLinks`, `SaveRaises`, `Delete` | `do_create()`, `do_modify()`, `save_user_with_retry()`, `do_remove()` |
| `CacheExpires` | `API_SCHOOL_CACHE_TTL` has passed |
| `TargetSchoolsChange`, `AdminDeletes` | external: the target's administrators |

Of the Kelvin API the model assumes that a username is unique, that links to
users who do not exist are refused, that attributes which are not sent stay, that an account created without a
source_uid is given `TargetSource` (the target's own default, or none), and that a get or
a save of something deleted raises. A source_uid or record_uid that is not set is not
sent: the documented mapping names them `ucsschoolSourceUID` and `ucsschoolRecordUID`,
for which there is no `_handle_attr_*` method, and `_handle_none_value()` skips them. `lost[u]` is history: `"last"`
after a failure that the user's next change repairs, `"identity"` after one that
none repairs (record_uid, source_uid or the move to or from the target was lost).
A removal that the handler refuses by itself is not counted: `Converges` and
`UnsetSourceUidIsFound` would show it. Schools are numbers in alphanumerical
order, and a school exists only on the target of the authority it is mapped to.
The attributes kept are those that decide where an account is, whose it is and
which mapping applies.

### KelvinClasses

The handler of school classes; `partial` says which of the two plugins is
configured. Users are pupils, teachers (a role of `school_classes_ignore_roles`)
and strangers, whom only the target knows. The handler looks up the members in
LDAP (`LookUpMembers`), reads the class (`GetRemoteUsernames`), looks up its
members (`HandleAttrUsers`, `BindRefused`), searches the class, gets it again and
saves it, while users are removed from LDAP, their accounts are deleted, and the
school changes the class. `lost` holds the classes whose last object failed
through no fault of the handler. Classes keep their names and schools; the list of
schools on the target does not change.

### Schedulers

`schedule_school` searches the users of a school, writes a file for each with at
most `NumTasks` tasks at a time, and then does the same with the groups. `st[o]` is
where the task of *o* is, `free` the semaphore, `file[o]` what it has written.

| Actions | Code |
|---|---|
| `QueueUsers`, `QueueGroups`, `SearchRaises`, `Done` | `queue_school()` and its searches |
| `QueueOne` | `schedule_user`, `schedule_group` |
| `Acquire` | `async with sem` in `limited_func()` |
| `LookUp`, `Skip`, `BindRefused` | `queue_user()`, `queue_group()`, `LDAPAccess.get_user()`, `get_group()` |
| `OpenFile`, `WriteFile` | `write_listener_file()` |
| `TaskRaises` | any exception of a task, raised by `gather()` |
| `CancelTasks` | the end of `asyncio.run()`; what a thread of aiofiles has begun is finished |
| `LdapChanges` | external |

Files are read by the appcenter converter, outside the repository, in the order of
their names, which are the times at which the tasks came to write them (the
time stamp is taken right before the file is opened).

## Runs

| Run | Bounds | Shows |
|---|---|---|
| `inqueue_faults` | 3 files, 1 kill, 2 authorities (one deactivated), any number of LDAP and disk errors | `TypeOK`, `ReadyBeforeRaw`, `HandOverInOrder`, `RedeliveredOnlyAfterError`, `PartialOnlyAfterError`, `UnlinkedOnlyIfCopied`, `CurrentSchoolsServed`, `NoneForgottenWhileUp`, `Drains`, `ImplementsHandOver` hold |
| `inqueue_forgotten` | 2 files, 1 kill | `NoAuthorityForgotten` is violated |
| `inqueue_partialsync` | 2 files, authorities with `kelvin-partial-group-sync` | `CurrentSchoolsServed` is violated |
| `outqueue_faults` | 3 files of 2 users and a group, 2 cancellations, 1 outage, rejections, changes left undone, corrupt files, disk errors, the newest file handed over again | `TypeOK`, `FilesAccountedFor`, `HandledInOrder`, `TargetNeverGoesBack`, `Drains`, `ImplementsHandOver` hold |
| `outqueue_outage` | 2 files, 1 outage | `UnreachableIsRetried` is violated |
| `authorities_faults` | 2 authorities, all PATCH documents, 2 mappings, 1 kill, 1 disk error or scan that ends by itself, clients that give up | `TypeOK`, `AcknowledgedConfigStays`, `RestartKeepsConfig`, `ScannedUnlessFailed`, `ScansOnlyForActive`, `ListedHaveDirectories` hold |
| `authorities_unscanned` | 1 authority, all PATCH documents | `ActiveIsScanned` is violated |
| `authorities_handler` | 1 authority, 2 versions | `HandlersAreCurrent` is violated |
| `users_faults` | 2 linked users, 4 changes, 1 failure, 1 cancellation, 1 change of the target's schools | `TypeOK`, `Converges`, `OneAccountPerUser`, `OnlyOwnAccounts`, `ImplementsReplication` hold |
| `users_sourceless` | 1 user without source_uid, 2 changes | `UnsetSourceUidIsFound` is violated |
| `classes_faults` | 2 classes, 3 users, 3 changes, 3 changes on the target, 1 failure, 1 cancellation, both plugins | `TypeOK`, `ClassConverges`, `LocalMembersStay` hold |
| `schedulers_faults` | 3 users, 2 groups, 2 tasks at a time, 2 changes of LDAP, 2 errors | `TypeOK`, `UsersBeforeGroups`, `DoneMeansScheduled`, `CommandEnds` hold |

Why the bounds are enough: the order and hand-over properties relate two files,
and a third lets one arrive during a pass over the others; `NoneForgottenWhileUp`
relates two changes of a user, and a third lets the user leave one authority, join
another and be removed. One kill is enough for the in queue: a start reads the files
and the old_data DB only, and its own initial distribution and first pass meet what the
kill has left; the proofs are for any number. An error that ends the task may come
before the kill, at any point. Two
authorities let one get a copy and another not; two users and a group are all the
relations (same object, same type, other type) that the order of an out queue
tells apart. In `authorities_faults` one kill and one disk error meet at every
point of every request, in either order; the second authority is needed for a
distribution that goes on while the first one is deleted (the plugin
distributes only if some configuration is active), and since the authorities
differ in nothing but their names they are symmetric. In `schedulers_faults` three users
and two tasks let one wait for the semaphore while others run, fail or are
skipped. In `users_faults` four changes let one user be created, change name
and record_uid, and the other be given what the first had, with one change to
spare before or after a failure; the account of a stranger has the record_uid of
one of them and another source_uid. In `classes_faults` a pupil, a teacher and a
stranger are all that the partial group sync tells apart, the second class is one
whose school the target does not have, and three changes allow a class to be
created, a member to disappear from LDAP, and the class to change again; three
changes on the target let an account disappear and come back while the school edits
the class.

Deadlock is not checked where the system may stop: an error of LDAP, of the old_data
DB or of a copy ends the in queue task, an unreadable file the scan, an unreadable
configuration keeps the service from starting, the handlers rest when there is no
change left to handle, and a command ends.

Fairness: `WF(TaskStep)` because the event loop runs every task that is ready and
all awaited calls (files, LDAP, HTTP) return or raise; `WF(Start)` because the
container is started again; `WF(ScanStep)` and `WF(Recovers)` in `OutQueue` because the
event loop runs a scan that was started and an outage ends; `WF(Command)` in `Schedulers`
because the event loop runs the tasks of the command. `StartScan` is not fair: a refused
PATCH leaves the scan stopped (`authorities_unscanned`), so `Drains` of the out queue
speaks of a scan that runs. Errors, kills and outages are never fair. `Drains` of the out
queue also needs that files cease to arrive, which the bound `MaxFiles` makes them do:
`scan()` reads the directory again after every type and takes users first, so a steady
stream of users keeps the groups waiting.

### Findings

* `inqueue_forgotten`: the old_data entry is replaced before the file that
  needs the previous one is safe (`listener_objects.py:173`).
* `inqueue_partialsync`: users are distributed only if an active configuration
  uses the plugin `kelvin` (`distribution_user.py:72`), so the documented
  replacement by `kelvin-partial-group-sync` loses them.
* `outqueue_outage`: `handle()` swallows communication errors (`queues.py:574`);
  the retry in `scan()` is never reached.
* `authorities_unscanned`: a PATCH that fails leaves an active queue without its
  scan (`rpc.py:277`); every document without plugin_configs fails.
* `authorities_handler`: a changed configuration does not reach the handlers
  (`rpc.py:285`).
* `users_sourceless`: `search_params()` raises `KeyError` when a user without
  source_uid is to be removed (`user_handler_base.py:215`), where the comment two lines
  above says that the default is taken, so the account stays. The trace: a user without
  source_uid is created, no source_uid is sent and the target gives the account its own
  default, the user is removed, the search for the account raises.

`NoAuthorityForgotten` and `ActiveIsScanned` are violated in these runs;
`NoneForgottenWhileUp` and `ScannedUnlessFailed` say how far they hold.

More observations of the models that no document of the repository speaks
about plainly. A kill during a save leaves an empty listener file (the change is
discarded) or configuration file (the service does not start). A distribution
that overlaps the deletion of an authority leaves a regular file of the name of
the queue's directory, after which the authority cannot be created again. With a
stale list of schools a user who moved to a new school of the same target is
deleted there until the next change. If a change of record_uid goes to the trash,
the next change creates a second account, or fails because the name is taken. A
user of whom both a guardian and a ward are missing is not saved at all, since
`save_user_with_retry()` tries again for one of the two lists only. A change that
the school makes to a class between the handler's read and its save is
overwritten. If LDAP refuses the connector's bind, `get_user()` answers as if the
user did not exist, and pupils who left a class stay in it; `schedule_school` then
says "Done." without having scheduled the users. When it fails instead, it may leave
empty files for the converter. An error of `copy2()` in `distribute()` (a full disk, say)
ends the in queue task while the scans go on; a queue that had its copy before is given
the file again by the next start, and one may be left a part of the file, which ends its
scan. Files whose change a handler leaves undone, because `NoObject` is swallowed, data
are missing or a precondition is not met, are unlinked like those that were carried out
and do not go to the trash. A scan that ends by itself is not started again, and the
configuration stays active. A request to create or change a configuration whose
save fails is answered with an error, yet the configuration is in force until the
next start. An error of `unlink()` while a configuration is deleted is only logged:
the client is told of a success and the configuration is back after a restart. A
request whose client has given up may still take effect, after newer ones.

## Proofs

The proofs hold for every value of the constants: any number of files, kills,
errors, users, groups, schools, authorities and tasks, any mapping and any
configurations. They use the assumptions named in the modules only: types of the
constants, distinctness of the sentinels, users and groups are disjoint in
`Distribution` and `OutQueue` and disjoint and finite in `Schedulers`, no authority
is called "mapping" (`SchoolAuthorities` keeps the failures of the mapping under that
name), schools are numbers, a user's primary school is one of the user's schools, and
the accounts that the connector did not create have a source_uid that is not used in
the source. The theorems on present schools and on accounts have a hypothesis each,
`AllServed` and `Identified`, which the instances of the passing runs satisfy.
`Replication` leaves open what is right; its theorem has the hypothesis that it is right
for the target to have nothing of an object that the source does not have.
`theorems` in `PROJECT.json` says which property of which run each theorem states.

**In queue.** No invariant is inductive by itself. `IndInv` adds:
files are written in order and absent otherwise (`FilesWritten`); during
preprocessing every file of the pass is raw and older than the raw files outside
of it (`PassInOrder`), which gives `ReadyBeforeRaw`; during distribution the list
is exactly the ready files (`ListIsReady`); what an out queue has ever received is
no newer than whatever is still raw or ready (`ReceivedInOrder`), and was preprocessed
(`CopiesPlaced`); copies of a file that is still ready were left behind by a distribution
that a kill, before the scans run again, or an error, with the task dead, cut short
(`LeftBehind`), which makes the repeated copies the *same* ones; incomplete copies belong
to ready files or to files that could not be read any more (`PartialIsReady`); a taken
file is gone from the in queue unless an error cut its distribution short
(`TakenIsDone`). `HandOverInOrder`, `RedeliveredOnlyAfterError` and
`PartialOnlyAfterError` follow from these.

What the distribution decides is in a second invariant, `TellInv`, on top of this
one. A file that has left the in queue was handed to all its addressees; those of a
file are computed from the old_data it holds, and as long as there was no kill the
old_data of a user's file name the schools of the user's last file before it, in the
DB or in the file itself, wherever the preprocessing stands. So an authority that was
told of a user is told again when the user leaves (`NoneForgottenWhileUp`).
`CurrentSchoolsServed` needs no history but a hypothesis: `AllServed` says that some
active configuration uses the plugin `kelvin` and that every configuration uses one of
the two plugins. `inqueue_partialsync` shows that it fails without.

**Out queue.** `IndInv` adds: queued files have arrived (`FilesArrived`); the
batch and the file in hand are in the directory (`InHandIsQueued`); every queued
file older than the file in hand or the batch is one it may overtake
(`OldestFirst`); the target has nothing newer than the file in hand for its object
(`NotYetApplied`, `AppliedIsCurrent`). `TargetNeverGoesBack` then holds although
a cancelled file, and the newest file handed over again, is handled a second time.
`FilesAccountedFor` is inductive with these: every step that takes a file out of the
directory either knows that the target has it or puts it into `trash` or `gone`.

**Refinement of HandOver.** `RefinesHandOver` in both modules proves `Spec => ImplementsHandOver`
from the same `IndInv`. For the in queue, `DistributeFile`, `CrashWhileCopying` and
`CopyFails` are `Hand` steps to those queues that have no copy in their directory; that
they never had a newer file is `ReceivedInOrder`, that nothing else changes follows
because a repeated copy overwrites one of the same number. `ScanTakes` is `Take`, all
other steps leave the mapped variables alone. For the out queue, `Arrives` and `ArrivesAgain` are
`Hand`; `HandleSucceeds`, `HandleSkips`, `HandleRaises` and `DiscardUnlinks` are `Take` of
a file that `InHandIsQueued` puts into the directory.

**School authorities.** What clients are promised holds between two requests;
`Inv` adds what holds inside of one. `InProgress` says what each place in a request
implies: the kind of the request, whether its queue is listed, and that its scan is
stopped while the configuration is saved or removed. `ListedIsConfigured` says that
a configuration without a listed queue is one being deleted. `MemoryIsOnDisk` and
`ToldIsKept` are the two promises for every name that the current request leaves
`Untouched`: any name it is not about, and its own as long as a PATCH may still be
refused, since a refused PATCH has changed nothing but the task. The steps that
matter are those that reply: with memory and disk equal, with nothing changed, or
with the failure on record in `failed` and `acked`; a deletion whose `unlink()`
failed is on record in `failed` and `undeleted`, and `ToldIsKept` says of such a name
that it is gone, or is again what the file has. A kill forgets what the request
had done in memory, and `Start` makes memory equal to the disk for all names.

**Schedulers.** `SemaphoreCounts`: the semaphore's value and the number of tasks
inside add up to `NumTasks`, without which its type is not inductive.
`TasksOfFound` and `FileOfTask` relate a task to the search and to its file,
`NoneFailed` says that a command that goes on has no failed task, and
`GroupsAfterUsers` strengthens `UsersBeforeGroups` from files to tasks.

**School classes.** `ClassConverges` is about classes without a change in the queue.
`IndInv` adds that the last change of a class in the queue says what the source says
(`LastIsCurrent`); what the handler knows at each step (`WhereItIs`); that its request
names the object's pupils and, of the others, those it has read
(`UsersAreTheMembers`, `LocalMembersInHand`); and that what it has read is outdated
only if that is counted in `lost` (`MembersHaveAccounts`, `GoneIsLost`). `LocalMembers`
follows from `LocalMembersInHand`.

**Users.** The proof has three layers.

* `HandInv` (`KelvinUsersQueueProofs`): the handler works on the head of the queue or
  on the object to remove the user that it made of it, its request says what the object
  says, minus the links it has dropped, and the cached list of schools is not outdated
  unless the target's schools have changed. It holds for all inputs and gives `TypeOK`.
* `QueueInv`: since every object carries the old_data of the one before, the queue
  tells who a user was at each of its positions (`Holds`). After an object its user is
  what the object says (`Chain`), the last object says what the source says
  (`LastIsPresent`), and an identity which an object names belongs to nobody else *at
  its position* (`QueueUnique`), although the source may have given it to somebody
  else since.
* `AccountInv` (`KelvinUsersProofs`): while no change of a user's identity is lost, an
  account of the user has the identity from before the head of the queue (`Before`) or,
  if the handler has saved it already and was cancelled or failed then, the one after it
  (`After`). By `QueueUnique` the search therefore finds accounts of the object's own
  user only (`FoundIsOwn`), and misses one only if it has the new identity already
  (`UnfoundIsNew`); `OneAccount` and `OwnAccounts` follow. `ImageInv` adds what such
  accounts say: one with the new identity has the new attributes too, so that a save
  refused because its name is taken by the user's own account has lost nothing. This
  gives `Convergence`.

**Refinement of Replication.** `RefinesReplication` proves `Identified => (Spec =>
ImplementsReplication)` from the same invariants. Two lemmas say what the handler's
steps do to accounts: `WorkFacts` for those that carry an object out (only accounts
that the search found, and those of the object's user, change, and in one step to the
image of the object), `EndFacts` for the seven ways in which an object leaves the queue
(its image is there, or the loss is on record in `lost`). `EndDisposes` and
`WorkCarriesOut` turn these into `Dispose` and `CarryOut`; `OthersStay` shows that the
accounts of others stay, by `FoundIsOwn`; `SourceReports` that a change is reported
unless it makes no difference on this target; `ReportsAppended` and `ReportsMovedUp` are
about the mapped queue. The only invariant to add is that the target's schools are the
first ones until they change (`FirstSchoolsStay`).
`Agree` (`ReplicationProofs`) shows what the promises come to: `Agreement`, by the
invariant that the last report of an object says what the source says or something that
is right for the same accounts (`LastIsSaid`).

The theorems on accounts have the hypothesis `Identified`: users of the source have a
source_uid, and it stays the same for users who may be without a record_uid. Without
the first part the account of a removed user may stay (`users_sourceless`). The second
is needed because `search_params()` decides on record_uid and source_uid one by one: of
a user whose old_data have no record_uid it searches the new record_uid together with
the old source_uid, which may be somebody else's identity.

The attempts to prove these corrected the models in three places, where the history
variables blamed the wrong side: an account that disappears while the handler holds the
members it has read is a loss for the class in hand as well (`AccountMissing`); a search
that finds several accounts because another user's identity was lost before is no fault
of the object's own (`SearchRaises`); and a second refusal of links is excused whenever
some were dropped, since the administrator of the target may delete a linked account
between the two requests (`SaveRaises`).

Only model-checked: the liveness properties `Drains` and `CommandEnds` (fairness is out
of the prover's reach). All other properties of the passing runs are stated by a theorem.

## Not modelled

LDAP queries as such, tokens, the HTTP client, the plugin loader, the trash
cleaner, logging and the installation scripts: they keep no state that another
part reads, or are calls of a library; `PROJECT.json` gives the reason for each. Of
the output plugins: roles that the target does not know, the conversion of dates,
renamed classes, an attribute mapping other than the documented one, and a mapping that changes under handlers which have read it
before. Requests of a cancelled handler that take effect on the target only after
newer ones are left out: nothing in the code could prevent or notice that.
Bitwise details of password hashes and the JSON layout are abstracted.

## Plan

Done: the in queue, the distribution, the out queue, the school authorities with
HTTP API and disk errors, the output plugins and the schedulers, with their runs;
the interface of the queues as an abstract specification that both implement, and the
one of the output plugins, which the user handler implements; proofs of these
refinements and of all the safety properties of the passing runs. Next, in this order:

1. The handlers' copy of the mapping next to the one of the distribution, and
   renamed classes.
2. `Replication` for `KelvinClasses`: what is right for a class depends on the members
   that the target's school keeps itself, so `Right` needs the target's state.
