# Verification of the v200 IP camera firmware

TLA+ models of the concurrent core of the camera firmware in `src/`, TLC
configurations that check them on small instances, and proofs for every value
of the constants. The program is about 46,000 lines of C++ in one process of
many threads; it has neither tests nor design documents, so the comments
in the code (in Chinese) are the only statement of what it is meant to do.

## The system

| component | state it keeps | operations | talks to |
|---|---|---|---|
| frame pool (`encode/BufferManage.cpp`) | per stream: a ring of bytes, a ring of frame descriptors, a list of I frames, the write position and lap; per reader: a cursor (index and lap) | put a video or audio frame, get the next frame, reposition a cursor to an I frame | encoder and audio threads write; recorder (user 0), sessions (users 1..) and rtsp read |
| frame pool access (`encode/EncodeManage.cpp`) | the pools of three streams; the talk channel's decoder | `GetSendNetFrame`, `ResetUserData2IFrame`, `StartAudioDecode`, `StopAudioDecode` | pools, audio device |
| tcp server (`zmdnetlib/tcplib/tcpserver.cpp`) | listening socket, list of sessions, one thread and run flag per session | accept, receive loop, idle callback, close callback, blocking send and receive | sessions, by callbacks |
| sessions (`zmdnetlib/zmdnetlib/netuser.cpp`, `netserver.cpp`) | table of 12 user objects, talk owner, update flag | live video, playback, talk, update, parameters, time-out, close | pools, media ids, recorder, update, audio |
| media ids (`zmdnetlib/zmdnetlib/mediamgr.cpp`) | which reader cursors are taken, per stream type and for playback | take, free | sessions |
| record control (`record/RecordManage.cpp`) | command, status, kind, delays, start time, error flag, quit flags | control thread: start, change kind, follow time jumps, end; data thread: open, write, pause, resume, close; start and stop of both | pools, files, alarm links, system functions |
| record files (`record/RecordManage.cpp`) | directory per day, file, index and event list per hour | create, append, close, delete the oldest, repair after a crash, find | record control, playback |
| remote update (`zmdnetlib/zmdnetlib/remoteupdate.c`, `upgrade/`) | update flag, download command, status and progress, the image's file | start, pause, resume, cancel, write to flash | sessions |
| tcp client (`zmdnetlib/tcplib/tcpclient.cpp`) | one object and thread per outgoing connection | connect, send, receive, terminate | nothing: it has no caller |
| audio (`encode/Audio.cpp`) | capture and decode channels, speaker owner, file player | start, stop, play a file | talk channel, pools |
| motion detection (`encode/Video_MD.cpp`) | detection regions, 120 s hold of an alarm | detect; set and clear the recorder's alarm link | record control |
| system functions (`ModuleFuncInterface.cpp`, `main.cpp`) | device switch state | `DeviceSwtich`, clear disk, wrappers | record control, encoder; feeds the watchdog |

The rest (encoder set-up, parameters, discovery, UPnP, DDNS, PTZ, Wi-Fi, LEDs)
configures hardware, or asks outside services. `PROJECT.json` lists each with
the reason it is not modelled, and all hazards with the line where each bites.

What is hard here:

* **A ring read without a lock.** `GetOneFrameFromBuffer` returns a pointer into
  the pool and drops the mutex; whether a cursor was overtaken is judged by two
  comparisons that must hold for frames of any length, for laps that end by
  bytes and by the number of descriptors.
* **Reused session objects.** The closing thread goes on writing to its object
  after it has given it back; any exit from a handler may keep a table entry,
  and the tables have 12 and 5 entries for the camera's life.
* **A handshake of plain variables.** Control and data thread of the recorder
  share no lock: a command is stored and the other thread spins until the
  status answers it, with neither time-out nor test of the quit flag.
* **The clock.** It is set under a running recording, forward and backward, and
  what was written for a time to come has to be taken back.
* **Files without a journal.** Header, index and list of a recording are written
  one after the other, a power cut may come between any two, and the repair at
  the next start sees one day only. Searches write into the same lists.
* **Globals without a lock.** A download of an update is steered by three global
  variables, written by its own chain of threads and by every session.

## Modules

| module | models | composes |
|---|---|---|
| `FrameBuffer` | frame pool with its writer, readers and the use of the returned pointer | |
| `FrameStream` | what the pool promises its readers: the abstract specification | |
| `FrameBufferProofs` | proofs about the pool | `FrameBuffer` |
| `FrameStreamProofs` | proof that the pool implements the stream | `FrameBufferProofs`, `FrameStream` |
| `NetSession` | listening thread, session threads, user table, media ids, talk channel, update flag | |
| `NetSessionProofs` | proofs about it | `NetSession` |
| `RecordCtrl` | control and data thread of the recorder, start and stop | |
| `RecordCtrlProofs` | proofs about it | `RecordCtrl` |
| `RecordIndex` | the file of one hour, its index, and how events get into the day's list | |
| `RecordIndexProofs` | proofs about it: types, sizes, seeks | `RecordIndex` |
| `RecordListProofs` | proofs about its list of events | `RecordIndexProofs` |
| `RecordFiles` | directories, files and lists; recorder, cleaner, searches, crash and repair | |
| `RecordFilesProofs` | proofs about it | `RecordFiles` |
| `RemoteUpdate` | download threads, the sessions' update commands, upload, hand-over to flash | |
| `RemoteUpdateProofs` | proofs about it | `RemoteUpdate` |
| `MCFrameBuffer`, `MCNetSession`, `MCRecordCtrl`, `MCRecordIndex`, `MCRecordFiles`, `MCRemoteUpdate` | the instances TLC checks | the above |

Names of variables and actions are the source's where it has one. A definition
marked `fault:` is not part of a specification: it is a wrong variant of the
definition after it, kept to show that a property notices the difference.

The three modules of the recorder divide its work: `RecordCtrl` shows that control
and data thread are never in the files at once, and `RecordIndex` and
`RecordFiles` rest on that: there the recorder is one actor, its opening, closing
and redirecting one step up to the listing of events, which a search may meet.

### FrameBuffer

One pool. `BufManageMutex` is held from an operation's first access to its last,
so a put, a get and a reposition are one step each; the caller's use of the
pointer is the time between `GetFrame` and `Release`. Bytes are counted in the
units of eight to which `PutOneVFrameToBuffer` aligns a frame, and `mem` says
which frame was written to each unit last. `FrmList`, `CurFrmIndex`, `TotalFrm`,
`ICurIndex`, `circlenum`, `writepos` are the fields of the pool; `ReadFrmIndex`
(an unsigned short: `IndexMod`) and `ReadCircleNum` are a reader's cursor. Video
and audio puts differ in the I frame bookkeeping only. `lap` and `seq` of a
descriptor, `published` and `last` are history.
A reader's slot index may exceed the list in the code; `Entry` then is unrelated
memory, read as a blank slot. `StartGetFrame`, `CalculateReadIndexByTime` and
`PutOneBinaryDataToBuffer` have no caller that is compiled in and are left out.

`FrameStream` is the promise: a broadcast in order that loses old frames and
never a new one. A reader is given the next frame, or a later one if the next is
kept no more; it begins anew at any kept frame when it was overtaken or moved.
`FrameBuffer` instantiates it with `Kept`, the frames whose descriptor and bytes
are both there, and `IsStream` says that it implements it. The one leniency is
`Stray`, a reader that begins anew may be handed what is no frame: that is the
finding of `MCFrameBufferGet`.

### NetSession

A connection's thread runs from `Accept` to `ResetUser`. A lock covers one table
access and never a handler, so a handler is cut where another thread can see a
difference: a start request takes a cursor, then answers; a talk takes the
channel, then starts the decoder; `CNetUser::onClose` is five steps, three of
them after `freeWorkSession`. The session's run flag is folded into `pc`: where
the code clears it, the loop's next test ends the session. A request is refused
at any time where the code compares `m_nUserCount`, which is changed without a
lock. Failures of the amplifier's GPIO call and of thread creation are left
out, as are the parameter commands and the alarm nodes to an NVR. Handlers of a
remote (downloaded) update are in `RemoteUpdate`.

Nothing stops a client from asking for a stream on a connection that has one.
`onRequestVideoLiving` has such second starts: an accepted one overwrites
`m_mediaSid`, and the old id is in use until the next boot (`astray`); a refused one
has set `m_ChannelType` already, so that the close frees the old id under another
type (`mixed`). `CursorReserved` and `NothingLeaks` except these, by name, and no
more. A packet with the P2P head (`onP2P`) has the idle callback renew the session's
own time from then on (`KeptAlive`), so its time-out never fires; `LostClientIsDropped`
excepts that session while it streams nothing.

### RecordCtrl

One channel, as `MAX_VIDEO_CHANNEL` says. A step of the data thread is one `if`
of its loop, because each `if` reads the command anew, or one file operation; a
step of the control thread is one decision of `CheckRecordTask`. Each wait
`while(m_uRecordStatus != ...) usleep` is a state of its own (`Waits`), and
`CtrlWaits` is one round of it. Files are open (by the hour they are named for)
or closed; an open that fails leaves `file` at `NoFile` and the status at "ING",
as the code does, and the next write may kill the process (`Crash`).
`CheckTimeValid` is always true and `m_uHddOverWrite` always 1 in the code, so
there is no untimed recording and no full disk. Of the alarm kinds only "MD" has
a caller that sets its link. That the motion link stays up for 120 s is left
out: the model lets it fall at any time. The clock
is a time since some midnight. A file is named by its date and hour (`Hour`); the
control thread compares the numbers of `GetRecordHour`, which take a month for 30
days, so the 31st and the next 1st have one number: `DayNumber` is a parameter that
need not be injective. `m_RecStartTime` and the tests against it have the time of
day only, as in the code. Control thread and data thread both idle until the clock
was set once; a behaviour starts there. `DeviceSwtich` is the one caller of start and stop.

### RecordIndex

One hour's 264 file, index and the list of its day. An I frame stands for the
frames up to the next, and such a group is one unit of the file, so `video[p]` is
the time of the group at `p` and an offset is a position. `m_offset` is where the
recorder takes the write position to be; that it is not always there is what
`SeekFinds` and the sizes are about. `Parse` is `ParserEvenFromIframeIndex`, with
the mending of entries around midnight, and it is one step: it works on what the
index is when it is read. `AddScan` and `AddWrite` are the two halves of
`AddOneEven2List`: the list is read to its end, and later written there. Writers
of the list are the recorder, a search of a day that is being recorded, and the
repair. The constants 5, 8 and 20 (entries, seconds) are parameters.

`spoilt` notes what went wrong in a behaviour, and each property says which of it
voids it: `jumped` the clock was set, `stale` it was set while a search
was still listing what it had read before, `mended` an entry's time was
rewritten, `lost` a crash took data, `met` two writers were listing at once,
`raced` one overwrote the other's item, `unlisted` a crash cut a listing short.
Closing or repairing the file lists everything anew and heals the last two.

### RecordFiles

Days of `DayHours` hours, a file for each hour, named by its number since the
first. A list has items that name a file and an event of it; that an event is put
in once is `RecordIndex`'s matter, here `Enlist` puts in one that is not there.
`m_bNonStop` are the files whose header says they are being written. An open fails
in four ways: no directory, no file, no index, or no list, and with the last one
recording goes on and the list is made with the first event. (A list whose header
was written in part only is left out.) The clock is right at each start and never
goes back here; what a clock that was set does is in the other two modules. The cleaner
is `DelOldRecord` cut at every file operation: it picks the oldest directory by
`getYearMonthDay`, whose ties at the end of a month are the parameter `Order`,
reads its list, unlinks files, marks their items, and unlinks the directory's
entries when the list is at its end. A search is a series of answers of `Batch`
items from `m_s32IdxOffset`, the one cursor of all sessions. A crash stops all
actors where they are; `StartRecordSystem` repairs the open files of the clock's
day and then starts the threads. The disk is the number of files (`Capacity`).

### RemoteUpdate

The image is `Pieces` pieces and `file` the pieces in `UPDATEFILE`, the server's
`1..Pieces` and a client's numbered above. A download thread goes through
`ru_do_start_update` or `ru_do_resume_update` one read or write of a global at a
time; one that fails looks at `g_download_cmd` and leaves, pauses, or starts its
successor (`Retry`). Handlers that test and then set (`IsUpdating`, the cancel) are
two steps. `sent` is the message `CMD_UPGRADE`; after `Flash` the program is
over. A save may fail wherever there is one, before or after its piece is counted,
and leave nothing or a part of it in the file.

`spoilt` notes what came between a download and its file: `overlap`, two, download,
upload or flash, were at the file at one time; `unsaved`, a save failed; `short`, the
answer to a resumed request was shorter than the buffer; `uploaded`. `told` is the
history of a stop: a pause or a cancel was granted (`yes`), or was granted when the
thread looks no more (`late`: between its test at line 550 and the START it sets
itself at 389, or after its last test at 460), or a client has had the download go
on since (`no`).

## Runs

| run | question | result |
|---|---|---|
| `MCFrameBuffer` | Do laps, cursors and pointers stay consistent for every sequence of frame lengths, is the pool a stream, and do readers catch up? | holds |
| `MCFrameBufferGet` | Does a successful get return the frame it describes? | violated: a cursor that was overtaken is set ahead of the writer |
| `MCNetSession` | Are tables exclusive and exact, does nothing leak, are lost clients dropped? | holds, but for objects handed on too early (`overtaken`), ids a second start forgets (`astray`), and idle P2P sessions |
| `MCNetSessionAccept` | May an accepted object be used without a lock? | violated: the previous session's thread resets it |
| `MCRecordCtrl` | Does the handshake exclude, end, and keep the recording going in the file of its hour, and does an error end it? | holds; the hour is `GetRecordHour`'s number, which the 31st and the 1st share |
| `MCRecordCtrlStop` | Does stopping the recorder return? | violated: the data thread is told to quit first |
| `MCRecordIndex` | Is what was recorded listed, once, and found by a seek, around midnight, through set clocks, crashes and searches? | holds, with the exceptions each property names |
| `MCRecordIndexSize` | Is no listed event longer than its file? | violated once the clock was set back |
| `MCRecordFiles` | Do lists match files, does deletion go by age, is a crash mended, are searches complete, is space freed? | holds |
| `MCRecordFilesStays` | Does the cleaner spare the file being recorded? | violated: it goes with its directory |
| `MCRemoteUpdate` | Is what is flashed whole, does the flag have an owner, does a download stop when told and not before? | holds, unless two write the file at one time; of the stops, those that come in time |
| `MCRemoteUpdateCancel` | Is what was cancelled not flashed? | violated: an upload, or the end of a download, does not look |

The properties `NothingLeaks` and `TalkAccounted` are stated for behaviours in
which no object was given out during its predecessor's reset, and
`LostClientIsDropped` for the other objects: that hand-over is the finding of
`MCNetSessionAccept`, and with it every one of them fails.

`StopsWhenTold` says that a pause or cancel that is granted in time ends the download
paused or idle, unless a client has it go on. What the download does to itself is
no excuse: a retry that forgets the command violates it. The two ways a granted stop
is lost in the code are excepted by name, the window before the START of a resumed
download and a start or resume over a download that has not stopped yet (`overlap`);
without either exception the property is violated.

### Bounds

* `MCFrameBuffer`: 4 units, 3 descriptors, frames of 1 and 2 units, 5 puts, two
  readers of which one is the recorder. Laps of 2 large frames end by bytes, laps
  of 3 small ones by the list, and 5 puts are enough for a third lap and for a
  reader to be lapped twice. `MaxPut` is the only bound on a counter. The
  violation about gets needs a GOP shorter than a lap and uses 5 units, 4
  descriptors and 8 puts.
* `MCNetSession`: two clients and two objects, two stream types of one live id
  each and two playback ids, so live ids and objects run out, objects are handed
  on, and second starts are accepted (of the other type) and refused. `Menus`
  are three sets of requests, live streams with P2P packets, everything else, and
  talk with P2P packets: all at once are tens of millions of states. 460,537 states.
* `MCRecordCtrl`: the clock shows 0..4, days of 4 s with hours of 3 s and 1 s, and
  takes any of these values at each tick: ticks, jumps within an hour, over its end
  and back before the file's start. The two days have one number, so a jump between
  their first hours is the 31st and the 1st. 498,997 states. Delay 2, minimum age 1, one alarm kind beside
  the timer. Counters are otherwise bounded by the code.

* `MCRecordIndex`: a day of two hours of 12 s, I frames 0, 1 or 4 s apart, gaps of
  4 s, so both hours touch midnight and every rule for the ends of an hour and for
  a gap applies. `Bounds` are four mixes of at most 4 frames, 2 openings, 2
  searches, one set clock and one crash: enough for two events, for a file that
  is continued, and for two writers at the list. 1,560,000 states; with 4 frames
  and 2 searches in one mix there are 5,660,000 and nothing else is found.
* `MCRecordFiles`: two days of two hours, room for one file, pages of one item, two
  searches. `Bounds` are four mixes of at most 3 openings, 3 events, a failed
  open, a stop, a crash and 2 searches: the cleaner gets to the day that is being
  recorded, and a crash may come in the last hour of a day. The two days have
  different numbers; that days of one number may go in either order is in the theorem.
  391,984 states.
* `MCRemoteUpdate`: images of two pieces, two clients, two threads at one time.
  `Bounds` are five mixes of at most 2 starts, 3 commands, an upload and 2
  losses (of a connection or a save). 311,952 states. A piece that is lost, saved but not counted, or counted
  but not saved needs no more than two pieces.

### Fairness

Threads run when they can: readers poll (`OnTcpIdle` and `WriteRecordFile` are
called in a loop), both recorder threads and the thread that starts and stops
them are scheduled, a session thread goes on in a handler and in `onClose`.
Nothing is assumed of clients, of the network, of the encoder, of the clock or of
the alarm links; the 20 s time-out is fair only for a client that is lost. There
is no strong fairness anywhere. `CatchesUp` is about a writer that `MaxPut` has
stopped: that a reader keeps pace with one that goes on is not claimed. `RecordFiles` has weak fairness for the cleaner, for
the listing of a closed file and for the repair, all parts of threads that run by
themselves, and none for opening, closing or searching. `RemoteUpdate` has it for
each download thread, whose sockets have time-outs, and none for clients.

## Theorems

Proved with TLAPS from the assumptions on the constants in each module
(`PoolAssumption`, `UserAssumption`, `SessionAssumption`, `RecordAssumption`,
`IndexAssumption`, `FilesAssumption`, `UpdateAssumption`) and nothing else, unless named below.

**FrameBufferProofs.** `TypeCorrect`, `LapsBounded`, `ListMatchesBytes`,
`PointerLifetime`, `InStepReads`, for any pool size, list length, set of frame
lengths and number of readers; `MaxPut` is used nowhere. `LapsIntact` is not
inductive: it speaks of listed frames only, and a reader's pointer outlives its
list entry. The invariant `IInv` therefore speaks of single descriptors, listed
or not (`Sound`): a frame of this lap lies below `writepos` and is intact, one of
the lap before is intact or starts below `writepos`, older ones promise nothing.
A put keeps it because it writes from `writepos` upwards and only forgets what it
passes. `KeyBehind` covers `circlenum - 1` in the first lap.

**FrameStreamProofs.** `PoolImplementsStream`: each step of the pool is one of
`FrameStream` or a stutter. The invariant `SInv` adds to `IInv` the number of
every frame that is listed (`Numbered`), that the bytes below `writepos` are the
current lap's (`Fresh`), that descriptors beyond the list's end have lost their
bytes (`Unlisted`), and where a cursor stands when its reader got frame n last
(`ReadersPlaced`): so at the next get it is at n + 1, or what it missed is gone.

**NetSessionProofs.** `OneSession` follows from two facts about the table: a
held object is marked used, and an object's id is its index or was wiped, so a
close can free its own entry or none. `OneReaderPerCursor` needs
the invariant `CursorInv`: cursors in use, that of a closing session included, are
reserved and distinct, but for those a refused second start has `mixed`. `Exactness` and
`TalkExact` are about behaviours with `overtaken = {}`; there every object has one
thread and carries its own id (`Alone`), so a step touches nothing of another
session and what it takes or frees is its own. All hold for any number of
clients, objects, stream types and ids.

**RecordCtrlProofs.** `Handshake` gives for each place of the control thread what
command and status can be; `Busy` gives for each place of the data thread inside
a file operation where the control thread can be. `FilesExclusive` and
`KindStableWhileWriting` are then immediate. `FileHour` adds that the hour a file is
named for has the number of the hour of this tick or the last one. They hold for any
clock, also one that jumps at every tick, and for any numbers of the days: when no
two days share a number the file is the hour's own, when two do it may be the
other day's.

**RecordIndexProofs.** `SizesFit` and `SeeksItsFrame` follow from `PInv`, which
says where things are: the recorder is at the end of both files and knows it
(`AtTheEnd`), offsets do not decrease and none is beyond `Highest`, what a crash
leaves of the file, the same for the events on their way to the list and in it
(`OffsetsKnown`), and an entry has the time of the group it points to
(`EntriesPoint`). All three stop at the first time the clock is set, which the
violation below shows to be needed. `Highest` is the reason a crash does no harm:
what it takes is what no entry has counted. Types need `RecorderIdle`: outside of
a closing the recorder has nothing left to list.

**RecordListProofs.** Three invariants relate the list to the index. The lemmas
below them say what dividing an index gives: the events of one index cover it from
one start to the next (`EventsCover`), no two have the same first entry
(`FirstsUnique`), an end is a frame's time, one shortly after it or the end of
the hour (`EndsOfEvents`), and mending an index a second time changes nothing
(`MendedOnce`).

* `LInv`, for `EveryFrameListed`: what lies in an event is reached by one in the
  list or by one that a writer has still to put in. `Listed` speaks of a file at
  rest, where nobody has anything left; an item is only ever replaced by an event
  that reaches as far.
* `NInv`, for `ListedByNow`: no entry is ahead of the clock, and no event in the
  list or on its way there ends more than `After` behind it. Setting the clock
  deletes what it makes wrong, except what a search has read already (`stale`).
* `OInv`, for `ListedOnce`: an event of a start that is listed is no longer than
  the index makes it by now (`Upheld`), so what a writer is about to put in
  replaces it (`Growing`), and once it has read the list to its end nothing of
  that start is left (`Cleared`). That must survive the mending of times, and one
  entry, the last of the first `MinIFrames`, may be mended twice. `Upheld`
  therefore speaks of entries up to a settled one only (`Settled`), which no
  mending changes (`MendedBeginning`), and of what follows it says no more than
  that time jumps there or another kind begins (`LastsTo`).

They use more of `IndexAssumption` than the other proofs: that a day has more than
one hour, that `After` is neither more than `Gap` nor as much as `Slack`, and that
`MinIFrames` times `After` is less than an hour. In the code these are 24, 5 against 20 and
20, and 25 s against 3600.

**RecordFilesProofs.** `RecorderKnows` says which file is open and which are
listed at each place of the recorder, `CleanerKnows` that the cleaner's day is the
oldest and what it has unlinked, `InTheirDay` that an item names a file of its
day. `DeletesOldestDayFirst` needs that no older directory appears while the
cleaner is at work: the recorder makes one for the clock's day only, and the
clock does not go back. `StartRepairs` and `ClosesIntoList` have an invariant each
(`OpenKnown`, `ListsKnown`): a file is excused when a crash meets it between the
clearing of its header and the last of its items. `SearchFindsAll` needs to know
what a search by pages, which keeps nothing but a position, may have passed over.
`OrderKnown` says that a list is in the order of its hours and that the file being
recorded is the last of its day, so an item is put in behind every cursor that has
not come to the end; `SearchesKnown` says that nothing that was due lies behind
the cursor unless the search has got it or it is `Gone`. An item that is gone stays
gone, because a file of an hour that is over is not made a second time. What one
page answers is in `FullAnswer` and `LastAnswer`.

**RemoteUpdateProofs.** `FlashesIntact` rests on `Once`, while nobody overlaps there is
one that can write the file, and on `FileKnown`, what the file holds once its
check has been passed, up to the flashing. `FlagHasAnOwner` needs
that a cancel that was granted and not yet answered is still under way
(`CancelIsUnderWay`). `PauseKeepsPrefix` follows from `Undisturbed`: at each place of
a download that nothing has spoilt, no failed save, no short answer, no upload and
no second download, the file is the beginning of the image that the count says.

Only model-checked: the liveness properties (`CatchesUp`, `LostClientIsDropped`,
`HandshakeEnds`, `KeepsRecording`, `ErrorEndsRecording`, `SpaceIsFreed`, `StopsWhenTold`,
`RetriesUntilDone`), which need fairness and `ENABLED`. Every other property of a
passing run is a theorem.

## Findings

The six violations are in `PROJECT.json` with the comment each contradicts. The
one with the widest effect is the hand-over of a session object before its reset
(`netuser.cpp:105`, `118`): the new session can neither be answered nor timed out,
and its entry is never freed. The one that answers an open question of the code is
`MCRecordIndexSize`: `RecordManage.cpp:1331` notes sizes that are too large and of
unknown cause; the model gives one, the clock set back.

Other things seen while modelling, which no comment speaks about:

* `ICurIndex` may name a slot that was refilled (`BufferManage.cpp:115`), and the
  recorder, user 0, is refused its reposition (`EncodeManage.cpp:556`): neither a
  session nor a recording is sure to begin with an I frame.
* A second start request on a connection loses the id of the first for good, or,
  when it is refused, makes the close free a cursor of another session's
  (`netuser.cpp:691`); any client's talk-off switches the amplifier off (`895`).
* After one packet with the P2P head the idle callback renews the time it tests
  (`netuser.cpp:203`): such a client that vanishes keeps one of twelve objects. The
  packet itself is never taken out of the receive buffer (`145`).
* A clock set from the 31st to the same hour of the next 1st, or back, is noticed by
  neither test of `GetRecordHour` (`RecordManage.cpp:741`): the recording goes on in the
  file of the other day.
* When the alarm link falls the timer takes the recording over at once, whatever
  is left of the delay (`RecordManage.cpp:711`).
* A recording that ends in the first 20 s of an hour is listed as ended in the hour
  before (2379), and an event that begins in the last seconds of an hour is
  named for the next (2361).
* A search in the last 20 s of an hour lists the growing event as ending with the
  hour (2379); if the event then ends earlier, because the kind changes, the
  shorter one is put in beside it. When the kind changes within one second two
  events have one start, and each new listing puts in the first beside the
  second, until the second replaces both.
* In an index of exactly five entries the last one counts as one of the first too,
  and is mended both ways in turn. A mended time in the first hour of
  a day may lie ahead of the clock.
* `ClearRecordInfor` clears `m_IdxFileName` under a search that is listing (1225);
  `fixNotCloseFile` may use the event count of the file before.
* The loop of `DelOldRecord` that marks the items of a deleted file reads one item
  too many (352, 369), and the outer loop never looks at that one.
* Two start requests, or an upload beside a download, write one file: after the
  check of one the other may empty it, and an empty file is flashed.
* A downloaded image that may not be installed is asked for again for ever; a
  client that is lost in its upload leaves a loop that never ends, and the flag
  set (`netuser.cpp:1267`); the progress loop (3113) does not end on a cancel.
* A resumed download's `g_download_cmd = START` (`remoteupdate.c:389`) undoes a pause or
  a cancel given since its last look at 550. After a failed save (`429`, `668`) or an
  answer shorter than its buffer (`418`) file and count differ, and a resumed download
  goes on from a wrong place, until a check begins it anew.

## Not modelled

* Other callers of `StopRecordSystem` (`SetRecordCtrlThread`, clearing the disk): they
  join threads that were joined, which is undefined.
* `TcpClient`: nothing in the repository creates one.
* The deletion of events by a client, the playback of a file, formatting and
  mounting of the disk.
* Parameters: one block that each change writes whole over the old one, and a
  great many functions that set its fields. There is no journal, copy or
  checksum to check a protocol of; `ReadSystemParameter` copies the block without
  the lock that `SaveSystemParameter` takes, so of two that read, change and save
  the second undoes the first.
* The audio file player on the talk channel; the progress reports of an update.

Encoder, PTZ, Wi-Fi, GPIO and the vendor's media interface are device I/O; the
discovery and address services share no state with the rest; headers and sources
of third parties are left alone.
