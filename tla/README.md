# c-mnalib in TLA+

Specifications, model checks and proofs of [c-mnalib](../src/README.md), a C
library for LTE modems, and of the measurement program built on it. Paths below
are relative to the directory that holds `src/`; `cmnalib/` stands for
`src/src/cmnalib/src/`.

## The system

| Component | State | Operations | Used by |
|---|---|---|---|
| **AT interface, tty** `cmnalib/at/at_interface.c` | handle: file, count of consecutive timeouts, tty settings; the kernel's input queue | `open_tty`, `close_tty`, `command_tty`, `free_response` | the drivers |
| **AT interface, mock** `cmnalib/at/at_interface_mock.c` | the position in a script file | the same four | the drivers, in unit tests |
| **Drivers** `cmnalib/devices/at_sierra_wireless_{em7565,mc7455}.c` | a handle; cached regular expressions; results owned by the caller (EM7565) or allocated for it (MC7455) | one function per AT command: settings, queries, status | examples, unit tests |
| **Token finder** `cmnalib/util/tokenfind.c` | the regex caches of its callers | find one or many integers, floats, strings; split; tables | the drivers |
| **Traffic generator** `cmnalib/traffic/traffic_curl.c` | per transfer: bytes remaining, position and time of the last report | download, download and discard, upload random data | `traffic_test` |
| **Measurement program** `src/src/examples/src/traffic_test.c` | the shared `state`; modem status under a mutex; counters | main thread, status collector thread, SIGINT handler, progress callback | the user |
| **Enumeration** `cmnalib/devices/enumerate.c` | a list of devices, udev's references | enumerate and filter, free | the drivers' `init_first`, examples |
| Conversions, logger, trace, GPS, network interface | none of their own, or a file | pure or I/O | the above |

**Interactions.** `traffic_test`'s main thread opens a modem (enumeration,
driver, AT interface), launches the collector thread, and uploads payloads with
the traffic generator, which calls back `progress_callback` in the main thread.
The callback copies the modem status that the collector publishes under a
mutex. All three — main, collector, and the signal handler, which runs in
either thread — read and write `state`, which is `volatile` and not protected.
Drivers call the AT interface synchronously; there is one command at a time per
handle. While main configures the modem no collector exists, so a handle is
never used by two threads at a time (`SessionInv` in `TrafficTestProofs`).

**What is hard.**

* *Concurrency*: tests of `state` followed by writes; pointers swapped and
  freed by one thread while the other copies from them; a thread that must not
  outlive what it was given; a signal at any moment, also inside `select()`.
* *Failure and recovery*: every step of setting a session up may fail; a
  session may fail at any time; counters must survive recoveries.
* *Ordering*: there are no numbers on the wire. Answers come late, in pieces,
  or together with unsolicited text, and only a flush separates commands.
* *Limits*: buffer boundary, timeouts in a row, size limits of transfers.
* *Ownership*: who releases responses and results on each error path, and what
  a result or list that is used again still has from an earlier call.
* *Partial failure*: each allocation can fail, and the code goes on in a
  different way after each; devices go away between enumeration and opening.

**What makes each component correct.**

* AT interface: the response stays in its buffer; the status tells the truth
  about the response; the response answers the command; every command returns.
* Drivers: an acknowledged setting is in force; a value read is the modem's
  and not an older one, but where a function takes any text for it or needs none;
  whatever is allocated is released or handed over.
* Results: what is in a result tells of this answer; entries of a list are
  freed once; a mask is read from its own column.
* Token finder: automata, tables and strings are sound and released.
* AT interface mock: what it answers is what the file has for the command.
* Enumeration: the list is exact for devices that stay; what is opened is what
  was found; only what is known to leak leaks.
* Traffic generator: bytes moved, bytes remaining, rates reported and the
  result agree; reports come in a fixed protocol; limits are kept.
* Measurement program: memory safety across threads; a session is torn down in
  order; it ends, for a reason; the trace is numbered in order.

The `hazards` in `PROJECT.json` list these at their lines, with the properties
that watch them.

## Modules

| Module | Models |
|---|---|
| `Campaign` | abstract: what the measurement program promises to its user |
| `Transfer` | abstract: the report protocol of one transfer |
| `TrafficTest` | `traffic_test.c`; implements `Campaign`, and its uploads implement `Transfer` |
| `TrafficTestProofs` | theorems about `TrafficTest` |
| `TrafficCurl` | `traffic_curl.c`; implements `Transfer` |
| `TrafficCurlProofs` | theorems about `TrafficCurl` |
| `AtInterface` | abstract: what the AT interface promises to the drivers |
| `AtTty` | `at_interface.c` with modem and kernel; implements `AtInterface` |
| `AtTtyProofs` | theorems about `AtTty` |
| `DeviceDriver` | both drivers over a message-level AT link; implements `AtInterface` at its boundary |
| `DeviceDriverProofs` | theorems about `DeviceDriver` |
| `RegexCache` | compiled patterns in `tokenfind.c` |
| `StringTable` | splitting and tables in `tokenfind.c` |
| `ResultParsing` | status and LTE info read out of a response; composes `RegexCache` and `StringTable` |
| `ResultParsingProofs` | theorems about `ResultParsing` with `RegexCache` and `StringTable` |
| `AtMock` | `at_interface_mock.c`; implements `AtInterface` |
| `ResultLists` | the EM7565's lists of profiles and networks; composed with `AtMock` |
| `MCResultLists` | the files of recorded exchanges for model checking `ResultLists` |
| `ResultListsProofs` | theorems about `AtMock` and `ResultLists` |
| `Discovery` | `enumerate.c`, with init and destroy of the drivers, open and close of the tty |
| `DiscoveryProofs` | theorems about `Discovery` |
| `Least` | a lemma: a non-empty set of naturals has a least element |

`AtTty` and `AtMock` are two implementations of `AtInterface`; `DeviceDriver`
uses it. `ResultParsing` and `ResultLists` begin where `DeviceDriver` ends: it
has every function of the drivers with its results reduced to one value, they
have the contents of the results that a function builds in several steps.

Definitions named like `...Uncounted`, each under a comment `Mutant:`, are
plausible bugs. They take part in no specification; each breaks one property,
which shows that the property depends on the code.

### TrafficTest

`mpc` and `cpc` are control points of `main()` (with `configure_modem`,
`perform_transmissions` and `progress_callback` inlined, since they run in the
same thread) and of `status_collector()`. Every access to `state` is its own
step: the test at line 593 (`CtrlCTest`) and the store at 595 (`Renew`) can be
separated by a handler, and so on. A modem command or a transfer is a control
point at which the thread stays while it lasts; its step is the return. The
three status pointers are published, copied and freed together, so the model
has one *status object* with an address out of `Objects`; addresses are reused
after a free. `live` is the heap of one session. `handlers` holds the threads
that run `int_handler`; such a thread takes no step until the handler's store is
done. Both can run it, since a second signal can hit the other thread before the
first handler has had further ones ignored. What a handler does up to that point
only stops its thread, so that `Sigint` takes it, for one thread or both, in one
step with `signal(SIG_IGN)`.
`eintr` holds the threads whose `select()` the signal interrupted: the command
must return, with success only if its answer had been there. `Faults` says what
may fail by itself: modem commands, the network, or getting a thread. A libcurl
call that yields no handle counts as a network fault. Without a mutex or a thread
for a session main calls `abort()` (`Abort`), without the memory for the thread's
arguments it crashes at the same place, with the same end.

`row` and `completed` are history variables. Left out: sleeping, option
parsing, opening the trace (a failure ends the program before the loop), the
contents of rows.

### AtTty

One action per system call and outcome. A byte is a symbol (`OK`, `ERROR`,
`CME`, `CRLF`, `TEXT`) with the number of the command it answers; `OK` and its
line end are two symbols, so that a read can split them. `Read` takes what is in
the queue up to the room left, then applies the three tests in the code's order
(`Verdict`). The modem answers in order, late or never, and speaks unasked.
`abandoned` is a history variable: an earlier command on which its call gave up
had not been answered completely at the last flush. A failing system call is
possible at any point (`IoFaults`). `write()` may also take less than the command,
which the code does not look at: the modem then gets no command, the call waits in
vain.

### TrafficCurl

libcurl passes chunks of 1 to `MaxChunk` bytes to the callbacks, calls
`xferinfo`, and ends at any time. Both transfers share the stages, since they
differ only in the data callback and the test of the code. `xferinfo` before
the minimal interval changes nothing and is not a step. Times are left out; the
bytes of each report, which the data rate is computed from, are summed up in
`reported`.

### DeviceDriver

Every function of the drivers has the same skeleton, and differs in a few
choices: what it returns without a handle, how it maps a status, whether it
parses after failures, what text it accepts, whether it allocates its result,
whether it releases its response. An operation is a record of these choices —
one definition per C function — and the actions interpret it. Several
functions deviate from their neighbours, and the records keep that: for
instance `em7565_get_gps_autostart_mode` returns success even without a handle,
and `mc7455_get_radio_access_type` does not release its response.

Most queries look for the name of what they asked for. Five do not: any text, or
any in quotation marks, will do (`Credulous`), and some parse it whatever the
status (`Lenient`). `em7565_get_protected_commands` goes further: its first word
may be a result code, whatever is not the password says that protected commands
are disabled, and so does no response at all, since the caller's variable is set
before anything else (`otherwise`, here the value `Disabled`).

The AT link has messages where `AtTty` has bytes, with the same flush, late
answers, timeouts and failures. As in `AtTty` the modem also speaks unasked
between two answers (`SpeakUnasked`): it reports the present value of a quantity
that it changes by itself, or says something that is about no quantity. Each
message has a history `asked` that only the properties look at; without it they
could not tell which texts a function should not have taken. `abandoned` is the history of `AtTty`, and `during` collects the
values that the quantity in question had during the call. Responses always have
memory (`ResultLists` has what happens without).

### RegexCache, StringTable and ResultParsing

`RegexCache` has an action for each way that a pattern gets an automaton (the
cache's, a new one, none) and for each end of its execution. An automaton is an
address, reused after a free, and knows its pattern; matching is the C
library's, so that what is found is chosen. `StringTable` is
`tokenfind_parse_table` with a step between any two allocations, each of which
may fail (`AllocationFails` for those that give the table up, the `...Fails`
actions for those that go on without), `tokenfind_split_string` within a step
since its failures have the same ends, and the release of the table. Memory is a
set of blocks named by their use and place. A text has characters of a word, of a blank or
a line end; `Tokens` is `strtok_r`, and the reference for the whole parser
(`ReferenceTable`) does not use it.

`ResultParsing` runs through the patterns of `get_status` or `get_lteinfo`,
from a command that succeeded on. Fields of a status hold the number of the call that
set them; `since`, `told` and `short` are histories of what the properties
condition on: when a result was allocated, what the section of this call said,
and whether memory was short. A section is in order or arbitrary, and is cut to
the buffer. Floats are found like numbers; the several fields that are found the
same way have one representative. Where the code reads through a NULL pointer or
past a row, the behaviour ends (`crashed`).

### AtMock and ResultLists

A file is a sequence of lines. `Compare` reads one and compares it with the
command, whatever it was; at the end of the file the code compares what the
stack had in the buffer, and the model chooses the outcome. `ReadLine` reads a
line of the answer, `ReadEnd` ends it with the file. A line that ends in a final
word and the final line itself are the same.

`ResultLists` calls the mock through three of the EM7565's functions, in any
order, and frees and renews its lists in between. An entry knows the call that
allocated it and its place, and for each mask the column it was read from. The
count and the pointers of a list are separate, as in the code: cleaning the
profiles sets pointers to NULL and leaves the count, a new search leaves freed
pointers behind its count. `renewed` is a history: the lists that the caller has
freed since the last call, so that a list that a call has emptied is told from one
that the caller has. What writes through NULL, past an array, or where
`strstr()` found nothing ends the behaviour.

### Discovery

`Ports` are device paths; `Plug` and `Unplug` happen at any time, between any
two steps of the library. `Enumerate` scans, `Look` reads the properties of what
is in the port *then* (udev reads the properties of a device at once), `Open` opens what is there *then*. `steady` is a history:
the ports that have not changed since the scan. udev's objects, list entries,
handles and file descriptors are counted. Where the code goes on with a null
pointer, for want of memory or of the name of a device that is gone
(`LookCrashes`, `NoMemoryForHandle`), the behaviour ends.

## Runs

| Run | Configuration | Shows |
|---|---|---|
| `test` | 2 transmissions, 2 faults, 3 addresses, all kinds of faults | memory safety, session order, trace order, both refinements; undisturbed it ends with every payload sent, without a session it ends too, and a session is taken down even on a stalled server |
| `tty` | buffer of 6 symbols, queue of 3, 3 commands, I/O faults | buffer, truthful statuses, answers belong to commands, every command returns |
| `curl_safety` | size up to 4, chunks up to 3, 7 bytes | accounting, reports, results, protocol |
| `driver` | both drivers; quantities *protected* (takes any text), *rat* (a setting and a query), *gpsloc* (drifts; allocates); 2 values, one of them *disabled*; 2 calls, 1 unasked text at a time | settings, readings, ownership, use of the interface |
| `result_parsing` | 4 patterns, 2 addresses, 2 columns, buffer of 10, arbitrary sections up to 4 characters, sections in order of up to 2 rows, 2 calls | caches, tables, fields and neighbours |
| `result_lists` | lists of 2, files of up to 2 exchanges, 4 calls | the mock, entries, masks, lists |
| `discovery` | 2 ports, both drivers, 3 devices plugged in, 2 enumerations | the list, the opened device, leaks |

**Bounds.** Two transmissions and two faults make a campaign that recovers
between, before and after transmissions, and lets the fault count both be reset
and overrun. A session holds at most two status objects (proved), so that a
third address is enough for one to be missing or reused. A response of the
tty needs one symbol of text and a terminated word; the buffer of 6 holds it
together with the rest of an earlier answer, and is filled by unasked text.
Three commands make a late answer pass over one command and hit the next.
Chunks of 3 against sizes up to 4 meet, miss and overrun the limit in one or
more chunks, and 7 bytes go past every limit. Two calls of a driver make a
second command follow on every end of the first; the quantities of the run
choose one function of each kind, and two values tell a current value from an
older one, and *disabled* from its opposite. One unasked text at a time, in front of
an answer or behind it, decides what is taken first; it may be followed by another
as soon as it is flushed.

Two addresses for four patterns make automata be reused after a failure, and be
missing. A row of two columns has four characters, so that a buffer of 10 (9 and
the NUL) holds a title and one neighbour and cuts the second; arbitrary sections of 4 characters
have every combination of empty, single and double rows and columns. A second
call finds the caches and a used result of the first. Lists of 2 are empty,
partly filled, full and (in the answers) overrun; four calls over two exchanges
let a list be filled, refilled, left over at the end of the file, and freed
between. Three devices in two ports put another device under the name of one
that has gone; two enumerations follow each other over a leak.

The counters that would be unbounded have named bounds: `MaxCommands`,
`MaxBytes`, `MaxCalls`, `MaxUnasked`, `MaxPlugs`, `MaxInits`, `MaxText`, `MaxRows`,
`MaxExchanges`.

**Fairness.** `TrafficTest`: weak fairness of both threads (the scheduler), of
a handler that was entered, strong fairness of the two lock acquisitions (the
holder does nothing long, the collector sleeps outside the lock). Weak fairness
of main includes that libcurl calls `xferinfo` while it waits, which it does
about once a second even without traffic; it does not include that an upload
ever completes. That a server accepts payloads in the end is a premise of
`CompletesUndisturbed` alone (`Undisturbed`), not of the specification.
`AtTty`: weak fairness of the calling thread, where `select()` returns at the
latest with the timeout; nothing is assumed of the modem. The other
specifications state safety only, and have no fairness.

**Deadlock.** `DeviceDriver`, `ResultParsing`, `ResultLists` and `Discovery` do
not check for it: their calls are bounded, and the last three end where the code
would crash. The other specifications have none; `TrafficTest` stutters
once the program has returned or aborted (`Exited`).

### Runs that find a disagreement

Each shows the code contradicting a text of the repository; the findings in
`PROJECT.json` quote it.

* `test_ctrlc` (`CtrlCQuits`): a Ctrl-C, its handler done, can be overwritten by a failure it
  caused itself (interrupted `select()`), or be lost between test and reset.
* `test_repetitions` (`EveryRepetitionSent`): an aborted transmission counts
  as one of the repetitions.
* `test_nothing_left` (`NothingLeftEnds`): with nothing left to send, a modem
  that fails its first query in every session is recovered for ever.
* `curl_limit` (`StopsAtLimit`): a download that reaches its limit with the
  end of a chunk goes on without limit.
* `driver_severity` (`SeverityKept`): a mere timeout of a query is critical.

## Proofs

For all values of the constants, from the named assumptions about them:
`TrafficTestAssumption`, `AtTtyAssumption`, `TrafficCurlAssumption`,
`DeviceDriverAssumption`, `ResultParsingAssumption`, `DiscoveryAssumption`,
`AtMockAssumption`, `ResultListsAssumption`. They say that bounds are naturals,
that pointers and values are not the null pointer, that the set of ports is
finite, and which names the constants of a text may have.

**TrafficTestProofs.** `IInv` has one part per thing the three actors have to
agree on. `NoUseAfterFree` alone is not inductive: it needs `LockInv` (what the
callback has copied is what is published, as long as it holds the lock) and
`HeapInv` (what is allocated at each control point of the collector, so that a
freed object is never the published one). `SessionInv` ties the collector's
life to main's control points, `CountInv` the counts of transmissions to each
other, and `StopInv` says what each way out of the loop implies. `NextPreserves`
has a step per action. From it follow type correctness (`Invariance`),
`MemorySafety`, `MemoryBound`, `SessionOutlives`, the action properties
(`RenewsCorrectly`, `TraceCorrect`) and the refinements `CampaignImplemented`
and `UploadsCorrect`, step by step.

**AtTtyProofs.** The invariant adds that a call which still reads has seen no
final result code. Lemmas about cutting and joining sequences say that what is
read fits (`GotFits`); with them follow `BufferSafety` for every buffer size,
and `InterfaceImplemented`: each return is a truthful `Return` of
`AtInterface`, everything between stutters. `AnswersCorrect` shows
`AnswersOwnCommand` from `OwnInv`: unless an earlier call gave up an answer that
was still to come, what a call has read, what is queued and what the modem is
saying are one stream of bytes, in which nothing but the answer to its own
command can end the call, and that answer appears at most once and in one piece.
Reading, speaking and flushing only move the borders within the stream.

**TrafficCurlProofs.** `Accounted`, `ReportsAddUp` and `ResultIsTrue` are
inductive together with `CodeInv`, which says at which stage a code exists and
that libcurl's write error means a download cut off at exactly its size.
`ProtocolImplemented` maps every step to `Transfer`.

**DeviceDriverProofs.** First, one lemma per kind of operation shows what all
functions of both drivers have in common (`Sound`): a setting is reported as
successful only after a success, a result is allocated only where failures are
told from successes, all but one release the response. The argument for
`SettersEffective` and `ReadingsTrue` is `OwnInv`: if nothing was outstanding at
the flush, then during the call either its own command is on the way and nothing
else, or everything that the modem is saying, that is queued, and that was
received answers it, with a value out of `during`, or was said unasked. `CallInv`
keeps the present value in `during`. An unasked text is a report of another
quantity or of a value that the quantity has at that moment (`Hearsay`), so that a
function which looks for its quantity's name may take it: only those that take any
text can be misled. Where a value came from is `ValueOrigin`: the first message
accepted, or nothing. The exceptions that remain are those the property names. `Ownership` follows at each return from the records alone, and
`InterfaceImplemented` maps each return to `AtInterface`.

**ResultParsingProofs.** `CachesSound` needs `MatchInv`: a match in progress
runs the automaton that its pattern's cache refers to, so that an error frees
and forgets the same one.

That a table has the words of its text (`TablesCorrect`) rests on what `Tokens`
computes: for any text and delimiters, its tokens are the runs of other
characters, in order (`TokensAreRuns`, shown from the last place of the text
down to the first). So the words of the lines are the words of the reference
(`TableOfTokens`). `ParseInv` says at each step of the parser which rows and
columns are there, and that they are those of the text. `BlocksInv` says which
blocks are in memory: with enough of it exactly those that the rows and columns
so far need, and after any failures none of the table's but where the release
looks for them (a list from a failed split may be lost, as in the code).
`TablesFreed` follows.

A section in order of any number of rows and columns is cut into just these
(`SectionInOrder`), so that a call reads past a row only when the section was not
in order, was cut, or memory was short (`RowsComplete`). `ResultsCorrect` needs
`CallInv`, that a call looks for each pattern once, and `NofInv`: a pattern still
to come has been told nothing and has no neighbours in a new result, and what was
told of one that is done with is what the result has. Even `TypeCorrect` takes
`ParseInv`, since the parser takes lines and words from lists that it has not checked
again.

**DiscoveryProofs.** `ListExact` is about one moment, the end of the
enumeration. Before, `OrderInv` says that no port is met twice, `ScanInv` that
the steady ports still to look at were scanned and those in the list match,
`FoundInv` that no steady port that belongs to the list is in neither. `HeapInv`
counts what is allocated at every control point.

**ResultListsProofs.** `MockInv`: while an answer is read, the lines read last
are the command and the answer so far (`Recorded`), and none of them is final;
the exception is a call that began at the end of the file. `ListInv`: a list
has only NULL and entries of its own kind, networks below their count never
NULL, so that the two lists never share an entry. With it, `EntriesOwned` is
kept by every way to fill, clean and free a list, for every capacity.
`ListsCorrect` counts: an answer in order has as many rows before its heading as
it says profiles, or one more without a heading (`ProfilesCounted`), and the parentheses before its first `,,`
are in pairs, one for each network (`MarksRows`, `NetworksCounted`), so that a
list filled from it has as many entries, be it none, all of this call. That an
answer without rows leaves only NULL under the count is `ProfileListEmpty`.
`NextTells` shows that they stay until the list is freed.

**Least.** A set of naturals has a least element (`LeastExists`), by
well-foundedness; from it, what holds of a number whenever it holds of all greater
ones holds of all (`Downwards`). This is the one induction over data that the
proofs need. It is stated with a set in the place of a predicate, since the
general induction theorems take an operator, which the provers cannot instantiate.

**Checked first.** Each invariant above was checked by TLC on the instance of the
component's run before it was proved, those over all numbers of rows and columns
with the numbers up to those of the run.

**Only model-checked.** Liveness: `CompletesUndisturbed`, `SetupFailuresEnd`,
`SessionTakenDown`, `CommandReturns`. Liveness under fairness needs ENABLED, which
is out of the prover's reach. Every other property of the passing runs is a
theorem.

## Not modelled

* `conversion.c`, `logger.c`, `trace_logger.c`: pure functions, time and
  output. A conversion that is out of range is a match in vain.
* The length of a command: `at_interface_command_tty` puts it together in a buffer
  of fixed size with `strcpy` and `strcat` (at_interface.c:111-113), without looking
  at the length of the parameters that its caller passes.
* The values of numbers, names and strings: what the properties tell apart is
  which call, which answer and which column they come from.
* `param_log.c`: it calls one function in a loop, and reads a status that may
  have been freed (a hazard in `PROJECT.json`); other examples call one function
  each.
* `gps_transform.c` (floating point), `network_interface.c` (ioctl calls),
  `info.c`, `device_enumerator.c` (an example's code), `qmi_test.c` and
  `at_test.c` (not built), scripts.
* `tc_download` (libcurl's default transfer), `device_list_entry_copy` (never
  called).

## Plan

Done, in this order: `TrafficTest` with `Campaign`; `TrafficCurl` with
`Transfer`; `AtTty` with `AtInterface`; `DeviceDriver`; the proofs of the first
three; `RegexCache`, `StringTable` and `ResultParsing`; `AtMock` and
`ResultLists`; `Discovery`; the proofs of these and of `DeviceDriver`. Left:

1. A composition of `DeviceDriver`'s operations with `configure_modem`, and
   `param_log` as a caller of the MC7455.
2. Conversions as operators with their widths.
3. The safety half of the liveness properties, as far as a bound on the
   remaining steps can be stated without fairness.

## Running

    tlc -workers 2 -config TrafficTest_all.cfg TrafficTest
    tlc -workers 2 -config MCResultLists.cfg MCResultLists
    tlapm DeviceDriverProofs.tla

The longest run takes about two minutes, the longest proof a few minutes.
