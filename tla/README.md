# u2f4moz, modelled in TLA+

u2f4moz adds the U2F API to Firefox. A page calls `u2f.register` or `u2f.sign`;
a content script in the page forwards the call to the add-on's chrome process;
the chrome process validates it and spawns a helper program, which talks to the
USB devices through libu2f-host, json-c and hidapi. This directory models how
these parts work and cooperate, checks the models with TLC and proves most of
their safety properties with TLAPS, for every value of the constants.

## The system

| part | source | state | operations | talks to |
|---|---|---|---|---|
| content script, one per page | `ext/data/content-script.js` | `nextCallbackID`, `activeRequests`, `callbacks`, timers, port listener | `sendToChrome`, `deliverResponse`, `processChromeResponse`, `handleTimeout` | the page by callbacks, the chrome process by the port (`U2FRequest`, `U2FRequestResponse`) |
| app id validation | `ext/appIdValidator.js` | promises, `goodValues`, `valuesLeft` per call | `allValidAppIds`, `hasValidAppId`, `fetchTrustedFacetsList` | the network; called by the chrome process |
| chrome process | `ext/index.js` | `activeRequest` (global), per request the closure of `_execBin` | `execBin`, `_execBin`, the `data`, `error`, `exit` handlers, the timer, `killExe`, notifications, attach and detach | pages by ports, helpers by pipes and signals, notifications |
| helper, one process per request | `c_src/main.c` | `action`, `device_state`, `device_disappeared_rc`, `requests_count`, `response` | the main loop, `read_action`, `report_error`, the alarm | stdin, stdout; libu2f-host by calls |
| device table | `c_src/libu2f-host/devs.c` | `u2fh_devs`: entries, dead or alive, and their hid handles | `u2fh_devs_discover`, `u2fh_devs_init`, `u2fh_devs_done`, `close_device` | hidapi; ping and init by the transport |
| register, authenticate | `register.c`, `authenticate.c`, the JSON helpers of `u2fmisc.c` | none across calls | rounds over the live devices; `get_fixed_json_data`, `prepare_*` | transport, json-c, hash |
| transport | `u2fmisc.c` | none across calls, but the device's queue of frames | `u2fh_sendrecv`, `send_apdu` | hidapi |
| json-c | `json_tokener.c`, `linkhash.c`, `json_object.c` | the parser's stack, saved state and buffer; the hash table and reference counts of an object | `json_tokener_parse_ex`; add, delete and look up members | called by libu2f-host |
| hidapi, one backend per build | `hid-linux-hidraw.c`, `hid-linux-libusb.c`, `hid-mac.c`, `hid-win.c` | lists under construction, handles, claims; per device a read thread and a queue of reports, or an overlapped read | `hid_enumerate`, `hid_open`, `hid_open_path`, `hid_read_timeout`, `hid_write`, `hid_close`, the threads and callbacks | udev, libusb, IOKit, Windows |
| log viewer, errors, hash, base64, packaging | | | | |

What is hard about it:

* **Concurrency.** Pages ask at any time and requests overlap, but the chrome
  process has a single `activeRequest`, which timers, exits, detached pages and
  notifications all refer to. Helpers run in parallel with it and end whenever
  they like. Several programs may have one device open. With libusb and macOS
  each open device has a read thread, and with libusb the thread of one device
  runs the callbacks of another.
* **Ordering.** Promises of the validation settle in any order. Prompts and
  answers of a helper arrive in chunks of any size. Answers race timeouts, and
  late frames of a device meet the next command.
* **Failure.** Spawns fail, helpers die, devices disappear between any two
  steps, page callbacks throw, allocations fail.
* **Timeouts.** Three that know nothing of each other: the page's (content
  script), the request's (chrome process), the helper's alarm of 60 s; and below
  them the windows of `u2fh_sendrecv`, the rounds of an operation, and the
  timeouts of reads.

What makes each part correct:

* content script: every call is answered, and once it is settled never again;
  the listener is there while its counter says that a call is outstanding.
* validation: the result is exactly the valid challenges, in order, and comes
  when all checks are over.
* chrome process: it acts on the request it means to act on; a register waits
  for its check; a page gets a verdict on its own question; no helper stays.
* helper: one answer per action, a consistent story about the device, memory
  released once, and the action it runs is the one that was written.
* device table: handles and live entries correspond, no path twice, the result
  tells whether a live device is in the table.
* transport: an answer that is returned is the whole answer to the command sent.
* register, authenticate: one device acts, none is asked in vain, the code
  returned says what the devices answered, JSON objects are put once.
* json-c: the parser accepts what the grammar has, wherever the text was divided;
  an object is an ordered map.
* hidapi: a list has the devices it should, everything acquired is given
  back whatever fails, reports are handed out once and in order, calls return.

## The modules

**ContentScript** is one page. An action is one event: `SendToChrome` (a call by
the page), `ProcessChromeResponse` and `DropResponse` (a message from the port
with and without a listener), `HandleTimeout`. `deliverResponse` is the operator
`DeliverResponse`: the early return (`IgnoreResponse`) or `RunCallback`, which
runs the page's callback. The callback may throw and may make one more call
first. `ChromeAnswers` is the environment: any answer for any id asked, up to
`MaxAnswers`, because `index.js` can send two. `callbacks` is the set of ids that
have an entry; payloads are left out. **ExtensionProofs** holds the proofs of this
module and the next.

**AppIdValidator** is one call of `allValidAppIds`. What the check of each
challenge finds (`finds`) is an input: the page's own origin, another one, a
list that does or does not name the origin, no list, or something malformed.
`AllValidAppIds` is the synchronous part, `Fetch` the end of a fetch, `Handle`
the reaction of `allValid` to a settled promise. A failed fetch leaves the
promise `"stuck"`, since line 121 has no rejection handler; a malformed
challenge makes `allValid` throw, since the catch clause at line 132 returns
nothing. In both cases the caller never hears of the call. The sorted result is
the ascending sequence of the same elements: no challenge is pushed twice.
MCAppIdValidator instantiates the module as `Validator`.

**HelperSpec** is what a helper promises to the extension, as a record and the
sets of records it can become: prompts, taking an action, answering it, dying.
It is the abstract specification of **Helper** and the helper that **Session**
runs. It is written with sets of successors because Session holds one helper
per request.

**Helper** is the main loop of `main.c`, with `pc` naming the next call that can
block or print: `Discover`, `ReportDisappeared`, `DiscoverFailed`, `Announce`
(lines 201-229), `ReadAction`, `ReadEnd`, `KeepAction` (231-240), `CallDevice`
and `Judge` (the two polling loops, 242-267), `AnswerTimeout`, `PostponeError`,
`AnswerOk`, `PrintNull` (269-282). What the library returns is chosen among what
it can return; in particular both functions return OK even when they produced
no response, because the result of `prepare_response` is ignored. `Die` is the
alarm or a kill. The extension writes by the protocol of `index.js`
(`ExtensionWrites`, `ExtensionFollows`). `rc` values that lead to the same
branch are one: `"error"` stands for all but `NOT_FINISHED` and
`AUTHENTICATOR_ERROR`. `AsHelper` is the refinement mapping to HelperSpec.
**HelperProofs** holds the proofs.

**Session** is the chrome process: any number of requests and pages, each request
with its stage, its helper, its buffer `value` and its timer, and the global
`activeRequest`. The data handler is one action, `Data(r, n)`, for the next `n`
things the helper printed: prompts at the head of the buffer are stripped in the
handler's order (`Unprompted`), then at most one answer is taken. A prompt left
at the head, by the order of the tests or because `showNotification` threw, keeps
the answer behind it from being understood, as in the code. `KillExe` acts on
whatever request is active, in all three places that call it. Tokens stand for
prompts and complete answers; a chunk that ends inside an answer is the same as
one that ends before it, since the handler waits for the whole.
`activeRequest.killing` is not modelled: `killExe` drops the object right after
setting it. **SessionProofs** holds the proofs, **SessionEndsProofs** the one about
MCSessionEnds.

**Devs** is the device table. `u2fh_devs_discover` is a sequence of steps
(`Discover`, `Visit`, `Ping`, `Open`, `InitDevice`, `Sweep`), because each talks
to a device that may be unplugged or replugged meanwhile (`Unplug`, `Plug`).
An entry records its path, whether it is alive and whether it still is the
device its handle was opened on. `Done` is `u2fh_devs_done`.

**Transport** is `u2fh_sendrecv` and the way `devs.c` calls it: `Open`, `Call`,
then frame by frame `Send`, `Read`, `ReadTimeout`, `ReadFails`, with the first
window and the doubling ones. The device is external (`Answer`, `Emit`): it
answers in order, late, and every program that has it open receives every
frame, in a queue that loses the oldest. `raced` collects the channels that came
out of two INITs at once, since `init_device` does not compare nonces. **TransportProofs** holds the proofs for
any number of programs.

**Operations** is `u2fh_register` and `u2fh_authenticate` from the first
`prepare_*` to the code they return: `Round`, `PassOver`, `Ask`, `EndOfDevices`,
and after the loop `PollLater`, `PollAgain`, `Reject`, `Respond`. `len`, `buf`
and `skip` are the variables of the code; as there, the last answer that was
copied decides. A device may answer either operation with data or with any status
(`Replies`), but rejects a key handle it does not know.

**JsonBuild** is the JSON around it: `get_fixed_json_data`, `prepare_browserdata`,
`prepare_origin`, `prepare_response`, `prepare_response2`, and the decoding of the
key handle. Objects have reference counts, every allocation may fail, and a text
is its length, as is what base64 makes of it (`Encoded`, `Written`). The instance
has the sizes of the code. The answer of a device always fits, encoded: `send_apdu`
lets 1024 bytes through, which make at most 1364 characters for 2048. Two copies do
not fit: client data of 1534 bytes or more goes beyond `bdstr` though the test
before it lets 2048 through, and a key handle of more than 170 characters goes
beyond `data`. The model ends there (`pc = "overrun"`), and `Fits` says that
nothing else does. The parsed challenges that are never put are counted in `parsed`.

**WireFormat** is the action on its way: `challengesToStr` writes it,
`read_string`, `read_n_bytes` and `read_action` read it from a pipe that hands it
on in pieces and may be closed at any time. Its two counts differ, 16 and 15, as
in the code, and a length is a number modulo 16^4. A text has two lengths: what
the extension writes into the field are units of UTF-16 (`index.js:76-79`), what
the pipe carries and the helper counts are bytes of UTF-8. They are the same for
ASCII only; of any other text the helper takes the first bytes, and begins the
next one in the middle of it. `Delivered` is about requests in ASCII whose lengths
fit into their fields (`Fitting`), as the origins and the challenges are that
browsers and servers make; the other invariants are about all. The texts are kept one after
another (`chars`), with a pointer to each challenge (`starts`), which begins where
the zero of the one before was put (`main.c:123-124`): only the last zero is left,
and a challenge is the text that begins at its pointer. **CallsProofs** holds the
proofs of Transport with one program, Operations, JsonBuild and WireFormat.

**ReportQueue** is what hidapi promises about the reports of a device, as an
abstract queue that keeps the newest. Its constant `Drains` says whether a read
fails only when nothing is left: so with libusb, not so with macOS. The limit is
what the two keep, two more than the 30 of their comments.
**LibusbReader** is the read threads of `hid-linux-libusb.c`: the transfer, its
callback run by any thread that handles events, reads in their three modes,
`hid_close` and what the thread does to end; the first submission, whose result is
ignored, may fail. **MacReader** is the same for `hid-mac.c`: the run loop, its
callbacks, the removal callback, and the two barriers, which a wait for the
condition may leave for nothing (`WakeUp`). Then the caller may use a run loop
that is not set, or one whose thread has ended: it has crashed. Both implement
ReportQueue. **WinReader** is the overlapped read of
`hid-win.c`, which outlives the call that started it. **ReadsProofs** holds the
proofs of the queue and of all three, for one device.

**Hidraw**, **WinDevice** and **LibusbOpen** are the listing and opening of
devices: one action per call to udev, Windows or libusb, so that a device can be
unplugged between any two (`Unplug`), and a call can fail, whether or not its device is there. What is allocated,
open or claimed is a set or a count. A device is a record of what the system may
tell of it. LibusbOpen also has what `hid_write` and the feature reports send.

**ReportDescriptor** is the three walks over a report descriptor, a turn of the
loop per step: `get_usage` of `devs.c`, `get_usage` of libusb and
`uses_numbered_reports` of hidraw. What they should find is defined from the
items of the descriptor.

**JsonTokener** is `json_tokener_parse_ex`, a state of the parser per action
(`EatWs`, `Start`, `Literal`, `Number`, `StringEscape`, `EscapeUnicode`,
`Array`, `FieldEnd`, ...), with its stack, its saved state, and `Call` for the
next piece of text; locals start anew with each call. **JsonGrammar** says what a
text means, by recursion over the text and without the machine. **LinkHash** is
the hash table of an object: probing, marks for deleted entries, the list
through the entries, growth, and the references an object holds. **OrderedMap**
is what it implements. **MCTable** is LinkHash for keys that are copied, with what it
promises; its proofs are in HelperProofs.

`MC*` modules instantiate these for TLC. Operators described as variants are not
used by any specification: they show, put in place of the operator that follows
them, that a property notices the difference.

**Devices**, **MCCalls** and **MCJson** instantiate several modules at once: the
first state chooses the part that runs, and the variables of the others stay
`None` (the table of MCJson stays empty instead). The parts share no state in the program either - a build has one hidapi
backend, and what one module leaves to another (a device that answers, a table
with a live device) is its environment. A property there is the conjunction of
what the parts promise about one matter, and a part takes exactly the steps of
its own module. The numbers and sets of Devices and MCCalls are CONSTANTS with
values in `Devices.cfg` and `Calls.cfg`, as are those of MCTable in `Json.cfg`, for
the theorems hold for all of them;
the kinds of device are defined in **MCDevices**. **DevicesProofs** holds the
proofs about Devices: of the table, the channels, the reader threads, the three
listings and the walks over a descriptor. **MCSessionEnds** chooses between
two settings of Session.

## The runs

| run | shows | states |
|---|---|---|
| `content_script` | counter, listener and timers fit the outstanding calls; a settled call stays settled; every call is answered | 32 000 |
| `app_id_validator` | the result is exact and ordered; it comes unless a list cannot be fetched or a challenge is malformed | 2 700 |
| `helper` | `main.c` implements `HelperSpec`; no double free under the extension's protocol; prompts consistent; actions answered | 19 000 |
| `session_ends` | one request of any kind: a register waits for its check, verdicts fit, and one comes unless the request is killed; one or two: every helper is reaped | 69 000 |
| `session_checked` | two checked registers that overlap: neither reaches the helper before its own check allows it, and verdicts fit | 1 060 000 |
| `session_pair` | two pages: notifications can be removed, a page that goes takes its helper along, unless requests overlapped | 1 750 000 |
| `session_three` | three requests: `activeRequest` names a running request, and only overlap makes it, or a timer, the wrong one | 1 650 000 |
| `devices` | the device table, lists, handles, descriptors and channels while devices come and go and several parties hold them | 2 450 000 |
| `calls` | what calls of the helper return is right, and they return | 150 000 |
| `json` | the parser agrees with the grammar; an object is an ordered map | 464 000 |
| `devs_max_index` | violation: `*max_index` is not what its comment says | |
| `libusb_close` | violation: `hid_close` may wait for ever with two devices open | |

The finding of `devs_max_index`: the comment at `devs.c:254-257` says that
`max_index` is 0 with one device and 1 with two. It is `num_devices - 1`, and
dead entries count. In the run an allocation fails after the device was opened
(`devs.c:343-348`), which leaves its entry closed; the next discovery opens it in a
second one, and one device gives 1. An entry that is closed because a ping failed
counts likewise. The helper passes `NULL`.

The finding of `libusb_close`: `hid_close` waits for the read thread
(`hid-linux-libusb.c:1246`). Both cancellations, at lines 1244 and 846, do nothing
while the transfer is not in flight, as it is while its callback runs in the
thread of another device; the callback then submits it again without looking at
`shutdown_thread`, and a device that goes on sending keeps its thread waiting for
`cancelled`. (The device is unplugged in what TLC prints; that is not needed.) With
one device open, and its first transfer submitted, `CallsReturn` of `calls` shows
that it returns; without that it does not, see `CloseReturnsAnyway` below.

What the properties of Session say by their condition is as important as what
they promise: `overlapped` collects the requests that ran while another one did,
and for those the code gives up the link between a request and its timer, its
page and its notification (`index.js:122, 189, 193-196, 215`). The properties
hold for all others, also with third requests and failed spawns in play.
ChannelsApart likewise excepts the channels in `raced`.

### Statements the code does not keep

Some comments, tests and callers take the code for more than it does. The modules
state what they say, and no run checks it, since it fails; an instance in which TLC
refutes each:

| definition | the comment, and what the code does | refuted with |
|---|---|---|
| `Operations!ErrorsReported` | "on errors an u2fh_rc error code" (`register.c:102-103`): the result of `prepare_origin` is ignored (`register.c:132`, `authenticate.c:155`), so a challenge without appId is sent with an application parameter never set, and U2FH_OK may be returned. The extension always sets an appId. | any instance |
| `JsonBuild!OkHasResponse` | "pointer to output string with JSON data" (`register.c:97`): the result of `prepare_response` is ignored (178). | any instance |
| `JsonBuild!LeaksNothing` | "Any ownerships you acquired but did not transfer must be released" (`json_object.h:279`): `get_fixed_json_data` (`u2fmisc.c:383`) and `prepare_origin` return early without putting the challenge they parsed. | any instance |
| `JsonBuild!EncodedFits` | "if (strlen (bd) > 2048)" (`register.c:73`, `authenticate.c:90`), before `bd` is encoded into `bdstr[2048]`: base64 makes four characters of three. | client data of 1534 bytes |
| `JsonBuild!HandleFits` | "#define MAXKHLEN 128" (`authenticate.c:106`), the room in `data`: `khb64` holds up to 255 characters, and all are decoded (163). | a key handle of 171 characters |
| `Operations!NoneWaits` | "rc == U2FH_AUTHENTICATOR_ERROR" (`main.c:256`) sends the helper to the next challenge, as if no device had the key of this one: what the last device said decides (`authenticate.c:211, 223`), also when one before it waits for its button. | two devices |
| `Operations!NotFinishedWaits` | "if (rc == U2FH_NOT_FINISHED_ERROR)" (`main.c:258`) prompts for the button: a register that is polled returns it for any status (`register.c:163-170`). | any instance |
| `LibusbReader!QueueAtLimit` | "Pop one off if we've reached 30 in the queue." (`hid-linux-libusb.c:765`, and `hid-mac.c:633`, which keeps as many): `num_queued` is the number before the last but one, 32 stay. | one device, more than `QueueLimit + 1` reports |
| `LibusbReader!CloseReturnsAnyway` | "This call will fail if no transfers are pending, but that's OK." (`hid-linux-libusb.c:844`): if the first submission (821) failed, nothing ever sets `cancelled`. | one device |
| `MacReader!SequencesOrdered` | "Ensures correct startup sequence", "Ensures correct shutdown sequence" (`hid-mac.c:120-121`): `pthread_barrier_wait` waits without a loop (90). | any instance |
| `MacReader!FailsWhenEmpty` | "Check to see that there's acutally data in the queue before returning" (`hid-mac.c:862-864`): `cond_wait` looks at the flags first (867). | one report |
| `MacReader!ClosesPlugged` | "If it's been unplugged, then calling IOHIDDeviceClose() will crash." (`hid-mac.c:1035-1037`): the callback that would tell is unregistered first (1017). | any instance |
| `ReportDescriptor!FirstFound` | "it just returns the first Usage and Usage Page" (`hid-linux-libusb.c:243`): it returns the last page before the first usage. | a descriptor with two pages |
| `Hidraw!StringReturned` | "returns 0 on success and -1 on error" (`hidapi.h:334`): without the string it returns 1 (`hid-linux-hidraw.c:291`). | a USB device without strings |
| `WinDevice!ListedHaveDriver` | "Make sure this device is of Setup Class HIDClass and has a driver bound to it." (`hid-win.c:340`): the loop looks at the devices of the set from its first. | two devices, one without a driver |
| `WinDevice!VendorOwn` | "Check the VID/PID to see if we should add this device to the enumeration list." (`hid-win.c:383-384`): the result of `HidD_GetAttributes` (380) is ignored. | a device that goes away between 367 and 380 |
| `LibusbOpen!NullOpensNothing` | "Unable to open any devices." (`hid-linux-libusb.c:998`): the search goes on after the path was opened; a second altsetting of the interface has the same path, its claim fails and frees the device under its thread (934). | an interface with two altsettings of class HID |
| `LinkHash!ConstantKept` | "flags the key as being constant memory" (`json_object.h:79`): `lh_table_resize` (`linkhash.c:509`) loses the flag, and the key is freed. | `Constants` not empty, and growth |
| `JsonTokener!Sound` | "return a non-NULL json_object if a valid JSON value is found" (`json_tokener.h:134`): the text `[1` with the beginning of a comment behind it is the integer 1 (`json_tokener.c:892`). | unclosed comments |
| `JsonTokener!Sound` | "can then be called with additional bytes in str to continue the parsing" (`json_tokener.h:141`): what a number has had is kept in locals (671), so `[1` and `-1]` is accepted. | a minus in a text in pieces |
| `JsonTokener!Complete` | "Check for -Infinity" (`json_tokener.c:719`): `st_pos` is left as it is (723), and `[true,-Infinity]` is refused. | -Infinity behind another literal |

`NullOpensNothing`, `Sound` and `Complete` are part of what passing runs check, so
their instances leave the cases of the table out: no interface has two altsettings
of class HID; and among the texts are no unclosed comments, no minus in a divided
text, and -Infinity only by itself. `Constants` is empty in `json`. The other
statements fail in the very instances of the runs, and what the runs check beside
them is what is left: `CallsReturn` asks that the first transfer was submitted,
`SequencesKept` says that nothing but a barrier left for nothing breaks an order,
`WinDevice!ListExact` says of drivers what comment and code agree on and of vendors
what holds of devices that stayed, `ReportDescriptor!UsageExact` leaves open which
of several items libusb's walk returns, `Fits` names the two copies that do not.

### Bounds, and why they are enough

* `MaxRequests = 3`, `MaxAnswers = 2` (ContentScript): two calls are needed to
  have one outstanding while another is answered, a third for a call made by a
  callback; the chrome process sends at most one spare verdict in practice.
* `MaxChallenges = 3`: an order with a middle element.
* `MaxPrompts`: 4 for Helper and one request of `session_ends` (the device goes,
  comes back, the button is asked for, and it goes again), 1 in `session_pair`
  and `session_checked`, 0 where prompts do not matter. In Helper it bounds how often devices change.
* `PollLimit = 2` for the 15 of `main.c:267`, `NumChallenges = 2`: enough for a
  first, a middle and a last poll and for a next challenge.
* `Requests`: two overlap; the third meets what the overlap of the first two
  left behind. `KindsAsked` leaves out kinds of request where they make no
  difference to what is checked.
* `MaxPlugs = 2`, `MaxCalls = 3`, two paths (Devs): a device that is replaced
  while another is visited, and the discoveries before and after.
* Transport: windows of 2 and 4 for 2 to 4096 ms, so there is a first, a
  doubled and a last one; four calls (INIT, two commands, and what a failed one
  leaves); answers that fill a frame, exceed it by one byte, and take three
  frames; a queue of two, which overflows. Two programs in `devices`, where the
  sizes are one short and one long answer; one in `calls`, with all sizes.
* Operations: three devices (before, at and behind the one that decides), a round
  limit of 2 for 15.
* JsonBuild: the sizes of the code, with texts below, at and above each of the
  lengths at which a copy fits no more.
* WireFormat: up to four challenges for room for two, the modulus 4 for 65536, so
  that a length wraps, texts of ASCII and not.
* LibusbReader: two devices with three reports each and queues that keep two in
  `devices`, so that each drops a report while the other's thread may run the
  callback; one device and four reports with a queue that keeps three in `calls`,
  under fairness. MacReader the same. WinReader: a ring of two and six reports, so that
  it is overrun while a read is under way.
* Hidraw, WinDevice: three devices of eight and six kinds (first, middle, last of
  a list, each left out for each reason); LibusbOpen: two of five kinds.
* ReportDescriptor: every string of up to five bytes out of six: items without data,
  with one and two bytes, a long item. That items of four bytes are walked over,
  and read, rightly is left to the theorem.
* LinkHash: four keys in a table of three that grows once; all colliding at the
  end of the table, or in pairs.
* JsonTokener: all arrangements of up to five structural parts, all numbers of
  up to five characters, all strings of up to four escapes, literals and gaps in
  all places; each text of up to four parts also divided at every place. Depth 3.

Deadlock checking is off: pages may stop asking, processes end, a caller may
stop calling, a parser has stopped.

### Fairness

* ContentScript: a timer that is armed and not cleared fires. Nothing is asked
  of the page or of the chrome process.
* AppIdValidator: reactions of settled promises run and fetches end; an `onComplete`
  that never comes would hang the request as a failed fetch does.
* Helper: the process runs on (its calls return). The alarm is not needed.
* Session: events that are due are delivered, timers fire, and a helper ends by
  its alarm at the latest (`main.c:168-172`). Validation need not settle, and
  neither pages nor users need do anything.
* `calls`: the program that calls runs on, and windows pass (Transport); neither
  the device nor other programs need do anything. The extension writes what it
  has begun or the pipe is closed (WireFormat). Threads run. Strong fairness is
  asked where a step needs the mutex or the event lock of libusb, which others
  take in between: a transfer in flight completes at last (it has a timeout of
  5 s), a thread that was woken gets the mutex, and a run loop gets to a
  signalled source and a removal it can see. Nothing makes a condition wake up for
  nothing, and it need not. With Windows a read that the device
  is gone for, or whose timeout is over, comes back; one without timeout need not.

## The proofs

`ExtensionProofs` proves, for every `MaxRequests` and `MaxAnswers`, that
`TypeOK`, `Accounting` and `TimerGuards` are invariants and that
`SettledOnce` holds of every step. None of them but `TypeOK` is inductive by
itself. The inductive invariant `IInv` adds that calls not yet made have not
been answered (or a new entry could have a timer and an old count) and that a
settled call has no entry (or it could be called again). `Accounting` needs the
cardinality of `callbacks` after adding and removing one id, hence its
finiteness (`CallbacksFinite`) and the library's theorems on finite sets. Each
action has its lemma; `RunCallback`, shared by timeouts and responses, has one.
`SettledOnce` follows from `IInv` before and after the step: a step keeps a
settled call settled, so it still has no entry, so no callback of it ran.
The assumptions are that `MaxRequests` is a positive and `MaxAnswers` a natural
number.

It also proves, for any number of challenges, that `Exact` is an invariant of
AppIdValidator: the result holds the valid challenges, each once and ascending.
`CheckInv` says that a promise settled as the check found (`Found`), that what was
pushed are the valid challenges whose handlers ran, without repetition
(`Pushed`), and that the count is the number of handlers still to run, which stays
above 0 while one is not even attached (`Counting`); so the last handler finds
them all. That an ascending sequence of the pushed elements exists, so that the
`CHOOSE` of `Sorted` finds one, takes induction over their number, by least elements
(`Least`, `InOrder`).

`SessionProofs` proves, for any sets of requests and pages and any `MaxPrompts`,
that `ActiveFits`, `NotesRemovable`, `TimerKillsOwn` and `RegisterAfterCheck` are
invariants and that `DetachKills` holds of every step. The first three are about
one global variable that every event overwrites. Their inductive invariant
`IInv` adds three facts: of two requests that run, each is recorded as
overlapped (`PairsOverlap`), or a request that is not active could claim to be
alone; a killed request has a helper and no timer (`KilledStarted`), or its
timer could go off later for another; and a timer without a running request was
left by overlap (`TimersRun`). With these each event has its lemma, and the
three places that call `killExe` share one. `DetachKills` follows from
`AloneIsActive` before the step: the page's only request is the one killed.
`RegisterAfterCheck` needs the types of the buffers (`TypeOK`) and that a request
not yet started has a fresh helper (`IdleBefore`); its own strengthening `Waits`
says that whatever a checked helper may still read is no register. `AnswersFit`
is about a verdict that was given and what was read long before; `Told` follows
an answer from the helper through the pipe and the buffer to the verdict. The
assumptions are that kinds are kinds, that `NoRequest` is no request, and that
`MaxPrompts` is a natural number.

`SessionEndsProofs` proves `VerdictsFit` of `session_ends`: in the setting of one
request that module takes the steps of Session with those constants
(`SameSession`), so SessionProofs, instantiated, has the invariant.

`HelperProofs` proves, for every `PollLimit`, `MaxPrompts` and positive
`NumChallenges`, that Helper implements HelperSpec (`ImplementsHelperSpec`) and
that `Owned` is an invariant. For the refinement, `TurnInv` says what `main` knows
at each of its calls: which results lead there (`Outcomes`); that an action in
work, and a postponed error, have an action and a device, and that code 4 is the
outcome of a sign (`InWork`); that a prompt about to be printed is within the
bound (`PromptsLeft`). Each action of `main` then maps to one step of HelperSpec
or to none, by one lemma for prompts, one for answers, one for the ends and one
for what is not seen. For `Owned`, `OwnInv` follows the dialogue with the
extension through three phases (`OneToCome`, `Working`, `Over`): a second action
comes only after code 4, and a response that was freed was never freed with that
answer. That is why the pointer `main.c` does not reset does no harm.
`PromptsAreConsistent` is about everything printed so far; `StoryInv` says how
the last prompt of each sort and the place in the loop go together.

It also proves the two properties of the hash table that `json` checks, for any
keys, values and hash functions and any first size above 1 (`TableAssumption`):
`MapExact`, and `ImplementsMap`, the refinement of OrderedMap. The keys are copied
ones: with constant keys `Owned` is false, as the table above says of
`ConstantKept`. Neither is inductive, for LinkHash has pointers and marks where the
properties speak of a list and of lookups. `TableInv` says that there is a sequence
of entries such that

* the links, `head` and `tail` lead through exactly the used entries, in this order
  and back (`Listed`). That following `next` gives this sequence, and only it, is
  proved of the recursive function of `EntriesOf`, from the end of the list
  (`ListFollowed`);
* a search is a way through all entries, without repetition (`Ways`, from the
  arithmetic of the wrap-around), different entries have different keys
  (`Named`), and on the way of a key to its entry nothing is empty (`Reached`). A
  mark of a deleted entry keeps `Reached`, and an entry put at the first unused
  place has it: that is why a lookup may pass marks, and may end at an empty entry;
* what the object holds is what the members of the sequence name (`Holds`): as many
  references as members with a value, and one copy of each key.

An addition appends to the sequence, a replacement leaves it as it is, a deletion
removes one place of it, so each of the three parts has one lemma per operation and
the step of OrderedMap is read off. Growth is the one operation with a loop:
`moved` is followed entry by entry, and each step is that of an addition to a table
with room, which gives the same members in the same order in the larger table.

`TransportProofs` proves, for any finite number of programs that have one device
open, any number of calls and any sizes, that `OwnAnswer` and `SharedByRace` are
invariants: two programs come to use one channel only if they raced for it, and
on any other channel no program is given an answer to a command that is not its
last. The device shows every frame to every program, so `ChannelsInv` is about
each program and what is under way to it:

* frames that answer one program on one channel are in the order of its calls
  (`Ordered`), none is newer than the call its program is in (`Counted`), and
  channels in use or on their way are among those given out (`Bounded`);
* a channel on its way to a program that still waits for one is used by nobody,
  has nothing under way for it, and is meant for that program only, unless it was
  raced for (`Given`, and `Fresh` for an answer being emitted); hence `Apart`;
* what a program knows of its own state (`Sends`); that on a channel of its own
  there is nothing but its own, and what it could take for the first frame of an
  answer belongs to the call it is in (`Private`); and that a returned answer is
  one (`Whole`).

The order is per program and channel, since an INIT of another program may come
between any two frames. The assumption is `SizesAssumption`: sizes as in the code
(see CallsProofs) and finitely many programs, for the device counts those that
wait for a channel.

`ReadsProofs` proves of ReportQueue, for every `Capacity` of at least one and any
number of reports, that `TypeOK`, `KeepsNewest` and `FailedIsOver` are invariants
and that `InOrder` holds of every step. The inductive invariant is the
conjunction of the three: `KeepsNewest` says that the queue is the uninterrupted
run of the newest reports, which gives the order in which `HandOut` takes them; it
needs the types, and `FailedIsOver` needs that nothing is queued after the end.
The lemma about `Newest` is the one fact about sequences. The assumption is a
hypothesis of each theorem.

It proves `QueuesReports`, that the readers of libusb and macOS
implement ReportQueue, and `ReadsOrdered`, for any number of reports and any
limit of a queue or ring. `LibusbInv` says when a callback may still run and a
transfer be in flight: never once the transfer was cancelled or its thread has
ended, hence no report after the end of a device. `MacInv` says how many have come
to each barrier by where the thread and the caller are (`MacStarts`, `MacEnds`): if
one is behind it and the other has not come, one is counted and nobody waits, which
is a wait left for nothing (`WentAlone`). It also says that the flags are set
only when no report can come. That macOS hands out everything before a read fails
is not proved, since it is not so. Each step of a thread then is a step of the queue or none.
`WinInv` is about the buffer an overlapped read leaves behind: what is handed out
is older than what lies in the buffer, and that than what the kernel keeps, and
of each report that arrived it is known where it is. Here there is one device;
DevicesProofs has any number of them.

`CallsProofs` proves the other four safety properties of `calls`.

* `OneDeviceActs`, for every number of devices and rounds: `OperationsInv` says
  that whoever answered last is what `buf` and `len` name (`Answered`), that no
  live device was passed over before somebody answered (`Fresh`), and which
  devices are still to be asked after one rejected the key handle (`Last`).
  These variables live across the rounds, so the returned code has to fit
  answers of earlier ones.
* `Balanced`, for texts of any length and buffers of any size in which the longest
  answer of a device, encoded, fits (`SizeAssumption`), as it does in the code:
  `BuildAt(n)` says what the first n calls of an operation have left, so that
  the early returns of each meet only objects made before; `Held` says who owns
  the strings already made, at each place inside a call. What was decoded or
  encoded is as long as `Written` and `Encoded` make it; the place where more was
  written than there was room for is only reached with one of the two long texts.
* `AnswersMatch`, for one program, and any number of calls, windows and sizes: an
  answer is taken only for the call it answers, although the device answers late
  and a queue drops its oldest. `TransportInv` says that frames are numbered and
  come in order; that none is newer than the call it answers; that a call is
  answered at most once, so a channel given out is one nobody has used; that on
  the channel of a program that is ready there is nothing but its own call; that
  on one that is suspect, for a late answer, no ping is on its way but the one
  it waits for; and that what was collected is the first frames of one answer. The
  assumptions say that an answer to INIT fits one frame (`InitData` is at least
  17), and that the first window is no longer than the longest (`HidTimeout <=
  MaxTimeout`), as in the code.
* `Delivered`, for fields of any width, any counts as long as the helper does not
  take more than the extension writes, any requests (a length above 15 times
  `Modulus` has five digits and is outside), however the pipe divides the stream:
  the helper runs what was asked in ASCII, has room for every text, and takes too many
  challenges for the end. `WInv` says which place of the stream the reader has
  reached, so that what it has, what the pipe holds and what is not yet written
  are the stream from there on (`WPosition`), which for texts that are not ASCII
  goes on past what the lengths say; that the lengths read are those of
  the request in the digits of a field (`WLengths`); that the size is a sum of
  lengths (`WSize`) and a pointer another (`WStarts`); and that what was read is in
  its place, up to the last zero (`WChars`). Where a text begins in the stream is
  a sum over the texts before it: the sums are a recursive function, known by
  induction over least counterexamples.

The assumptions of these two modules are `CallsAssumption`, which TLC evaluates
in `calls`.

`DevicesProofs` proves the properties of `devices`, for any number of devices,
paths, programs, reports, bytes and steps, and any kinds of device.
`OnlyPart` and `OnlyInit` reduce each to the part that runs.

* `EntriesOwned` and `ResultFits`, for finitely or infinitely many plugs and calls:
  `DevsInv` adds that a path has one live entry (`Unique`, from which the
  cardinality follows), what each step of a discovery knows of the entry it works
  on (`Located`: the entry about to be dropped is the last, live one), and
  `FoundSoFar`: once a device has answered, a device visited before the present one
  is live, and until then every live entry is still to be visited, is the present
  one, or was not listed. The last of these turns into `ResultFits` at the sweep,
  which closes exactly what was not listed. The counting of handles uses the
  library's theorems on finite sets.
* `ChannelsApart` comes from TransportProofs, instantiated: Transport inside
  Devices takes the steps of Transport (`SameExchanges`).
* `NoUseAfterFree` and `QueuesReports`: `Stops` says of each device that a
  cancelled transfer stays idle, so that nothing arrives any more, that its thread
  does not end before, and that it is freed only after its thread ended. The
  thread of one device may run the callback of another, so the steps are stated
  for the device whose callback it is, and the others keep what they have.
* `DescriptorExact`: the items of a descriptor are the smallest set of offsets
  closed under "behind an item"; `Walked` says that the walk has been at each of
  them up to where it is (`NextItem`: none lies between an item and the next),
  and `Known` that the page and usage it remembers are those of the last items
  passed, in devs.c and in libusb's walk. (Of the latter the property says less,
  since its comment says otherwise, see `FirstFound`.) That both are found at the later of the two first items needs least
  elements (`Least`, by the well-foundedness of `<`).
* `ListExact`, `OpensWanted`, `NothingLeft` and `TypeOK` have one invariant per
  backend, made alike: where it is; what it holds there, as a set or count; what is
  in the list, compared with the devices already passed; and what is known of the
  device chosen. `WinInv` adds the query and detail held in one turn of the loop, and that
  nothing is listed unless the loop over the set of devices has found a driver
  (`SetHasDriver`), from which both halves of what `ListExact` says of drivers
  follow.
  `UsbInv` counts, for `ListExact`, the entries made of a device by the altsettings
  seen (`UsbCounted`), with the library's theorems on finite sets. `HidInv` is about a list of pointers:
  `HidLinked` says that following `next` from `root` gives the entries, each
  once and ending in 0, and that `cur` and `prev` are the last and the one before
  it. The entries are read off by a recursive function, which is known to be
  the list by induction over the set of steps for which it agrees (`Induct`).
  It is by this that an entry without a USB parent, which is taken off again,
  leaves the entries before it linked.

`OpensWantedAlways` and `NothingLeftAlways` are about states with `OneSetting`: no
interface has two altsettings of class HID. `hid_open_path` goes on after
it has opened one and then fails to claim the second, as the table above says of
`NullOpensNothing`; the kinds of MCDevices have none such. The other theorems about
Devices have no hypothesis. The assumptions on the constants are
`DevicesAssumption`, which TLC evaluates in `devices`.

Only model-checked:

* All liveness: under fairness it is out of the prover's reach.
* `AsGrammar` of `json`: JsonGrammar is recursion over the text, with operators that
  are RECURSIVE, so what it accepts is known for the texts of the run only.

## Not modelled

* Which URLs match (`url2str`, `getTLDPlusOne`): a free choice of the model.
* The contents of messages: APDUs, keys, hashes and the signature
  counter. `sha256.c` is a function of bytes, and so are `cencode.c` and `cdecode.c`,
  of which only the lengths are modelled. What follows once a buffer was overrun.
* The action that follows one that was not in ASCII, of which the helper left bytes
  in the pipe. That read() is interrupted: the only signal ends the helper.
* Writing JSON (`json_object_to_json_string_ext`), the conversion of numbers,
  `arraylist.c` and `printbuf.c`: strings put together, without control of their
  own. Comments with two stars in a row, which the parser does not find to end
  (`json_tokener.c:474`), and surrogate pairs divided between two pieces are not
  among the texts.
* `hid_enumerate` of macOS, the reading of strings from devices, and the errors
  of Windows as texts.
* A device whose uevent cannot be read makes `strdup` fail on NULL
  (`hid-linux-hidraw.c:445`), and one without a serial number does so to
  `hid_open` on Windows (`hid-win.c:526`): both are the state "crashed" of their
  modules, from which nothing follows.
* The SDK, udev, libusb, IOKit and Windows are external. Assumed: `exit` comes
  after all `data`; a message to a page that is gone is dropped; a call on an
  absent device fails; a cancelled transfer completes.
* The log viewer, error texts, build files.

## The plan

1. *Done*: the content script with its proofs, validation, helper, chrome process,
   device table; the transport, the operations and their JSON, the wire format;
   hidapi's lists, handles, threads and queues with the proofs about the queue;
   json-c's parser and table.
2. **System**: ContentScript and Session composed over the port, with
   `ChromeAnswers` replaced by what Session emits and the refinement shown; Devs
   and Operations composed, so that a live device is shown to be there when
   `len` is first read.
3. **MacDevice**: `hid_enumerate` and `hid_open_path` of `hid-mac.c`.
4. Proofs: *done* for all safety properties of the runs but `AsGrammar`.
