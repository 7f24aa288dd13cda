# kiwiengine in TLA+

kiwiengine is a wiki engine: one Qt process that is an HTTP server, keeps its pages in an SQL
database, and renders wiki-text (with HTML and BBCode mixed in) to HTML. It can run as a
service that its own program controls. This directory models the parts of it that have
behaviour: TLC checks the models on small instances, and TLAPS proves what matters most for
all of them.

The paths below are those of the repository. What counts as the program is what
`src/kiwi.pro` builds; `src/qhttp`, `src/util/mediawikiparser.cpp`, `src/util/old`,
`src/service/qtservice_win.cpp` and the parts of `src/soloutils` within `#if 0` are not built.

| modules | what they model |
|---|---|
| `EventQueue`, `HttpServer`, `ConnectionContract` | the request loop, and what it promises for a connection |
| `HttpHeader` | what is read of a request |
| `Service` | the processes of the service, and who reaches it |
| `CommandChannel` | the bytes of its commands |
| `ParserMode`, `Transclusion` | the modes of the parser, and its recursion into other pages |
| `Element`, `CodeGenerator` | the path of open elements, and what lines, lists, tables and tags do to it |
| `Toc`, `Image`, `Markup`, `TagReader` | algorithms of the renderer: contents, sizes, matches ahead, tags |
| `Sandbox` | scripts: memory, modules, calls |
| `*_proofs`, `NumberFacts` | theorems, for all values of the constants |
| `MC*.tla`, `MC*.cfg` | the instances for TLC |

`PROJECT.json` has which definition stands for which lines, the runs, the mutants, the hazards
and the theorems.

## Inventory

| component | state | operations | meets | hard about it | what makes it correct |
|---|---|---|---|---|---|
| HTTP server (`httpio/http_server`, `request_template.h`) | sockets, `m_paused`; on the call stack, the requests under way | `incomingConnection`, `readClient`, `discardClient`, `pause`, `resume` | posts an event per request, runs the event loop until it is answered | handlers of all connections nest in each other; the socket is used after the nested loop; two functions delete it | one answer per connection; no event for a socket that is gone; one delete; nobody is cut off by another; requests are answered |
| relay and event filters (`netresponse`) | none between events | `requestFilter` of relay, article, file, download | turns one event into another and waits for that too | second level of nesting; answers go to a bare pointer | as above |
| download request (`netresponse/download`) | size, time stamp, name | `img_sz`, `setData`, `requestFilter` | file cache, database | which part of a path is what | each part of the path is used once |
| HTTP header (`httpio/http_header`) | method, path, header lines, arguments | `read`, `setArguments`, `parseLine` | `readClient` | partial input | what is written is read |
| service daemon (`main.cpp`, `httpio/http_daemon`) | server object, the event loop's state | `start`, `stop`, `pause`, `resume`, `processCommand` | control channel, HTTP server | the port may be taken | one daemon serves, the others leave |
| control channel (`service`) | the file name of the local socket, the TCP port, the settings, the line cache per socket | controller commands, detached start, `setPath`, `close`, `slotReady`, `slotClosed` | processes of the same program, through the file system | processes start, end and are killed at any time | who serves is reached; nobody waits for ever; nothing is left behind |
| parser modes (`parse/parser_mode`) | a stack of modes | `operator=`, `operator==`, `wikicode`, `bbcode`, `reset` | one object for all nested calls of the parser | what one page opens another closes | the stack holds what is open |
| code generator (`htmlgen/code`) | modes, table depth, categories, table of contents, editor; per call: stream, tag, list | `parse`, `lookup`, `setTitle`, `reinit`, `finish` | all of the renderer; the database for each transclusion | recursion over user text, exceptions through it | it ends; calls do not disturb each other; tables, lists and headings balance |
| element cursor (`htmlgen/element`) | a DOM node, the stack of tag names above it, a text buffer | `becomeChild`, `becomeParent`, the table builder | code generator | closing tags that match nothing | path and stack agree; the cursor stays within the content |
| streams (`parse/char_stream`, `container_stream`) | position, relative peek | moves, comparisons, `readTag` | code generator, image | one past the end | position within the data |
| tag tables (`parse/allowed_tags`) | none | `dealias`, `closeTag`, numerals | code generator, element cursor | lists and tables of BBCode | only what was opened is closed |
| table of contents, editor, page (`htmlgen/toc`, `wikieditor`, `page`) | headings with depth; section | `append`, `render`, `extractSection` | code generator | off-by-one in the depth | lists nest as the headings do |
| image markup (`htmlgen/module/image`) | options, sizes | constructor, `render` | file database | divisions | sizes in proportion, options independent of order |
| encoding (`htmlgen/encode`) | none | `encoder`, `decoder` | all that handles titles | two spellings of a title | equal titles compare equal |
| Lua sandbox (`htmlgen/lua_sandbox`) | memory counter, interpreter | `require`, `execScript`, `run` | templates (unreachable: every renderer is native) | limits | the counter is what is allocated |
| database access (`util/dbinterface`, `wikidbinterface`, `queries`) | connection, current query | `setQuery`, `run`, `fastQuery` | everybody | failure in mid-request | a failure ends the process in order |
| file cache (`util/filecache`) | files by version | `get`, `set`, `remove` | file response | stale entries | what is cached is what is stored |

`util/dombuilder` is linked in and called by nothing; `htmlgen/user_controls.cpp`,
`htmlgen/module/module.cpp` and `template.cpp` have no code; `soloutils` is typedefs.
`PROJECT.json` has the status of every component, and the hazards at their lines.

## The models

### HTTP request loop: EventQueue, HttpServer, ConnectionContract

Everything runs in one thread, and yet requests overlap: `readClient()` posts an event for its
request and calls `QCoreApplication::processEvents`, and the relay does the same for the event
that it posts in turn. In there, `readClient()` of other connections run, clients hang up, and
deferred deletes are executed. `HttpServer` has that call stack as a variable, one frame per
event loop, and below it the posted events (`EventQueue`), the sockets and the clients.

| in the model | in the code |
|---|---|
| `stack`, frames of kind `exec`, `readClient`, `relay` | the event loops that are running, innermost last |
| `posted`, `mark` | Qt's list of posted events, and how far the running `sendPostedEvents` goes |
| `conn`, `unsent` | state of the `QTcpSocket`, and whether it has output to flush |
| `readClient`, `ReadClientReturns` | the function up to its event loop, and what comes after it |
| `RelayRequest`, `RelayBare`, `RelayReturns` | the same for `CResponseRelay::requestFilter` |
| `RespondArticle`, `RespondFile`, `RespondDownload`, `RespondUnfound` | the event filters |
| `discardClient`, `incomingConnection`, `SetPaused` | the other slots |
| `Connect`, `Send`, `HangUp`, `Stall` | clients; the last stops reading what it is sent, or goes on |

The input is a member of `AllAsks`: one name per way that the code tells requests apart.

`ConnectionContract` is what the server promises for each connection by itself: it waits, is
accepted or refused, is answered at most once and only while it is open, is shut, and is freed
once. `HttpServer` implements it under the mapping `Phase`, `Answered`.

Of Qt this is assumed, as its sources have it: `sendPostedEvents` sends what was posted before
it, or a pass nested in it, started; a request goes before the deferred deletes beyond that
mark; a deferred delete is executed only by a loop that is further out than the level it was
posted at, and is posted again otherwise; `readyRead` is not emitted while its slot runs;
`close()` with unsent output leaves the socket closing until it is flushed; an event filter of
the application is called once per event; writing to an unconnected socket does nothing.

Fairness: `WF(Thread)`, the one thread of the server is not descheduled for good. Nothing is
assumed of clients: they may send nothing, hang up (`Impatient`), or leave unread what they are sent
(`Stalling`), so that the socket cannot be flushed. Such a socket stays in its closing state
(`http_server.cpp:226`), as nothing in the server times out, and `EverySocketDeleted` leaves it that.

### Service: Service

Every run of the program is a process. It passes `main()` (`gate`: is a service running?), then
`exec()`, which runs a command, installs, runs in the foreground (`-e`) or, without an argument,
detaches a new process that sets up the local socket, starts `CHttpDaemon` and runs its event
loop. The processes share the file name of the local socket (`path`), the TCP port (`port`)
and the settings (`installed`); killing one leaves its file name behind.

| in the model | in the code |
|---|---|
| `gate`, `exec`, `startDetached`, `Leave` | `main()`, `QtServiceBase::exec`, `QtServiceBasePrivate::start` and `run` |
| `sendCmd`, `Disconnected`, `Answered`, `slotReady` | the controller's side and the service's side of a command |
| `sysSetPath`, `bindSocket`, `removePath` | `QtUnixServerSocket::setPath` and `close`, the removal and the bind apart |
| `start`, `quit`, `sysCleanup` | `CHttpDaemon::start`, the two ways to end the event loop, the clean-up |
| `Run`, `Die` | a user, the operating system |

`Overlap` says whether a user runs the program while a process of it is on its way up or down.

Fairness is that of each process (weak, per process): the operating system schedules all of
them, and a connection to a process that ends is closed. Users owe nothing. `Processes` bounds
how many processes there ever are; `Run` leaves unused enough for those that must still detach.

### The command channel: CommandChannel

`Service` has a command and its answer in one step each. On the wire they are bytes, which arrive
in whatever pieces they like. `slotReady()` puts what there is into `cache`, a map from the address
of a socket to text, and takes one line after the other out of it; `slotClosed()` leaves the
cache as it is, and the next socket that is allocated at that address inherits the rest of a line.

| in the model | in `service/qtservice_unix.cpp` |
|---|---|
| `connect` | `incomingConnection()`, with an address that no socket has that is not yet deleted |
| `send`, `hangUp` | clients: `sendCmd()`, and any that cut a line short |
| `slotReady`, `command`, `slotReturns` | the slot up to its loop, one turn of the loop, its end; an empty line ends it as well |
| `TakeLine`, `Ends`, `Line` | `getCommand()` |
| `Accepted` | the commands that are known: "terminate", which `stop()` of the controller sends, is not one |
| `slotClosed`, `deleted` | the slot, and the deferred delete, which frees the address |
| `loopEnds` | `quit()` has taken effect |
| `rest`, `got`, `taken` | history, for the properties |

Text is cut between the pieces of a word and within the end of a line, not anywhere. Fairness is
weak for `slotReady` of each client, `command` and `slotReturns`, which the event loop owes every
socket; and for `send`, without which nothing is to be answered. `EveryLineAnswered` is about
clients that stay connected, at an address that nobody has left the rest of a line at.

### Modes and transclusion: ParserMode, Transclusion

`CCodeGenerator::parse()` walks through the text of a page. For `{{:Name}}` it looks up the
text of that page and calls itself. The calls have a stream each, and share two things: the
`lineage`, a stack of names that keeps a page from being parsed within itself, and `m_mode`, the
stack of modes that tags open and close, by which `<noinclude>`, `<includeonly>`, `<nowiki>` and
the raw texts work.

| in the model | in the code |
|---|---|
| `frames` (page, position, `checked`) | the nested calls of `parse()`; `checked` within one turn of the loop, past the test for what is left out |
| `text`, a sequence of items | the stream; an item is a link `{{:...}}`, or a tag that opens or closes a mode |
| `leaveOut` | lines 205-223: the search for `</noinclude>` in an embedded page, for `</includeonly>` in the page itself |
| `readTag`, `readRaw` | the assignment to the mode in `readTag()`, and its complaint |
| `skipLink`, `transclude`, `embeddedReturns` | lines 997-1010, and the rewind of a tag that is text |
| `Init`, `finish` | `parse(title, args)`, the page's end |
| `outcome` | rendered, or left by a complaint ("aborted"), a read beyond a list or a query's result ("undefined"), a full stack ("overflow") |

A name is a page and one of two spellings: that of `encoder()`, or another. `Plain` are the
titles that have one only. `ParserMode` is the class `CParserMode`, with all its modes. What
wiki-text does at the start of a line, and the elements that are made, are not in this module;
of the modes, the tags of its instances open and close four.

Fairness: `WF(Next)`, the thread that renders runs on.

### What a page is made of: Element, CodeGenerator

`CElement` is a cursor in a tree, and `parse()` moves it: a tag or the start of a line opens and
closes elements, by name, by position, or blindly. A line, a list, a table and a tag of HTML or
BBCode each have their own idea of what is open: the cursor, the list of marks `current_list`,
the stack of modes, the attribute `tagtype`. Whether they agree after any sequence of lines is what
this model is about.

`Element` has the operations of the cursor on the path of open elements; the empty path stands for
what there is no way back from (a failed assertion, a stack taken from when empty). In
`CodeGenerator` a text is a sequence of items: starts of lines by what they ask for, lists by
their marks, tags, links, embedded pages, the cell separators, text.

| in the model | in `htmlgen/code.cpp` |
|---|---|
| `frames` (page, place, `list`) | the nested calls of `parse()`, each with its stream and its `current_list` |
| `path`, `mode` | the cursor, and `m_mode`: shared by all calls |
| `from`, `modes`, `line` of a frame | history, for the properties |
| `listLine`, `indentLine`, `blankLine`, `headerLine`, `openTable`, `tableLine`, `plainLine`, `ruleLine` (also for a "sign": `=`, `{` or `-` that begins none of these, or a page to embed) | the branches for the first characters of a line, each with what it does ahead of it to lists, indentation and paragraphs (`Ended`, `LineModes`, `LinePath`, `EndLists`) |
| `rawLine` | a line where wiki-code is off |
| `openHtml`, `closeHtml`, `openBB`, `closeBB` | the branches for tags; `closeBB` with `closeTag()` of `allowed_tags` |
| `readCss`, `readRaw` | a style sheet, and a tag in a raw text, whose complaint reads a list at a hash |
| `inlineCell`, `readText`, `readLink` | `|`, `||`, `!!`; text; links |
| `embed`, `embeddedReturns`, `skipEmbed` | a page within the page |

What is written into an element, its attributes other than `tagtype`, and categories are data
that no other step looks at. `includeonly` and `noinclude` are in `Transclusion`.

### Scripts: Sandbox

A `CLuaSandbox` is made for one call of a script and has a Lua state of its own, but
`alloc_for_lua()` counts the memory of all of them in one static int, and asserts that the count
is below the limit. Lua passes the type of an object for the old size of a new block, so that the
count sinks by that with every object that is ever made.

| in the model | in `htmlgen/lua_sandbox.cpp` |
|---|---|
| `alloc_for_lua`, `Count`, `Fits`, `Asserted` | the allocator: count in an int of `2 * Half` values, assertion |
| `open`, `close` | constructor and destructor, with `lua_newstate` and `lua_close` |
| `run`, `returned`, `callFunction` | `run()`: the script, what its chunk leaves on the stack, the call of the function |
| `requireLoaded`, `require`, `requireTooDeep`, `requireReturns` | `db_ll_require()`, from the look-up in `_LOADED` to what is stored there |
| `IsLoaded` | `lua_toboolean()` of what is stored: a module that returned false is not loaded |
| `newObject`, `growBlock`, `collect`, `goRound` | Lua at work, the last a loop (external) |
| `used`, `drift`, `ran` | history, for the properties |

A chunk is a sequence of steps, which may end in going back to the first, and what it returns; the function
that is called is one step. A chunk that loops may do so for ever: the 500 ms of `execScript()`
(227) hold only for a sandbox whose parent is the application, and the only caller gives it none
(`code.cpp:986`). `ScriptsEnd` is therefore about scripts whose modules do not loop: the chains and circles
of `require` end. `LoadedOnce` is about modules that do not return false, which are run
again at every `require`. The sizes are small numbers; that a type tag
is less than the size of an object is what matters. Fairness: `WF(Next)`, the thread that
renders runs on. As the code stands no page reaches the sandbox (every renderer is native);
the model has it as it would be called.

### Algorithms: HttpHeader, Toc, Image, Markup, TagReader

Functions that keep nothing between calls, as operators; `MCAlgorithms` calls each once with every
input up to a bound and compares the result with a definition of what it should be.

| module | the code | compared with |
|---|---|---|
| `HttpHeader` | `CHttpHeader::read`: first line, fields, and the parts of a form, of the pieces that have arrived | the values of the parts that are complete |
| `Toc` | `CTocGenerator::render`: levels, numbers, lists | numbers and lists by counting |
| `Image` | the sizes in `CImageModule::CImageModule`, for ints up to `MaxInt` | proportions, where a product is an int and nothing is divided by 0; a size may round to 0 |
| `Markup` | `find_match`, `replace_match`, `in_table_cell_style`, `extractSection`, the header in `parse()` | lines and sections |
| `TagReader` | `CContainerStream::readTag` with its seven kinds of brackets, and `CCharStream` | the first brackets that close a tag, and names within it |

What such a function reads beyond its data, or in a variable without a value, is an input with
more than one choice (`behind`, `m_end`).

## What is checked

| run | instance | states | shows |
|---|---|---|---|
| `http_nesting` | 3 clients, 1 may hang up; a page, a style sheet, an icon, the page of a file, a fragment; pauses, a database that may fail; symmetric in the other two | 3 046 000 | `TypeOK`, `RequestsNameConnectedSockets`, `DeletedOnce`, `StaleOnlyAfterHangUp`, `AtMostOneAnswer`, `ClosedByItsOwnHandler`, while three handlers nest |
| `http_progress` | 2 clients with 2 requests each on one connection; what is garbled, bare, downloaded; one may stop reading; fair | 374 000 | `ImplementsContract` (refinement), `EveryRequestAnswered`, `EverySocketDeleted` |
| `service_recovery` | 5 processes, no overlap, killed at any time, failing queries | 136 000 | `ServiceReachable` |
| `service_progress` | 4 processes, overlapping, fair | 32 000 | `LosersLeave`, `LaunchServes`, `NobodyWaitsForever` |
| `channel` | 2 clients, 2 addresses, 5 things to send, fair | 188 000 | `TypeOK`, `NothingIsLost`, `AnsweredByLine`, `EveryLineAnswered` |
| `transclusion` | a page of up to 3 items, one of up to 2, and a missing one; all plain titles; fair | 402 000 | `LineageIsCallStack`, `CircularStops`, `ModesAreOpenTags`, `RenderingEnds` |
| `generator` | up to 3 lines of 16 kinds, also in a table; up to 4 tags on a line, or 2 of 25 in a line, a list or a table, and a line behind; tables by tags, in tables, with captions; links in tags; one page in another, also in lists and tables made of tags | 203 000 | `ContentIsKept`, `TypeOK`, `TagsLeaveNoTrace`, `ListAgrees`, `OpenTableGoesOn`, `EmbeddedLeavesNoTrace`, `HeaderKeepsParts` |
| `scripts` | 2 modules that may fail, loop, or return false or nothing, 4 calls of scripts, 4 levels of `require`, fair | 75 000 | `TypeOK`, `CountDrifts`, `LimitLoosens`, `LoadedOnce`, `ScriptsEnd` |
| `algorithms` | pages of up to 6 headers; sizes up to 7; texts of 7 or 8 and tags of 5 to 8 characters; forms of up to 2 parts, cut anywhere | 147 000 | `ContentsInOrder`, `KeepsProportions`, `HeaderTakesItsLine`, `StyleStandsAlone`, `TagIsWhole`, `FormIsRead` |

The bounds, and why they are enough. Three clients are what it takes for a socket to be deleted
under its own `readClient()`: its own frame, the one in whose nested pass it is discarded, and
one more level for the pass that may execute the delete; a fourth repeats the second. One
request per connection suffices there because a connection is closed after its answer;
`http_progress` has two, for what happens to a second one. Of the processes of the service, two
meet and detach a third and a fourth, and a fifth comes after one was killed. Two clients of the
command channel are one that leaves the rest of a line and one that inherits it. A page with three
items is the least that has a link within a pair of tags; two pages make a circle, and a third
that is missing the case that `lookup()` does not ask about. In `transclusion`, `MaxDepth` = 3
leaves room for one call more than there are pages with a text, so that an overflow can only
come from a circle. Three lines are one that opens, one that goes on and one that ends; what a
table does to them is seen in one that is open already. Four tags are two pairs, nested or
crossed. `Half` = 16 is small enough for the count of `scripts` to sink through the range of its
int within four calls, and `Limit` = 8 for a script to meet the limit. Six headers can climb and
fall by several levels, twice.

What the properties of `generator` leave out is said by `Tidy`, `Contained` and `TablesInOrder`: texts
whose tags do not match, and the tags and lines that are known to leave a trace even in order
("Observations"). `TypeOK`, `OpenTableGoesOn` and `HeaderKeepsParts` hold without that.
`HeaderKeepsParts` lets a header close the text of an indented line before it, and the tables within
that text: `LinePath` climbs to the `pre` from wherever the cursor is. That was found by the proof;
the instance now has texts in which it happens, as for the other traces that were first seen as proof
obligations that could not be met (tables in tables, links in code, pages in lists made of tags).
`TablesInOrder` leaves out a bar in a row while a list is on (`ListOn`). That was found while preparing the
proof of `ContentIsKept`, with a text of seven items, beyond the run's three lines ("Observations",
"Lines"). With it, a model that grows its text item by item, not part of the project, has met no other
text that leaves the content, in all texts of up to nine items of the lines, lists, bars and some of the tags.

Three checks are refuted, each of a statement that the repository makes. The runs show the shortest
way there.

| run | the code | the statement |
|---|---|---|
| `service_overlap` | of two starts that overlap, the one that loses the port has removed the other's file name (`qtunixserversocket.cpp:73` and its `close()`); the winner serves and cannot be commanded | "the service continues in its own process waiting for commands from the service controller" (`qtservice.cpp:581`) |
| `transclusion_spelling` | the circularity test compares the name as written with encoded names (`code.cpp:1004`, 1006) | "circular transclusion!" (`code.cpp:1004`) |
| `quotes` | the place of the first tag is that of the last opening sign, and the second replacement is made at a place that the first has moved (`code.cpp:538`, `code.h:47-54`) | "convert these into html tags then return to start of loop" (`code.cpp:536`) |

`CHECK_DEADLOCK FALSE` stands where the system may stop: processes that are over, clients that have
no more to send, a page that is rendered, a call that has returned. The HTTP runs check for deadlock.

Every property of a passing run has a mutant in `PROJECT.json`: a plausible mistake in the code,
written as a variant next to the definition that it replaces (`ListPathHalf`,
`ReadClientReturnsStale`, ...), under which the run fails. The variants are used by nothing else.

## What is proved

TLAPS checks all of these for any values of the constants, from the named assumptions on them
(finite sets of clients, processes and pages; the bounds positive numbers). Of the invariants and
action properties of the runs it leaves one, `ContentIsKept`; see the end of this section.

**HttpServer_proofs.** `Invariance`: `Spec => []IInv`. The properties alone are not inductive:
that no socket is answered twice depends on which events are posted, and that on the nesting.
The core of `IInv` is `QueueOK`: there is never more than one request in the queue, always
within the mark of the running pass, and its socket is connected, unanswered and in a running
`readClient()`. Whoever posts a request sends it before a socket is polled, so nothing happens to
the socket in between. From it follow `TypeCorrect`, `OneAnswer`, `RequestsSafe`,
`OneDelete`, `StaleBounded`, the action property `ClosedByOwner`, and `Refinement`: every step
of the server is one of `ConnectionContract`, or changes nothing there.

**Service_proofs.** `Invariance`: the file name leads to a process that owns it and will remove
it (or was killed), the port is held by a running loop, and only detached processes have a
socket, for any number of processes in any order. `PathOwned` is its first part.
`SequentialReach`: under `~Overlap`, `Spec => []ServiceReachable`. `ReachIInv` is its
strengthening: one process at a time is on its way (`OneAtATime`), it has met no other service
(`NoOtherService`), and between the removal of the file name and the bind nobody has it
(`NameFree`). Without the hypothesis the run `service_overlap` refutes it.

**Transclusion_proofs.** `Invariance`: types, and `LineageIsCallStack`. `CircularFound`: if every
link is spelled as `encoder()` would, and the stack has room for one call more than there are
pages, no texts whatsoever overflow it. The strengthening is `CallsDiffer`: beyond the first,
whose title is decoded and so may be spelled differently, no two calls are for the same page;
then more calls than pages contradict the pigeonhole principle. Without the hypothesis on
the spelling, `transclusion_spelling` refutes it. `StackIsShared` (`ModesAreOpenTags`): for pages whose
tags are in order, nothing complains, and the one stack of modes is what the calls have opened and not closed,
the outermost first. The strengthening, `Shares`, says what a call that waits has not open: what it would
leave out (`LeftOutBy`), and a raw text, in which a page below it would not be embedded. The hard
step is `leaveOut`, which jumps: the closing tag it finds is the one that belongs to the opening tag
(`ClosedBehind`), since a well-formed page never opens a mode twice (`OpenOnce`) and what is open stays below
all that is opened later (`StaysBelow`).

**CommandChannel_proofs.** For any clients, addresses and streams: `TypeCorrect`, with which no two
connected clients share an address, and `ReadIsKeptOrTaken` (`NothingIsLost`): what was taken and
what is kept are what the address had and what was read, in order. The second needs the first, and
that nothing has been taken of who has not connected (`Fresh`); cutting a line off is a fact about
sequences. `AnswersAreByLine` (`AnsweredByLine`): the answers of a client with a fresh address are
those to the lines it has sent, in their order. Its
invariant, `AnswersOK`, adds that what was taken is whole lines (`Cut`), that the answers are its replies,
and that what is kept has no end of a line left while the client is not being served, unless it has sent
an empty line, at which the slot stops. That replies to whole lines stay the same whatever follows them
(`CutReplies`), and grow by one with one line more (`OneMoreLine`), are inductions over the recursive function.

**CodeGenerator_proofs.** For any pages and texts, however untidy: `TypeCorrect`, and `TablesGoOn`
(`OpenTableGoesOn`): if no tag has the name of a table, there are never more tables open than
modes of wiki tables. `Inv` is the two together. Most steps give a path without a new table
(`From`) and keep the modes of tables (`Keeps`); `openTable` adds one of each, and `plainLine` takes
one of each. It is an inequality, as headers, lists and `closetable` leave modes open whose tables
are gone. `HeadersKeepParts` (`HeaderKeepsParts`) is an action property: what the lists of the line before
(`EndListsCloses`), the climb to a part of a table (`HeaderPathCloses`) and the end of an indented line
(`LinePathCloses`) each close is no part of a table and no preformatted text, but for that of the indented
line and what is in it.

`TagsLeaveNone` (`TagsLeaveNoTrace`): whatever tags the lines of a tidy text open, where all are closed the
cursor is where the line began, or in the paragraph that it has begun. `TraceInv` says of every text read so far in order that
its open tags (`Stack`, the fold `OpenTags` of the model over what was read) are `Followed`: they form a chain
(`Chain`) with the modes they have opened (`Moded`, by `ModeSteps`) and with the paths within which the
cursor is (`Traced`, by `PathSteps`). A tag stands for one element, for two in a list of BBCode, for a row or
not, or for a paragraph begun (`Within`). Opening a tag adds a link to the chain and closing the last one
takes it off (`ChainPush`, `ChainPop`, `ChainReplace`), so that with no tag open the chain has one end only. With it
go that modes of lines stand on wiki-code (`OnWiki`) and that a call that waits has met an embedded page
(`OuterEmbeds`).

`ListsAgree` (`ListAgrees`) and `EmbeddedLeaveNone` (`EmbeddedLeavesNoTrace`) need an anchor for that chain that
stays while lines pass. `ListInv` adds it: the cursor is within the open tags (`Traced`), these are on what the
marks of the list have opened (`OnList`), and that is on a base. On the page itself (`PageInv`) the base has no
element of a list (`Listless`), and the modes are those of tables with at most one line on top (`PageModes`), as long as nothing
is indented or embedded; in a page that is `Contained` (`EmbeddedInv`) it is the cursor that the page was met with, or
the paragraph begun there (`Wider`), the modes are those it was met with, and the list is that of a line with
no line of text behind it (`ListedAt`). A line of a list exchanges, closes and opens elements so that
those of its own marks are open (`ListGoesOn`). Any other line is back at the base (`EndListsBack`): it closes one turn for each mark, and
those are counted, by an injection, to be all elements of the list and none of the base, as the turn
that would close more of it would be one too many (`TurnsOfList`).

**Sandbox_proofs.** For any modules, programs, limit and width of the int: `TypeCorrect`,
`CountIsUsed` and `LimitHolds` from one invariant, `MemoryInv`: types, that the chunks that run are
stacked on the script (`Stacked`), that an open sandbox has its thread (`Space`), and the two
properties; the arithmetic of the int is a lemma of its own. `ModulesRunOnce` (`LoadedOnce`) from
another, `OnceInv`: with ranks that fall along `require`, each chunk on the stack has a lower rank
than the one below it, and what has begun, and does not return false, is on the stack or loaded (`Begun`).

**Algorithms_proofs.** For texts of any length, images of any size and any number of headers:
`ProportionsKept`, `StylesStandAlone`, `HeadersTakeTheirLines`, `TagsAreWhole`, `ContentsAreInOrder` and
`FormsAreRead`, each of the property of `algorithms` that it names. `Invariance` is what they share: what is returned is a
result for the input. The functions of the code that go on from place to place are recursive
functions here; of each an equation is proved first (`AttributesEquation`, `RenderEquation`, ...), and then
what it gives. For the table of contents that is an invariant of the pass over the headers (`Leveled` in
`AtLevel` and `OneMoreHeader`): the lists and numbers that are open are one for every level down to that
of the last header, the lists no more than the greatest depth, and the count at each level is the
number of headers since the last one of a higher level. For tags it is that no reader moves beyond the text
and that none passes the closing brackets (`Clear`, `Moves`). For forms (`FormIsRead`) it is an induction over
the parts that have arrived with the marker behind them: what has been read is the values of the parts up to
there and what is read from a place at or before that marker (`ReadTo`, `PartRead`, `OneMorePart`). Where in
the form each part is comes first (`FormIs`, `PartFields`). Of the one part that has not arrived as a whole,
`PartRead` says that it adds nothing or an empty value.

**NumberFacts.** The least and the greatest of a set of numbers, by well-founded induction in the form
that needs no operator as a parameter; induction up to a bound, over a set of numbers (`Upwards`,
`Onwards`); and that a function given by its first value and by how each comes of the one before
exists (`Recursion`), likewise one whose value comes of that at a later place (`LinkedRecursion`). With
them a definition `f[n \in 0..N] == IF n = 0 THEN ... ELSE ... f[n - 1] ...` has its equation for
every N, and what it computes can be proved.

Only model-checked: the liveness properties (fairness and ENABLED are out of the prover's reach; so are
RECURSIVE operators, of which there are none); and of `generator`, `ContentIsKept`. It relates the path to the
tables of all lines, the indented ones, the lists and the embedded pages among them, where the two theorems on lists
leave these aside, and needs a base that is followed through all of them. It is known for the bounds of its run
only; its premise was too wide once beyond them ("What is checked").

## Observations

Seen while modelling, and what the models do; no statement of the repository is about them, or
none that a run could refute.

- **Requests.** Nothing times out: a client that does not read its answer keeps its socket. The two bounds of a request's size are joined by "and", so no size is refused,
  whatever the "hard limit of 1MB input" (`http_server.cpp:87`). A request line of two words is
  accepted if the second has one slash: `GET /index` has the protocol "" and no path
  (`http_header.cpp:15-30`). The last value of a form that has not arrived as far as its marker is
  empty (`http_header.cpp:69-73`), and a value has its line end with it. A missing page gets a
  closed connection and no status line. The relay takes the name space from behind the colon
  (`response_relay.cpp:39`); `setData()` of a download keeps neither size nor time stamp.
- **Service.** `-t` never stops a service: `main()` returns when one is running, before any
  option is read (`main.cpp`, `qtservice.cpp:570`), and `stop()` of the controller sends "terminate",
  which `slotReady()` does not know (`qtservice_unix.cpp:223`, 321). An empty line ends the turn
  and leaves the lines behind it for the next one (319). What is cached for a socket is inherited by the
  next at its address (355). `pause()` of the daemon only writes to the log, and the
  controller is told "true"; "alive" is answered "false".
- **Transclusion.** A page within a `<noinclude>` of its parent takes itself to be left out, and its
  search for the closing tag ends the whole page (`code.cpp:205-219`). A tag in a raw text makes
  `operator=` read a list of 14 strings at a hash (`parser_mode.cpp:17`). `[nobb]` is closed by
  `[/noparse]`, and `OnlyInclude` has no entry.
- **Lines.** `=Title=` loses the first letter of its title (`code.cpp:399-400`). An unclosed `=` after
  an earlier header is taken for one, as `m_end` is as the last match left it. In a line that is
  indented, a blank line ends the list without closing it (360-369). A header or blank line in a
  table without parts leaves the table, and the next part of it climbs out of the content (378-392).
  `|}` leaves the mode of its table open (466, 472). A line that begins with `=`, `{` or `-` and is no header, table or
  rule does not end such a table, as a plain line does (440-460). A table by tags in a wiki table fails an
  assertion at the next line (507-511). In a row, an indented line and then a list leave the line of the table
  open under the list; a bar behind the list's mark begins a cell and ends the list, but not its
  marks (311-315, 1062-1067), so that the next list closes the cell, the row and the table in its place and the
  next part fails an assertion.
- **Tags.** `<code>` is never closed (554, 574). In `<div>text</div>` the paragraph stays open, and
  the `div` with it. `<nowiki><b></b></nowiki>` leaves a `span` open (578), and a stray `</nowiki>` or
  `</div>` takes the cursor out of the content (580, 582). A rule, a list whose number does not fit
  and a link with two texts stay open (627-636, 747, 888-897); `[break]`, `[img]` and `[url]` mark the
  element around them (822). `<li>` in an html list fails an assertion (855).
- **Embedded pages.** The first line of one ends the line of a table and the indentation of its
  parent, and its last list stays open in it (260-272). In a list made of tags it begins a paragraph
  (274-291), in which its own list then ends.
- **Algorithms.** Without a level in between, numbers of the contents repeat (`toc.cpp`). A recorded
  width or height of 0 is divided by (`image.cpp:135-152`). A bracket in a cell hides the style
  behind it, as it is never popped (`code.cpp:40-113`). `<!-- x -->` is never read as a tag, and an
  unclosed tag at the end of a text reads one character beyond it. `respects_quotes` is used by nothing,
  and `lettersToInt` never accepts its input.
- **Scripts.** The count of memory sinks with every object, the limit loosens by as much, and when the
  int wraps the assertion ends the program. A module that returns nothing stores `_LOADED` under its own name.
  One that returns false is stored and run again at every `require`, as "already loaded" is `lua_toboolean()` of
  what is stored (`lua_sandbox.cpp:76`).
  A script that returns no table is indexed outside of all protected calls. The limit of 500 ms ("run for a max of
  500 miliseconds", 227) never applies to the only caller, whose sandbox has no parent: a script that loops
  keeps the thread of the server for ever.

## Not modelled, and why

- *File cache* (`util/filecache`): `set()` binds its values to the wrong columns, so that no look-up
  finds what it stores; what is left of its behaviour is decided by the SQL.
- *DOM builder*: linked in, and called by nothing.
- *Resources, scripts, `soloutils`, the files without code*: no behaviour.
- *Sources that are not built*: `qhttp` is a copy of a module of Qt, `mediawikiparser.cpp` the beginning
  of a translation of another program, `qtservice_win.cpp` the service of another system. They are
  more than half of all lines under `src/src`. Of those that are built about a third is mapped; the rest
  is declarations, the documentation comments of `qtservice.cpp` (most of that file), the markup
  of forms and images, and code within `#if 0`.
- *In parts*: of the relay and the download, the splitting of a path; of the database, which query
  fails, not its SQL; of images, the options and their markup; of `encode`, the escapes of
  characters; of `allowed_tags`, the numerals and the aliases of names. They are conversions
  of text without a step between them.

## Plan

What is left, in the order of what matters.

1. `CodeGenerator` with `noinclude` and `includeonly`, so that `Transclusion` is an abstraction of it
   by a refinement mapping and not a module beside it.
2. `CommandChannel` in the place of the one-step exchange of `Service`, with the same mapping.
3. `ContentIsKept` as a theorem, from the chain of `TagsLeaveNone` with an anchor for the tables of the
   lines, as that of `ListsAgree` is one for their lists.
4. The path of a request through the relay and `setData()`, and the aliases of tags.
