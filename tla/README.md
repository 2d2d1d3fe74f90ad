# A TLA+ model of pjcore

pjcore is a C++ library for JSON and protobuf with an embedded HTTP server and
client on libuv. This directory holds TLA+ modules translated from its source
(`src/src/pjcore` and `src/include/pjcore`), the TLC configurations that check
them on small instances, and proofs that the TLA+ proof system checks for every
instance. `PROJECT.json` lists the runs, which definition models which lines,
the hazards and the properties that watch them.

Everything asynchronous runs on one thread: a libuv loop calls back one function
at a time, to completion. What makes the code hard is that these functions call
*user code in the middle*: a request handler may answer inside the call that hands
it the request, an `on_response` may issue the next request or let go of the client
while the connection is half way through the loop that fails its transactions, and
objects delete themselves when their last callback has come.

## Inventory

| Part | State | Operations | How it meets the others |
|---|---|---|---|
| Server connection (`http_server_connection.cc`, `http_server_transaction.cc`) | flags `open_ reading_ closing_`, callbacks `on_closing_ on_close_`, buffer, `handle_queue_`, `write_queue_`, counter | `InitSync`, `InitAsync`, `Alloc`/`OnRead`, `OnTransactionHandleComplete`, `OnTransactionWriteComplete`, `Close`, `OnClose` | called by uv, handlers and the core; calls the handler inside `OnRead`, the core in `on_closing_`, `on_close_` |
| Server core and shell (`http_server_core.cc`, `http_server.cc`) | `shell_ open_ on_destroy_`, two lists of connections, two counters | `InitAsync`, `OnConnected`, `OnConnectionClosing`, `OnConnectionClose`, `OnShellDestroyed`, `ConsiderDestroy` | owns connections; outlives the shell until all is quiet, then deletes itself |
| Client connection (`http_client_connection.cc`, `http_client_transaction.cc`) | the same flags, `wait_queue_ write_queue_ read_queue_` | `InitSync`, `InitAsync`, `OnConnect`, `AsyncProcess`, `OnTransactionWriteComplete`, `OnRead`, `Close`, `OnClose` | runs `on_response` of the user in the middle of its loops |
| Client group, core, shell (`http_client_connection_group.cc`, `http_client_core.cc`, `http_client.cc`) | `wait_transactions_`, two lists, one `resolve_req_`, three counters | `AsyncProcess`, `OnResolve`, `OnConnectionClosing`, `OnConnectionClose`, `Close`, `OnShellDestroyed`, `ConsiderDestroy` | one group per endpoint; resolves, makes connections, fails waiting requests |
| Counters (`abstract_counter.cc`) | a number and `on_zero` | units, splitters | let the cores know when they may go |
| HTTP parser (`http_parser_plus_plus.cc`) | pending message, queues of parsed ones | eight callbacks of the vendored parser, `Read`, `NextRequest`, `NextResponse` | fed by `OnRead` of both connections |
| uv loop and future (`shared_uv_loop.cc`, `shared_future.cc`) | reference counts, `pending_count_`, contexts | `AsyncClosure`, `AsyncCallback`, `CreateClosure`, `Wait`, release | work on uv's thread pool; `Wait` nests the loop |
| JSON reader (`json_reader.cc`) | remaining text, stack of targets | one loop | sorts properties by `name_value_util.h` |
| JSON writer (`json_writer.cc`) | output, stack of sources, indentation | one loop | |
| Unicode (`unicode.cc`) | none | surrogates, UTF-8 | used by both for strings |
| Properties (`json_properties.cc`, `name_value_util.h`) | the list of an object's properties, which may hold duplicates | `SetJsonProperty`, `ClearJsonProperty`, `NormalizeJsonProperties`, `InsertName` | the reader sorts with them, messages become such lists |
| Values and messages (`json_util.cc`, `make_json_value_message.cc`, `unbox_json_value.cc`, `unbox_json_value_message.cc`) | none | `AreJsonValuesEqual`, `MakeJsonValue`, `UnboxJsonValue` for scalars and by a message's descriptor | configurations and live objects are messages |
| Numbers, URLs, locations (`number_util.cc`, `url_util.cc`, `http_util.cc`, `text_location.cc`, `string_piece_util.h`) | none | `ReadNumberPrefix`, `WriteNumber`, percent encoding, `ParseUrl`, `AdvanceTextLocation` | the reader and the writer use them |
| Live capture (`live_capturable.cc`) | a doubly linked list of live objects | construct, destruct, dump | every object above is in it |
| Handlers, adapters, logging | nothing that changes | | |

What is hard, and what makes each part correct:

- *Order.* Handlers answer pipelined requests in any order, the responses go out
  in the order of the requests; a client's response is given to the request it
  answers. (`ResponsesInRequestOrder`, `NoReadyResponseStranded`, `OwnResponse`)
- *Lifetime.* Every callback is bound to a raw pointer. Each object must be deleted
  by the last of several callbacks, whichever that is, once.
  (`LastOneOutDeletes`, `CallbacksFindConnectionAlive`, `DeletedWhenUnused`,
  `RefsExact`)
- *Re-entrancy.* User code inside `Close`, `OnConnect`, `OnRead` and `OnResolve`.
  (`HeldUntilResult`, `WaitersAreServed`, `AssertionsHold`)
- *Failure half way.* A write that fails at once inside a loop, an address that does
  not resolve, data that is half right. (`CountersExact`,
  `ImplementsContract`, `NoRequestLeaked`)
- *Ends.* Everything that was let go of must end, or the program's loop never
  returns. (`ShellGoneEndsInDeletion`, `ReleasedEnds`, `ClosingEnds`, `WaitEnds`)
- *Text.* Headers come in arbitrary pieces; JSON nests without recursion in the
  code; strings must survive being written and read.
  (`SplitInvariant`, `ReadsExactlyJson`, `RoundTrip`, `ReadsBack`, `QueryReadsBack`,
  `LocationByPieces`)
- *Numbers.* Integers at the ends of four types, as text, as doubles and as one another.
  (`IntegersAreExact`, `DoublesMeanTheirText`, `EqualMeansSame`, `FieldsKeepTheirValues`)
- *Lists for maps.* Properties are lists, where duplicates may hide; what is done to the list
  must be done to the map. (`ImplementsMap`, `EqualMeansSame`, `MessageSurvives`)

## Modules

    HttpServerConnection  - implements -> ResponsePipeline, ServerConnectionContract
    HttpServerCore        - composes   -> ServerConnectionContract
    HttpClientConnection  - implements -> ClientConnectionContract
    HttpClientCore        - composes   -> ClientConnectionContract
    HttpServerConnectionProofs, HttpServerCoreProofs,
    HttpClientConnectionProofs, HttpClientCoreProofs - prove -> theirs

    HttpParser    SharedUvLoop
      ^ proofs        ^ proofs
    HttpParserProofs  SharedUvLoopProofs

    Unicode, HexDigits <- JsonString, UrlText      NumberText, TextLocation
                                       \            /
                                        `- Texts --'
                                             ^ proofs
                                        TextsProofs

    PropertyList <- JsonGrammar <- JsonReader <- JsonRoundTrip -> JsonWriter
         ^     ^                                      ^ proofs
         |     ObjectProperties <---------------- JsonProofs
         |        ^        `- implements -> PropertyMap
         |        `-------------------.
         `-- JsonValue <- MessageJson <- JsonObject

**HttpServerConnection.** One action per callback, except that `OnRead` is one action
per iteration of its loop, because it calls the handler there; `frame` says whether the
thread is in the loop, in `OnRead` or in the handler. A transaction is the number of its
request. `handleQueue` and `writeQueue` are the two lists, `wire` is the history of what
uv was given to write. `OnTransactionHandleComplete` gives the answer and moves the whole
answered front of the queue at once. If a write fails at once in there, the connection is
closed and the loop drops what was answered behind it. If a response is not prepared, the loop is
left with the answered ones behind it in the queue, for good; `PrepareWrite` returns true whatever
it is given, as `AppendHttpHeaders` does, so no behaviour takes this branch, and its mutant
`PrepareWriteVerifies` shows what a check of headers there would break.
`onStack` is the transaction a callback still owns when it deletes the connection under it.

**ResponsePipeline** is what a server connection promises: requests are answered in any
order, and answers are sent in the order of the requests, until it closes.
**ServerConnectionContract** is what it promises the core: it is up, then closing, then
gone, it has transactions that may outlive it, and if it is closing it will be gone.
`HttpServerConnection` implements both (`ImplementsPipeline`, `ImplementsContract`), the
second with its fairness.

**HttpServerCore** composes the core with any connections that keep the contract: it never
looks into one. The callbacks `on_closing_`, `on_close_` and `on_zero` run in the same step
as the transition that makes them.

**HttpClientConnection** has a `stack` of the functions that wait for user code to return;
an action is a step of the last one, and uv delivers only when the stack is empty. The peer
answers requests in order, also before uv has called back for the write. The user issues
requests and lets go of the client anywhere in its callbacks.
**ClientConnectionContract** and **HttpClientCore** relate as on the server's side;
`HttpClientCore` has a stack of its own for the loops of `OnResolve`. The owner of a
connection is `OwnerClosesLater` in the one module and `CloseGroups` in the other.

**HttpParser** takes wires: the callbacks the vendored parser makes for a message, and the
places where reads split it. `Text` and `Reports` stand for the vendored parser and are
external, and so does the assumption on its wires, `Reported`: a message begins where the one
before it is complete and not elsewhere, it is complete after its headers were, and a value goes
with the name before it.

**SharedUvLoop** counts references as `scoped_refptr` does, and has a `stack` of the calls
of `Wait` and of the callbacks in the loop's thread. uv delivers finished work in batches,
and a batch is delivered by the call of `uv_run` that took it.

**JsonGrammar** defines JSON on tokens, as the parts of a text that are values or lists, with what each
means; it is the reference for **JsonReader**, and the only thing it takes from the code is how a name is
found among several (`FirstOfEach`). A part is known by how many tokens are left before it and after
it, so that the grammar is one recursive function along the text, from its end. It may give a text
no meaning, or several for all it says: that it is one is part of what is proved.
**JsonReader** and **JsonWriter** are the loops of the two
files with their stacks, and **JsonRoundTrip** composes them: the text that was written is read.
Values that are written are nested `MaxDepth` deep at most, whatever that is (`Writable`).

**Texts** has one kind of behaviour for each kind of text of the library, and puts together
the modules that handle them. **JsonString** is `WriteString` and `ReadString` byte by byte, on
**Unicode**, the functions of `unicode.cc`, and **HexDigits**. **NumberText** is `number_util.cc`
with the widths of the integer types as constants: the three reading loops are one fold over
digits with the code's own test for overflow, and a double ends as the significand and the
exponent that `strtod` is given. **UrlText** is percent encoding and one turn of `ParseUrl`'s loop
over the query, **TextLocation** both forms of `AdvanceTextLocation`. What is between the
ampersands of a query is a pair, spelled by `EncodeUriComponent` or by anybody - each byte as an
escape with digits of either case, a blank as a plus sign, or the byte itself where nothing reserves
it - or a scrap, which has no equal sign or an escape that is cut short or has no digits. The bytes
that may stand for themselves are those that the vendored URL parser leaves in a query (`IsUrlByte`).

**PropertyList** is the lists of `name_value_util.h` with their swaps. **ObjectProperties** is a
program that works with the properties of one object; each action is a call. What happens there
to the values in the list is a constant: normal form, what is left by writing and reading, and
what a value means. **PropertyMap** is what the list promises, a map from names to meanings.
**JsonValue** adds values, with equality, normal form
and the conversions to scalars of C++; integers have few bits there, and doubles, which are kept
in halves, fewer, so that rounding happens as it does beyond 2^53. Which doubles equality takes for the same is
a matter of their places among all doubles (`AreAlmostEqual`): with so few, `MaxUlps` is 1 in the run
instead of 4, for else 1 would be equal to 2. What a build makes of
a cast that C++ leaves undefined is the variable `saturates`. **MessageJson** is
`MakeJsonValue` and `UnboxJsonValue` for messages, by descriptors that are a constant.
**JsonObject** takes the steps of `ObjectProperties`; in every state the properties compare the
object's values, and make and unbox a message. `MCJsonObject` gives the constants of
`ObjectProperties` what `JsonValue` and `JsonObject` define.

`MCHttpParser`, `MCJsonRoundTrip`, `MCTexts` and `MCJsonObject` hold the inputs for TLC.

An operator whose comment calls it a mutant of another is that definition with a plausible
mistake; each property of a run is violated when one of them takes its place, which
`PROJECT.json` lists under `mutants`. No specification uses them.

## Runs

| Run | What it asks | Bounds |
|---|---|---|
| `server_connection` | order, deletion and assertions of a server connection, both refinements, and that requests get answered | 4 requests: a queue with a head, a middle and an end, one of them already on its way; every action is possible with 2 |
| `server_core` | counters, lists, deletion, on_destroy, and that a server that was let go ends | 3 connections with 2 transactions: one in each list and one gone, one transaction outliving its connection |
| `client_connection` | ownership, matching, deletion, its contract, and that closing ends | 4 requests: one in each queue and one more in a callback |
| `client_core` | counters, waiters and deletion for any user; for users that do not retry while a group fails what waited, that one resolution runs at a time, no connection is closed under its connect, and a released client ends and says so once | 2 endpoints, 2 connections, 3 requests, with which a retrying user brings one endpoint to two resolutions at a time |
| `http_parser` | that messages do not depend on how reads split them | pairs of messages in `MCHttpParser`, every set of split points |
| `uv_loop` | references, deletion, `Wait` returns when its work is done, also nested, and returns at all if it is not nested | 3 works, 2 futures, 2 threads |
| `json_round_trip` | what is written is read as the value it was; the reader accepts the grammar and builds its values; lines are indented by depth | all values whose text has up to 9 tokens, which nest four deep; all sequences of up to 3 tokens; all texts up to 9 tokens, with one token left out or a comment in its place; all configurations |
| `texts` | strings are read back in any spelling, and a text that is cut short is refused; integers are read as what they are, doubles stand for their text; a query gives the parameters it was built from; a location does not depend on the pieces | strings: up to 2 characters from the ends of each length of the UTF-8 form, and pieces that are not UTF-8; integers of 7 bits, which up to four digits overflow at every place, all of them, and spelled numbers with points and with exponents up to and beyond the type; queries of up to 3 pieces in all their spellings, pairs with delimiters in their names and values or not UTF-8, and scraps; texts of newlines, tabs and bytes of characters, cut in every way |
| `json_object` | the list implements the map; equality is sameness of meaning, but for doubles next to one another; messages survive JSON; fields hold what the object says | lists of up to 4 properties with 3 names, 3 of them for one name; integers of 5 bits, doubles of 3, all pairs at the ends and where doubles round; messages one inside another, in lists and by name |

`CHECK_DEADLOCK FALSE` is said where a behaviour may end: a deleted connection, a server
nobody connects to, a text that is read.

Three runs show a disagreement between the code and what the repository says of it:

| Run | Disagreement |
|---|---|
| `leaked_request` | requests completed by data that then breaks the syntax stay in the parser, whose destructor does not free them |
| `closed_while_connecting` | a retry from the callback of a failed resolution starts a second `getaddrinfo`, is failed with the old error, and leaves a connection that is closed under its connect: a check in `OnConnect` fails |
| `asymmetric_equality` | `false` on the left equals any value that is not a bool; no such value equals `false` on the right |

More were met and have no run of their own:

- After the same retry the client may be released before the second resolution succeeds; the
  connection it makes is never closed and the client never ends (`ReleasedEnds` without
  `~retries`).
- After two such retries one behind the other, `resolve_req_` is in two calls of `getaddrinfo` at a
  time: the group fails the first retry with the old error while its call is under way, and
  finds nobody waiting when the second comes (`WaitersAreServed` without `~retries`). What libuv makes of
  one request in two calls is not modelled; each is taken to call back once.
- `AreJsonValuesEqual` finds doubles equal that are up to four last bits apart, the largest one and infinity among
  them, so that equality of doubles is not transitive; an integer and a double must agree to the
  last bit. `EqualMeansSame` says so.
- A handler that answers after its connection was closed makes `OnTransactionHandleComplete` run
  `on_close_`, which deletes the connection, while the transaction it has popped is still on the
  stack, with a counter unit that points into the connection. `onStack` holds it.
- Control characters without a short escape are written as they are: the text is not JSON, and the
  reader takes it under `allow_control_characters` only. And with `escape_unicode`, bytes in
  the form of a number beyond Unicode fail an assertion of `WriteHexDigit`. `ReadsBack` asks
  nothing of either.
- On a build whose casts saturate, 2^63 and 2^64 as doubles pass the bounds of `UnboxJsonValue`
  and of `AreJsonValuesEqual` and become the largest integer, which is one less. `Defined`
  leaves these two doubles out on such a build.
- Properties that are unknown inside of messages given by name are dropped, where those elsewhere
  are returned; an unknown enum value is skipped without an error. `DecodeUri` decodes reserved
  characters as `DecodeUriComponent` does. No document says otherwise of either.
- `1e400` is read as infinity also if infinity is not allowed; `1.` and `-.` are read as numbers.

The second of these is why `HttpServerCore` lets transactions outlive their
connection: the counters of the *core* stay exact all the same, since the splitter's
memory is the only thing that is gone. In `HttpClientCore` the variable `retries` says whether the
user retries while a group fails what waited; it never changes. Such users are in all checks
but three, which the code fails for them: one resolution at a time (in `WaitersAreServed`), `PatientConnects`, which
is `ConnectFindsCallbacks` for the others, and `ReleasedEnds`.

## Fairness

The code has no timeouts and the peer owes nothing, so the peer, and the user's decision to
begin or to let go, are never fair. Weakly fair are: that functions and user callbacks on the
stack go on and return (one thread, no blocking); that uv calls back for a write, a connect, a
resolution or a close that it has accepted; that handlers answer (`AsyncHandle` takes a
callback to be called); that the pool runs its work. In the cores, a connection that is closing
gets closed: `ServerConnectionContract`'s fairness, which `HttpServerConnection` is checked to
implement, and on the client's side `ClosingEnds`. `WaitEnds` holds only if callbacks do not wait
themselves: a nested `Wait` may have to wait for work whose completion an outer call of `uv_run`
has taken and cannot deliver until the nested one returns. So `WaitEnds` is conditional on no call of `Wait` being nested, while the safety properties cover nested calls.

## Proofs

`HttpServerConnectionProofs` proves, for any number of requests, that every reachable state of a
server connection satisfies the inductive invariant `IInv`, and from it all safety properties of
the run, that the counter of transactions is exact and that a closing connection writes nothing
more, and that a step of the connection is a step of `ResponsePipeline`:
`TypeCorrect`, `InOrder`, `NothingStranded`, `LastOneOut`, `NoCallbackDangles`,
`NoAssertionFails`, `CounterExact`, `Silent` and `RefinesPipeline`. The one assumption is
`MaxRequests \in Nat`.

The properties are not inductive by themselves. That responses are in order on the wire depends
on the handle queue holding *consecutive* requests, whose predecessors have all been answered
and whose head has not (`HandleInv`), on the parser's queue going on where it ends
(`ParserInv`), and on everything that was popped being on the wire while the connection is open
(`WireInv`). That no callback dangles depends on how the flags go together (`LifeInv`) and on
deletion waiting for both queues (`QuietInv`). `IInv` is their conjunction with the types and
the exact count. The proof has one lemma per action, with a step for each part the action can
disturb; the answering of requests, which moves a front of unknown length from one queue to the
other, is split by how the loop ends. For the refinement `PipelineStep` finds for each action the
step of the pipeline, or shows that nothing visible changes. `KeepsContract` does the same for
`ServerConnectionContract`, on which `HttpServerCore` relies; it needs that every transaction
which is being written has been answered (`WrittenInv`). It is the safety part of
`ImplementsContract`, whose fairness is model-checked.

`HttpServerCoreProofs` proves, for any set of connections and any number of transactions, that the
two counters are exact (`CountersAreExact`), each connection is in the list of its state
(`InTheirLists`), the core is deleted when and only when nothing refers to it any more
(`DeletedExactlyWhenUnused`), and `on_destroy` is not lost (`OnDestroyOnce`, an action property).
The invariant relates the counters to cardinalities: of the connections that are not gone, and
of the pairs of a connection and a transaction that is out. The lemmas on counting down say
what the two decrements of a splitter leave, one of which may delete the core.

`SharedUvLoopProofs` proves the safety of the loop and its futures for any set of works and
futures, any size of the pool and any nesting of `Wait` in callbacks: references are exact and the
loop is deleted exactly when nobody has one (`ReferencesExact`), the assertions of the destructors
and of `OnClosure` hold (`NoAssertionFails`), and when `Wait` returns nothing that was started for
its future is under way (`WaitIsDone`, an action property). The first part of its invariant
(`CountInv`, `ClosureInv`) relates the counts to cardinalities of sets of works and futures. The
second (`PlaceInv`, `StackInv`) is why a count is never decremented twice: a work whose
`thread_work` has ended is in one place only, in uv's queue, in a batch of a suspended `uv_run`
or on the stack, and what waits on the stack does so for a future that the user holds. That
`Wait` returns at all (`WaitEnds`) is only model-checked.

`HttpClientCoreProofs` proves the safety of the client core for any sets of endpoints and
connections and any number of requests. Whatever the user does in its callbacks, the three
counters are exact (`CountersAreExact`) and the core is deleted exactly when nobody can call it
any more (`DeletedExactlyWhenUnused`). Its invariant says in how many places a transaction can
be: it waits once in one group and then is nobody else's (`WaitInv`), so that moving it, to
`on_response` or to a new connection, changes no count; a connection is in the list its phase
says, once (`ConnInv`). That nobody waits for an address that is not being asked for
(`WaitersAreAlwaysServed`) is proved for any user as well: a group that has anybody waiting is in
`getaddrinfo` or in a loop that fails them (`AskedInv`), and a loop that ends leaves none.
That a group asks once at a time, in the same theorem, and `PatientAlwaysConnects` are for users that do not
retry in these loops (`~retries`), without which the code is at fault. They need that a
group resolves only for those that wait and never while it fails them (`ServedInv`), that a
transaction is one connection's (`LiveInv`), and that a connection that is being made has a
transaction, none of them in a callback (`ConnectingInv`): then the last transaction cannot end
before its `OnConnect`.

`HttpClientConnectionProofs` proves the safety of a client connection for any number of requests,
issued anywhere in the user's callbacks and answered at any time after they were sent, and that it
implements its contract: `NoneLost`, `Matched`, `AssertionsSafe` and `KeepsContract`. The one
assumption is `MaxRequests \in Nat`. That no request is lost (`PlacedInv`) is inductive only
together with what may be on the stack: the loops that uv's callbacks run are at its bottom,
`Close` runs once at a time, and a transaction whose `on_response` waits there has its result
(`StackInv`); and with what the flags exclude before, during and after `InitAsync` and `Close`
(`PhaseInv`). That responses are matched by position (`OrderInv`) is an equation: until the
connection closes or a write has failed, the requests whose responses the parser holds, followed by
those the peer has not answered, are the read queue followed by the write queue. In the
refinement a transaction lives until its `on_response` has returned: moving it between queues
and giving it its result are stutters, and the return from the callback is the contract's `End`.

`HttpParserProofs` proves `SplitsDoNotMatter`: for every wire that satisfies `Reported`, of
whatever length, and every way in which the reads split it, the messages that leave the parser
are the ones that were sent. The invariant says what the parser holds in the middle: of an open
message, `Received`, which is what has come of each of its texts, with the last header lacking
what has not come yet. So `OnHeaderField`'s test, whether the last header has a value, is shown to
say whether the name before has ended (`NameStarts`, `NameGoesOn`), and `OnMessageComplete` to
queue the whole message (`CompleteIsSent`). The texts of a message are defined as lists of sets of
positions in order (`Sorted`), about which the first lemmas are; they, and that messages begin and end
alternately (`Alternate`), go by induction on naturals, which is stated for subsets of `Nat`
(`Induction`) so that the provers can use it.

`TextsProofs` proves what the functions on texts compute, for texts of any length. A text
location that a document has come to in pieces is the one it has as a whole, wherever the pieces
end, also within a character or a line (`PiecesDoNotMatter`). Its invariant, `LocationInv`, is
stated with the column after every byte of the document: a function that follows the bytes one by
one (`ColumnsOf`), which exists by induction and is the only one. A piece is shown to lead along
it from its first byte to its last, although `AdvanceTextLocation` counts the newlines of the piece
and goes through its last line only (`AdvanceIs`), and so is the fold with which the property is
stated. An integer of any number of digits is read as its value if it fits its type, to the last
digit, and refused if it does not, for every width (`ReadExactlyIfFits`): the test before a digit
is appended refuses it exactly if the result would not fit (`OverflowsExactly`), and that goes
along the digits. Exponents add up to the sum or to the nearest end of the type, and nothing
computed on the way overflows (`AddExponentSaturates`). Surrogates and UTF-8 forms are inverted by
their readers for every code point, where the runs try the ends of each range.

That integers are exact (`IntegersExact`) is proved for every width of the types, for every integer
that is written and for every number that somebody may spell. What the readers find in a text they
find by its form, so the text of a number is taken apart first: a sign, the digits before the point,
those behind it, an exponent, each of which may be missing (`NumberText4`, `NumberTextsAre`). No part
starts with a byte that continues the part before, so each loop ends where its part ends
(`DigitsAre`, `TailIs`, `PartsAre`), and `ReadNumber` either takes the integer or reads the double
to its end (`NumberIsRead`). Of `WriteNumber` the induction goes along tenths: each number's text is
that of its tenth and one digit (`UnsignedWrites`), which has no leading zero and the number's value.

The significand and the exponent that `strtod` is given stand for what the text says (`DoublesMean`),
however many digits there are and wherever the point is. The invariant of the digit loops,
`ScaledSo(v, s, k)`, says how the significand `s`, with `k` digits left out, stands to the value
`v` of all digits so far: not above it, and below it by less than one in its last place.
That is not inductive by itself. `ReadNumberPrefix` goes on with the fraction where the digits of
the whole no longer fitted, and a small digit may fit again: then `s` may be short by ten in
its last place. But the first digit that was left out came when the type was full, so `v` is
then that much larger, and it happens once, as it fills the type again (`DigitLeftOut`,
`DigitTaken`). The two give the bound on the fraction that is lost (`ScaledIsClose`). The exponent is
added exactly unless it has no room for one more digit, and then it ends on its side
(`ExponentAdds`). `PowerOfTen` is the value of a one and zeros, for the prover knows nothing of
`^`.

`TextsSpec` is assumed to have documents of bytes (`DocumentsAssumption`) and numbers whose parts
are digits, at most half as many as the largest signed number, and at most one integer
(`NumbersAssumption`). With more digits the count of those that were skipped, an `int64_t`, would
overflow; no memory holds so many.

That strings are read back (`StringsReadBack`) is proved for every string, of any length, that is made
of characters as `ContentsAssumption` has them: the UTF-8 form of one code point, or bytes that are
no UTF-8. The writer and the reader do not take the same steps: a code point is one step of the
writer, and up to four of the reader if its bytes are written as they are. So the proof says what
a text is rather than who made it: `Spells(t, b)` is the least relation between texts and strings
with the empty ones and with every *chunk* in front, which is what the reader takes in one
turn - a byte, a short escape, `\u` and four digits, or two of these (`Chunk`). The inductive
invariant `StringsInv` has that what is written so far spells what the writer has gone through
(`WrittenSo`), and that what is left to read spells what the result lacks (`LeftSo`), or is the
beginning of such a text if it was cut (`CutSo`); with `escape_unicode` also that what the writer has
left is UTF-8, for it is the form of the next code point that is replaced. A text that spells
something begins with a chunk (`SpellsBegins`), which the reader finds whatever follows it
(`ChunkIsFound`) and takes as a whole (`ChunkIsTaken`), and in part of which it finds no other chunk
(`CutIsFound`). `IsStructurallyValidUtf8` is a recursive function over the bytes; that it has a value
which unfolds form by form, and that strings for which it holds may be put together
(`ValidUnfolds`, `ValidJoins`), come first.

That a query gives the parameters that are meant (`QueriesReadBack`) is proved for every query of
pieces as `QueriesAssumption` has them: at least one, of which each scrap is one (`IsScrap`). The loop that
undoes the escapes is a recursive function along the text; that it has a value which unfolds
byte by byte (`UnescapedUnfolds`) comes first. `Stands(p, b, outside)` says of a part of a text
that its bytes are `b` whatever follows it, and that it has none of the delimiters in `outside`. Every way to write a
byte stands for it (`ByteStands`), and what stands for two strings may be put together
(`StandsJoin`), so a component stands for its bytes (`ComponentStands`, `EncodedStands`) and holds no
ampersand, and a name no equal sign. So a pair is split where it was joined and read as what is meant
(`PairIsRead`). An escape of a scrap that is wrong is also wrong in the part of the scrap that it is
in, for neither delimiter is a digit (`WrongInPart`), so that a scrap gives nothing (`ScrapIsRead`). The plus
signs become blanks before any of this, in the whole query at once; a piece's text and the text in
which they are blanks go together (`PlusesStand`, `PlusesJoin`). The inductive invariant
`QueryInv` has that some choice of the pieces' texts spells the query (`Spelling`), that what is left
of it is what the pieces from the next one on spell (`LeftAfter`), and that the outcome is what the pieces
before mean; `QueryTurn` is its step.

`TextsProofs` begins with what it needs of induction and folds. A fold
over a sequence is a recursive function on the subsets of its positions, of which the prover knows
nothing but the equation; that a function with this equation exists, and that its values at
the prefixes follow one another (`FoldExists`, `FoldStays`), is proved there by induction on
naturals, with functions in the place of the operators.

`JsonProofs` begins with `ImplementsMap`: for lists of any length, with duplicates in any
order, any names and any values, each call does to the map that `GetJsonProperty` sees what
`PropertyMap` says, and nothing else (`ObjectImplementsMap`). An object's properties are asked for by
name, so the lemmas say what becomes of the first with a name (`FirstOf`, `KeepsFirst`). The stable sort
and the removal of duplicates put an element in the place that the number of elements before it
gives. That every place is given, and once, is counting: the numbers of two elements differ, so they
are an injection between finite sets of one size, and onto (`PlacesAre`, `ElementsAre`); then a
sorted list comes out (`SortedIs`) and of each name the first is left (`UniqueIs`). The two loops of
swaps are followed turn by turn; as recursive functions they must be shown to exist first
(`TurnsExist`, `RaisesExist`). After a turn of `Erased` what was to be left of the elements so far is
in front, in its order, and behind them the list is as it was (`TurnSo`); that order is
kept is not plain, as what is cut off is swapped about. After k moves of `Prepended` the last k elements are where
they will be and the others still where they were (`RaisedSo`), which holds only because the last one
moves first. Assumed are that the order tells names apart (`RankAssumption`), that pools are what they
should be (`PoolsAssumption`), and that normalizing, writing and reading a value keep its meaning
(`ValuesAssumption`). The last is about the values in the list, which may have lists in them: TLC
evaluates it for the values of its run, and of all values it is not proved.

`JsonProofs` goes on with the reader. That it reads exactly JSON (`ReadsJson`) is proved for texts of any
length, under every configuration and for any names and scalars: a text is accepted exactly if the
grammar gives it a meaning, and the value that is built is the only one it means. Recursive functions
come first here too: the grammar's parts exist and unfold (`PartsExist`, `GrammarUnfolds`), as do the
text without its comments (`SeenUnfolds`) and the values of the nodes. The invariant relates what the
reader has built to what the text can still mean. Of the nodes, `TreeOK` says that those that are
settled have their values, and that each target on the stack but the last waits for one child, the
next target, which is its last; the nodes it refers to come after it. A *frame* says of such a target
which bracket is open, which values its list has so far, and under which name the next one goes.
Given the frames, `Leads` says which values of the whole text come of a value that is complete where so many tokens are
left, `Opens` of a list that goes on there. `Awaits`, `Knows` and `OpensFor` say that these are the
meanings of the whole text, exactly; so the invariant (`Reading`) is that what the grammar says of all the
text it says of what is left of it, with the stack in the place of what has gone. Each action takes
a token, or skips comments, and is one step of the grammar there: it is shown that the token that is next decides which
part the grammar can have, so that no other reading is lost. When a token fits none, the set
is empty, and the reader fails; when the text has ended and the stack too, it has the one value that was
built. When an object is complete its properties are sorted, and by the lemmas on lists that is the first
of each name in the order of names (`FirstOfEach`).

What the writer has written is read back (`RoundTrips`), for values of any size and any depth. The proof
does not run the reader on the output: it shows what the output means, and `ReadsJsonInRoundTrips` says
that the reader finds that. The invariant of the writer is what the reader's is, turned round:
*whatever* text follows, and whatever the configuration, the output so far and that text mean what comes of a
value next, or after one that is complete, or in an open list (`Awaited`, `Complete`, `Opened`), with the
sources on the writer's stack for frames (`FrameOf`). When the writer returns nothing follows, and what the
output means is the value, each object as it is or sorted (`ReadAs`). `SourcesOK` says that each source on
the stack is the child of the one below to which its index points; the source that is pushed before
the first child, and only popped, is no value, and the invariant has a case of its own for it (`Writes`).
That lines are indented by depth (`Aligned`) is another invariant of the writer: the width of the next line is
`indent` times the brackets that are open in the output, which are counted by `Depth`; lines that have been written stay
right, for the output only grows, and the one that may change, at the end of the output, is looked
at again when the next token comes, which may close a bracket (`LinesOK`).

For these theorems it is assumed that the tokens that are values are not signs (`TokensAssumption`), that the
texts consist of tokens (`InputsAssumption`), that the order of names tells them apart
(`RankAssumption`), and that the values that are written are made of such names and scalars and that
indentations are not negative (`RootsAssumption`). Depth has to have some bound for the set of values to be
one, as TLA+ has no set of all nested values; the bound is any natural number, and nothing in the
proof depends on it.

Only model-checked are all liveness (the prover handles neither fairness nor `ENABLED`), and
with it the fair part of the server connection's `ImplementsContract`; and `EqualMeansSame`,
`MessageSurvives` and `FieldsKeepTheirValues`. These three are about the functions of `JsonValue` and
`MessageJson`, which are `RECURSIVE` operators on values and on messages; the prover does not handle them,
and the casts between integers and doubles that they are about have widths that a run must fix.

## Not modelled

The vendored http_parser, libuv and protobuf are external: of libuv the modules assume that it
calls back once for each thing it accepted, with the handle's close after the rest was cancelled or
delivered, and that writes of a stream complete in order where the client relies on it. The text of
messages, headers' meaning, logging, `CaptureLive` and allocation failure are left out. Framing of
responses that depend on the request (HEAD, 1xx) is the vendored parser's. Accepting is modelled as
succeeding or failing; what libuv does after an accept that never came is not.

Of the text of numbers `strtod` and `DoubleToBuffer` are left out, and the words for infinity and
truth; of messages, floats, bytes and Base64, a property with the name of `object_properties`
itself, and properties kept by a message whose names are those of its fields; of URLs the vendored
parser, `EncodeUri` and `DecodeUri`, and `GetNodeAndServiceName`; of live
capture the ring of objects, which a vendored queue links; of requests those that ask for an upgrade of
the protocol, at which the vendored parser stops.

The rest of `src/` has no state to model: generated protobuf code is most of it, then tests,
samples and vendored code, and adapters that forward to libuv (`PROJECT.json` lists them).

## Plan

In the order in which they were and will be written:

1. `HttpServerConnection` with `ResponsePipeline` and `ServerConnectionContract` - done, proved.
2. `HttpServerCore` - done, proved, and so is the safety part of `ServerConnectionContract` for
   the connection.
3. `HttpClientConnection`, `ClientConnectionContract`, `HttpClientCore` - done, all proved.
4. `HttpParser`, `SharedUvLoop` - done, both proved.
5. `JsonGrammar`, `JsonReader`, `JsonWriter`, `JsonRoundTrip` - done, proved.
6. `Unicode`, `HexDigits`, `JsonString`, `NumberText`, `UrlText`, `TextLocation`, `Texts` - done; the
   arithmetic, locations, and numbers, strings and queries, written, read and spelled, are proved.
7. `PropertyList`, `ObjectProperties`, `PropertyMap`, `JsonValue`, `MessageJson`, `JsonObject` - done;
   the list of properties is proved.
8. `LiveList`: the ring of `LiveCapturable` under nested construction and destruction, also
   while it is being captured; to prove that it stays one ring.
9. `HttpServerSystem`: a core with one real connection in place of its contract, to check that
   composing them by the contract lost nothing.
