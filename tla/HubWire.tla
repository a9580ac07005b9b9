-------------------------------- MODULE HubWire --------------------------------
(***************************************************************************)
(* The typed side of a hub call: how proto/hub.ts writes a request, what   *)
(* the hub makes of the bytes, and how the answer is read back, for every  *)
(* message and method (src_local/proto/hub.ts, hub.client.ts).             *)
(*                                                                         *)
(* A message type is the sequence of the kinds of its fields: the fields   *)
(* of every type are numbered from 1 without gaps. A message is a sequence *)
(* of values, the bytes of a message a sequence of numbered entries.       *)
(* Texts and numbers are strings; "-0" is not told from "0" by the writer, *)
(* "0.1" is a double without an equal float, "2^31" and "1e39" fit no      *)
(* int32 and no float. Streams carry messages one by one.                  *)
(*                                                                         *)
(* The hub is a binary of its own, and scripts/ensure_binaries.ts keeps    *)
(* one that is there: it may have been built from another hub.proto, which *)
(* lacks the last field of a message or adds one.                          *)
(***************************************************************************)
EXTENDS Naturals, Sequences, SequencesExt

CONSTANT Samples(_)   \* the messages of a type that are tried

VARIABLES
  trip,     \* "idle", "request", "refused", "handled", "answer", "read"
  called,   \* the method the caller asked for
  path,     \* the method the transport asked the hub for
  build,    \* the hub's hub.proto against ours: "same", "older", "newer"
  sent,     \* the message its writer was given
  wire,     \* the bytes
  got       \* the message its reader returned

wireVars == <<trip, called, path, build, sent, wire, got>>

-----------------------------------------------------------------------------
\* Kinds of fields.
Str == [kind |-> "string"]
Bool == [kind |-> "bool"]
Int32 == [kind |-> "int32"]
Double == [kind |-> "double"]
Strs == [kind |-> "strings"]
Floats == [kind |-> "floats"]
One(type) == [kind |-> "message", of |-> type]
Many(type) == [kind |-> "messages", of |-> type]

\* The messages of hub.proto.
RuleRequest == <<Str, Str>>
Rule == <<Str, Str, Str, Str>>
RuleResponse == <<Many(Rule), Strs, Str, Str>>
AnalyzeCodeRequest == <<Str, Str, Str>>
Empty == << >>
ProcessInfo == <<Str, Int32, Double, Double>>
HealthUpdate == <<Double, Double, Int32, Many(ProcessInfo), Str>>
StatusResponse == <<Str, Str, One(HealthUpdate)>>
Event == <<Str, Str, Str>>
ScanRequest == <<Str, Str>>
FileMetadata == <<Str, Int32, Int32, Int32, Str>>
ScanResponse == <<Many(FileMetadata)>>
AnalyzeRequest == <<Str, Str>>
AnalyzeResponse == <<Str>>
TaskRequest == <<Str, Str>>
TaskResponse == <<Int32, Bool>>
PendingRequest == <<Int32>>
Task == <<Int32, Str, Str, Str, Str, Str>>
PendingResponse == <<Many(Task)>>
UpdateTaskRequest == <<Int32, Str, Str>>
DeduplicateRequest == <<Str>>
ConnectivityRequest == <<Str>>
AuditRequest == <<Str>>
BatchRequest == <<Str>>
ReasonRequest == <<Str, Bool>>
PatternRequest == <<Str>>
PenaltyRequest == <<Str>>
ScoreRequest == <<Str>>
CoverageRequest == <<Str>>
GraphRequest == <<Str>>
QueryRequest == <<Str>>
HealingPlan == <<Str, Str, Str, Str, Str>>
PeerReviewRequest == <<Str, Str, Str, Str, Str>>
PeerReviewResponse == <<Str, Str>>
SignalRequest == <<Str, Str, Str>>
MemoryEntry == <<Str, Str, Str, Str, Str, Str, Floats>>
MemoryQuery == <<Str, Str, Int32>>
EmbedRequest == <<Str>>
EmbedResponse == <<Floats>>

-----------------------------------------------------------------------------
\* The methods of HubService, in the order of its table, and of RuleProvider.
HubService ==
  << [name |-> "GetStatus", I |-> Empty, O |-> StatusResponse],
     [name |-> "WatchHealth", I |-> Empty, O |-> HealthUpdate],
     [name |-> "WatchEvents", I |-> Empty, O |-> Event],
     [name |-> "ScanProject", I |-> ScanRequest, O |-> ScanResponse],
     [name |-> "AnalyzeFile", I |-> AnalyzeRequest, O |-> AnalyzeResponse],
     [name |-> "AnalyzeStream", I |-> AnalyzeRequest, O |-> AnalyzeResponse],
     [name |-> "GetDependencies", I |-> AnalyzeRequest, O |-> AnalyzeResponse],
     [name |-> "Deduplicate", I |-> DeduplicateRequest, O |-> AnalyzeResponse],
     [name |-> "Fingerprint", I |-> AnalyzeRequest, O |-> AnalyzeResponse],
     [name |-> "DiscoverIdentity", I |-> AnalyzeRequest, O |-> AnalyzeResponse],
     [name |-> "IndexProject", I |-> AnalyzeRequest, O |-> AnalyzeResponse],
     [name |-> "ScanTopology", I |-> AnalyzeRequest, O |-> AnalyzeResponse],
     [name |-> "GetContext", I |-> AnalyzeRequest, O |-> AnalyzeResponse],
     [name |-> "GetConnectivity", I |-> ConnectivityRequest, O |-> AnalyzeResponse],
     [name |-> "Audit", I |-> AuditRequest, O |-> AnalyzeResponse],
     [name |-> "Batch", I |-> BatchRequest, O |-> AnalyzeResponse],
     [name |-> "Reason", I |-> ReasonRequest, O |-> AnalyzeResponse],
     [name |-> "Patterns", I |-> PatternRequest, O |-> AnalyzeResponse],
     [name |-> "Penalty", I |-> PenaltyRequest, O |-> AnalyzeResponse],
     [name |-> "CalculateScore", I |-> ScoreRequest, O |-> AnalyzeResponse],
     [name |-> "AuditCoverage", I |-> CoverageRequest, O |-> AnalyzeResponse],
     [name |-> "GetKnowledgeGraph", I |-> GraphRequest, O |-> AnalyzeResponse],
     [name |-> "QueryKnowledgeGraph", I |-> QueryRequest, O |-> AnalyzeResponse],
     [name |-> "ExecuteHealing", I |-> HealingPlan, O |-> AnalyzeResponse],
     [name |-> "RequestPeerReview", I |-> PeerReviewRequest, O |-> PeerReviewResponse],
     [name |-> "BroadcastSignal", I |-> SignalRequest, O |-> Empty],
     [name |-> "Remember", I |-> MemoryEntry, O |-> Empty],
     [name |-> "Retrieve", I |-> MemoryQuery, O |-> MemoryEntry],
     [name |-> "Embed", I |-> EmbedRequest, O |-> EmbedResponse],
     [name |-> "EnqueueTask", I |-> TaskRequest, O |-> TaskResponse],
     [name |-> "GetPendingTasks", I |-> PendingRequest, O |-> PendingResponse],
     [name |-> "UpdateTask", I |-> UpdateTaskRequest, O |-> Empty] >>

RuleProvider ==
  << [name |-> "GetRules", I |-> RuleRequest, O |-> RuleResponse],
     [name |-> "AnalyzeCode", I |-> AnalyzeCodeRequest, O |-> AnalyzeResponse] >>

\* The client's methods take theirs out of these tables by position.
HubServiceClient ==
  LET Names == <<"GetStatus", "WatchHealth", "WatchEvents", "ScanProject", "AnalyzeFile",
                 "AnalyzeStream", "GetDependencies", "Deduplicate", "Fingerprint",
                 "DiscoverIdentity", "IndexProject", "ScanTopology", "GetContext",
                 "GetConnectivity">>
  IN  [i \in DOMAIN Names |-> [fn |-> Names[i], method |-> HubService[i]]]

HubServiceClientAgents ==
  LET Names == <<"Audit", "Batch", "Reason", "Patterns", "Penalty", "CalculateScore",
                 "AuditCoverage", "GetKnowledgeGraph", "QueryKnowledgeGraph",
                 "ExecuteHealing", "RequestPeerReview", "BroadcastSignal", "Remember",
                 "Retrieve", "Embed", "EnqueueTask", "GetPendingTasks", "UpdateTask">>
  IN  [i \in DOMAIN Names |-> [fn |-> Names[i], method |-> HubService[i + 14]]]

RuleProviderClient ==
  LET Names == <<"GetRules", "AnalyzeCode">>
  IN  [i \in DOMAIN Names |-> [fn |-> Names[i], method |-> RuleProvider[i]]]

ClientMethods ==
  ToSet(HubServiceClient) \cup ToSet(HubServiceClientAgents) \cup ToSet(RuleProviderClient)

\* The hub finds its handler, and the types it reads and writes, by name.
HubMethods == ToSet(HubService) \cup ToSet(RuleProvider)
HandlerOf(name) == CHOOSE m \in HubMethods : m.name = name

-----------------------------------------------------------------------------
Nested == {"message", "messages"}
Default(field) ==
  CASE field.kind = "string" -> ""
    [] field.kind = "bool" -> "false"
    [] field.kind \in {"int32", "double"} -> "0"
    [] OTHER -> << >>

\* create() of a message type.
Created(type) == [i \in DOMAIN type |-> Default(type[i])]

\* The type as a build before ours, or after it, knows it.
Older(type) == IF type = Empty THEN Empty ELSE Front(type)
Newer(type) == Append(type, Str)

\* The type as the hub's build knows it.
BuiltAs(type) ==
  CASE build = "same" -> type
    [] build = "older" -> Older(type)
    [] build = "newer" -> Newer(type)

-----------------------------------------------------------------------------
(* The messages: a value for each field, of its kind.  Messages are within  *)
(* messages, and those within others, but no deeper (StatusResponse).       *)

IsValue(field, value) ==
  CASE field.kind \in {"string", "int32", "double"} -> value \in STRING
    [] field.kind = "bool" -> value \in {"false", "true"}
    [] field.kind \in {"strings", "floats"} -> value \in Seq(STRING)
    [] OTHER -> FALSE

HasFields(type, message) == message = [i \in DOMAIN type |-> message[i]]

\* The values of a field that are messages: any number, or at most one.
HasMessages(field, values) ==
  /\ values \in Seq(ToSet(values))
  /\ field.kind = "message" => Len(values) <= 1

IsFlat(type, message) ==
  /\ HasFields(type, message)
  /\ \A i \in DOMAIN type : IsValue(type[i], message[i])

IsNested(type, message) ==
  /\ HasFields(type, message)
  /\ \A i \in DOMAIN type :
       IF type[i].kind \in Nested
       THEN /\ HasMessages(type[i], message[i])
            /\ \A k \in DOMAIN message[i] : IsFlat(type[i].of, message[i][k])
       ELSE IsValue(type[i], message[i])

IsMessage(type, message) ==
  /\ HasFields(type, message)
  /\ \A i \in DOMAIN type :
       IF type[i].kind \in Nested
       THEN /\ HasMessages(type[i], message[i])
            /\ \A k \in DOMAIN message[i] : IsNested(type[i].of, message[i][k])
       ELSE IsValue(type[i], message[i])

ASSUME SamplesAssumption ==
  \A method \in HubMethods :
    \A type \in {method.I, method.O, Older(method.O), Newer(method.O)} :
      \A message \in Samples(type) : IsMessage(type, message)

\* A message of the type with each message in it replaced by what Each makes of
\* it, given its type.
Within(type, message, Each(_, _)) ==
  [i \in DOMAIN type |->
     IF type[i].kind \in Nested
     THEN [k \in DOMAIN message[i] |-> Each(type[i].of, message[i][k])]
     ELSE message[i]]

-----------------------------------------------------------------------------
\* int32() and float() of the writer assert that their number fits.
FitsField(field, value) ==
  /\ field.kind = "int32" => value # "2^31"
  /\ field.kind = "floats" => "1e39" \notin ToSet(value)

FitsFlat(type, message) == \A i \in DOMAIN type : FitsField(type[i], message[i])

\* So do the messages in it, and those in them.
AllWithin(type, message, Each(_, _)) ==
  \A i \in DOMAIN type : type[i].kind \in Nested =>
    \A k \in DOMAIN message[i] : Each(type[i].of, message[i][k])
FitsNested(type, message) == FitsFlat(type, message) /\ AllWithin(type, message, FitsFlat)
Fits(type, message) == FitsFlat(type, message) /\ AllWithin(type, message, FitsNested)

\* A float is the nearest of 32 bits.
ToFloat(number) == IF number = "0.1" THEN "0.1f" ELSE number

\* Faulty: a number counts as zero when its integer part is.
OmittedSmall(field, value) ==
  \/ value = Default(field)
  \/ field.kind = "double" /\ value \in {"-0", "0.1"}

Omitted(field, value) ==
  \/ value = Default(field)
  \/ field.kind = "double" /\ value = "-0"

\* No entry for a default, one for each text or message of a field, one for all
\* its floats.
FieldEntries(i, field, value) ==
  IF Omitted(field, value) THEN << >>
  ELSE CASE field.kind = "strings" \/ field.kind \in Nested ->
              [k \in DOMAIN value |-> [no |-> i, data |-> value[k]]]
         [] field.kind = "floats" ->
              <<[no |-> i, data |-> [k \in DOMAIN value |-> ToFloat(value[k])]]>>
         [] OTHER -> <<[no |-> i, data |-> value]>>

\* A message whose own messages are bytes: the entries of its fields in order.
Pack(type, message) ==
  LET packed[n \in 0..Len(type)] ==
        IF n = 0 THEN << >> ELSE packed[n - 1] \o FieldEntries(n, type[n], message[n])
  IN  packed[Len(type)]

\* internalBinaryWrite.
WriteNested(type, message) == Pack(type, Within(type, message, Pack))
WriteMessage(type, message) == Pack(type, Within(type, message, WriteNested))

\* What a field holds after an entry of its number. Of a message it keeps the
\* bytes: to read one into another is to read the bytes of both in a row.
Taken(field, old, data) ==
  CASE field.kind \in {"strings", "messages"} -> Append(old, data)
    [] field.kind = "floats" -> old \o data
    [] field.kind = "message" -> IF old = << >> THEN <<data>> ELSE <<old[1] \o data>>
    [] OTHER -> data

\* Field by field as they come; a number the type does not have is skipped.
TakeEntry(type, message, entry) ==
  IF entry.no \in DOMAIN type
  THEN [message EXCEPT ![entry.no] = Taken(type[entry.no], message[entry.no], entry.data)]
  ELSE message

\* internalBinaryRead, into the message given.
ReadInto(type, target, bytes) ==
  LET taken[n \in 0..Len(bytes)] ==
        IF n = 0 THEN target ELSE TakeEntry(type, taken[n - 1], bytes[n])
  IN  taken[Len(bytes)]

Unpack(type, bytes) == ReadInto(type, Created(type), bytes)
ReadNested(type, bytes) == Within(type, Unpack(type, bytes), Unpack)
ReadMessage(type, bytes) == Within(type, Unpack(type, bytes), ReadNested)

-----------------------------------------------------------------------------
WireInit ==
  /\ trip = "idle" /\ called = "" /\ path = ""
  /\ build \in {"same", "older", "newer"}
  /\ sent = << >> /\ wire = << >> /\ got = << >>

\* A number that does not fit fails the call before anything is sent.
Call(c, message) ==
  /\ trip = "idle"
  /\ called' = c.fn /\ path' = c.method.name
  /\ sent' = message
  /\ \/ /\ Fits(c.method.I, message)
        /\ trip' = "request"
        /\ wire' = WriteMessage(c.method.I, message)
     \/ /\ ~Fits(c.method.I, message)
        /\ trip' = "refused"
        /\ UNCHANGED wire
  /\ UNCHANGED <<build, got>>

HubReads ==
  /\ trip = "request"
  /\ trip' = "handled"
  /\ got' = ReadMessage(BuiltAs(HandlerOf(path).I), wire)
  /\ UNCHANGED <<called, path, build, sent, wire>>

\* The hub's writer is the library's; its numbers have the width of their field.
HubAnswers(message) ==
  LET type == BuiltAs(HandlerOf(path).O)
  IN  /\ trip = "handled"
      /\ Fits(type, message)
      /\ trip' = "answer"
      /\ sent' = message
      /\ wire' = WriteMessage(type, message)
      /\ UNCHANGED <<called, path, build, got>>

MethodOf(fn) == (CHOOSE c \in ClientMethods : c.fn = fn).method

CallerReads ==
  /\ trip = "answer"
  /\ trip' = "read"
  /\ got' = ReadMessage(MethodOf(called).O, wire)
  /\ UNCHANGED <<called, path, build, sent, wire>>

WireNext ==
  \/ \E c \in ClientMethods : \E message \in Samples(c.method.I) : Call(c, message)
  \/ HubReads
  \/ trip = "handled" /\ \E message \in Samples(BuiltAs(HandlerOf(path).O)) : HubAnswers(message)
  \/ CallerReads

-----------------------------------------------------------------------------
\* What a message is after the trip: floats of 32 bits, and no negative zero.
CarriedField(field, value) ==
  CASE field.kind = "floats" -> [k \in DOMAIN value |-> ToFloat(value[k])]
    [] field.kind = "double" -> IF value = "-0" THEN "0" ELSE value
    [] OTHER -> value

CarriedFlat(type, message) == [i \in DOMAIN type |-> CarriedField(type[i], message[i])]
CarriedNested(type, message) == CarriedFlat(type, Within(type, message, CarriedFlat))
Carried(type, message) == CarriedFlat(type, Within(type, message, CarriedNested))

\* The message as a reader sees it whose type has fewer fields, or more.
SeenAs(type, message) ==
  [i \in DOMAIN type |-> IF i \in DOMAIN message THEN message[i] ELSE Default(type[i])]

\* Whichever method is called, the hub runs the one of that name, and each side
\* reads what the other was given to write: every field both builds know, in
\* messages within messages and for blank and repeated values too, and the
\* default of a field the other's build does not have.
ReadsWhatWasSent ==
  LET handler == HandlerOf(called)
  IN  /\ trip = "handled" =>
           got = SeenAs(BuiltAs(handler.I), Carried(handler.I, sent))
      /\ trip = "read" =>
           LET theirs == BuiltAs(handler.O)
           IN  got = SeenAs(handler.O, Carried(theirs, sent))

WireSpec == WireInit /\ [][WireNext]_wireVars
=============================================================================
