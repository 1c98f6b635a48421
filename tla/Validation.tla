----------------------------- MODULE Validation -----------------------------
(***************************************************************************)
(* What the API takes in (src/app/schemas.py, src/app/recipients.py): the  *)
(* checks on a lead and on recipient addresses, what they change in them,  *)
(* and what Postgres makes of the values they let through.                 *)
(*                                                                         *)
(* A text is a word, possibly with white space around it or a null byte    *)
(* in it.  Statement by statement, with calls at the same time, is Intake. *)
(***************************************************************************)
EXTENDS Integers, FiniteSets, Sequences, SequencesExt, FiniteSetsExt

CONSTANTS
    Words,          \* the words of source_id and idempotency_key, "" is none
    Payloads,       \* JSON values sent as payload
    Values,         \* these and every value inside them
    Depth,          \* how deep each of them is nested
    Urls,           \* URLs sent as recipients
    MaxListed,      \* bound: URLs in one call
    MaxRecipients,  \* settings.max_recipients_per_request
    MaxPayload      \* settings.max_payload_bytes, in distinct parts of a payload

ASSUME LimitAssumption ==
    {MaxListed, MaxRecipients, MaxPayload} \subseteq Nat \ {0}
(* A host is a name, and how it is spelled: with capitals, with the dot of the
   root at its end. *)
Hosts == [name : STRING, capitals : BOOLEAN, dot : BOOLEAN]

ASSUME UrlsAssumption ==
    Urls \subseteq [scheme : STRING, host : Hosts, port : Int, nul : BOOLEAN, padded : BOOLEAN]

VARIABLES
    requests,   \* requests: the stored leads, by key
    deliveries, \* deliveries: the stored URLs, each with its origin
    reply       \* status of the last call, and the payload it sent

vars == <<requests, deliveries, reply>>

----------------------------------------------------------------------------
(* Texts and JSON values. *)

Text == [word : Words, padded : BOOLEAN, nul : BOOLEAN]

Strip(text) == [text EXCEPT !.padded = FALSE]

Blank(text) == text.word = "" /\ ~text.nul

(* A JSON value is a text, a number, a list of values or an object; the key
   of an item matters in an object only. *)
Items(value) == IF value.t \in {"dict", "list"} THEN value.items ELSE {}

(* Values are nested, and not for ever. *)
ASSUME ValuesAssumption ==
    /\ Payloads \subseteq Values
    /\ Depth \in [Values -> Nat]
    /\ \A value \in Values : \A item \in Items(value) :
          item.value \in Values /\ Depth[item.value] < Depth[value]

Keys(value) == IF value.t = "dict" THEN {item.key : item \in Items(value)} ELSE {}

IsNul(text) == text.t = "text" /\ text.nul

(* Broken: the keys of objects are not looked at. *)
NulInValues[value \in Values] ==
    IsNul(value) \/ \E item \in Items(value) : NulInValues[item.value]
ContainsNullByteInValues(value) == NulInValues[value]

(* _contains_null_byte. *)
NulIn[value \in Values] ==
    \/ IsNul(value)
    \/ \E key \in Keys(value) : IsNul(key)
    \/ \E item \in Items(value) : NulIn[item.value]
ContainsNullByte(value) == NulIn[value]

(* Every value inside a value, and every key. *)
PartsOf[value \in Values] ==
    {value} \union Keys(value) \union UNION {PartsOf[item.value] : item \in Items(value)}
Parts(value) == PartsOf[value]

(* The size of a payload. *)
Size(payload) == Cardinality(Parts(payload))

----------------------------------------------------------------------------
(* Recipients. *)

AllowedSchemes == {"http", "https"}

DefaultPort(scheme) == IF scheme = "http" THEN 80 ELSE 443

NoPort == -1
BadPort == -2

(* normalize_url: whether it takes the URL, and the URL it returns. *)
UrlAccepted(url) == /\ ~url.nul
                    /\ url.scheme \in AllowedSchemes
                    /\ url.host.name # ""
                    /\ url.port # BadPort

NormalizedUrl(url) == [url EXCEPT !.padded = FALSE]

(* Capitals are lowered; a dot at the end stays. *)
Lower(host) == [host EXCEPT !.capitals = FALSE]

(* `parts.port or DEFAULT_PORTS[...]`: a port of 0 counts as none. *)
Port(url) == IF url.port \in {NoPort, 0} THEN DefaultPort(url.scheme) ELSE url.port

(* origin_of. *)
OriginOf(url) == [scheme |-> url.scheme, host |-> Lower(url.host), port |-> Port(url)]

RecipientsAccepted(recipients) == \A i \in DOMAIN recipients : UrlAccepted(recipients[i])

(* What is stored of recipients: the normalized URLs with their origins. *)
Stored(recipients) ==
    {[url |-> NormalizedUrl(u), origin |-> OriginOf(u)] : u \in ToSet(recipients)}

----------------------------------------------------------------------------
(* IntakeRequest. *)

(* Broken: a key is stored as it was sent. *)
KeyUnstripped(text) == text

(* _strip_required: the key that is stored. *)
KeyOf(text) == Strip(text)

KeyAccepted(text) == ~Blank(text) /\ ~text.nul

PayloadAccepted(payload) ==
    /\ payload.t = "dict" /\ payload.items # {}
    /\ ~ContainsNullByte(payload)
    /\ Size(payload) <= MaxPayload

LeadAccepted(lead) == /\ KeyAccepted(lead.key)
                      /\ PayloadAccepted(lead.payload)
                      /\ RecipientsAccepted(lead.recipients)
                      /\ Len(lead.recipients) <= MaxRecipients

(* Postgres stores a JSON value unless it has a null byte or a number that is
   not JSON, which json.loads takes and json.dumps writes. *)
Storable(payload) ==
    \A part \in Parts(payload) : /\ part.t = "text" => ~part.nul
                                 /\ part.t = "number" => part.finite

Lists == UNION {[1..n -> Urls] : n \in 0..MaxListed}

Leads == [key : Text, payload : Payloads, recipients : Lists]

Replies(status, payload) == reply' = [status |-> status, payload |-> payload]

NoPayload == [t |-> "dict", items |-> {}]

----------------------------------------------------------------------------

Init == /\ requests = {}
        /\ deliveries = {}
        /\ reply = [status |-> 0, payload |-> NoPayload]

(* _validation_handler: 422, and the endpoint is never entered. *)
Refuse(payload) == Replies(422, payload) /\ UNCHANGED <<requests, deliveries>>

(* create_request. *)
Create(lead) ==
    /\ LeadAccepted(lead)
    /\ \/ /\ ~Storable(lead.payload)
          /\ Replies(500, lead.payload)
          /\ UNCHANGED <<requests, deliveries>>
       \/ /\ Storable(lead.payload)
          /\ KeyOf(lead.key) \in requests
          /\ Replies(200, lead.payload)
          /\ UNCHANGED <<requests, deliveries>>
       \/ /\ Storable(lead.payload)
          /\ KeyOf(lead.key) \notin requests
          /\ Replies(201, lead.payload)
          /\ requests' = requests \union {KeyOf(lead.key)}
          /\ deliveries' = deliveries \union Stored(lead.recipients)

AttachmentAccepted(recipients) == recipients # <<>> /\ RecipientsAccepted(recipients)

(* add_recipients; the id of a lead is one the service gave out, or not. *)
Attach(recipients) ==
    /\ AttachmentAccepted(recipients)
    /\ \/ /\ requests # {}
          /\ Replies(200, NoPayload)
          /\ deliveries' = deliveries \union Stored(recipients)
       \/ /\ Replies(404, NoPayload)
          /\ UNCHANGED deliveries
    /\ UNCHANGED requests

Next == \/ \E lead \in Leads : Create(lead) \/ (~LeadAccepted(lead) /\ Refuse(lead.payload))
        \/ \E rs \in Lists : Attach(rs) \/ (~AttachmentAccepted(rs) /\ Refuse(NoPayload))

Spec == Init /\ [][Next]_vars

----------------------------------------------------------------------------
(* Properties. *)

(* A null byte at any depth of a payload, in an object's keys too, is refused
   in the shape of any other validation error and never fails in the INSERT:
   what does fail there has a number that is not JSON and no null byte. *)
NullByteNeverCrashes ==
    reply.status = 500 => \A part \in Parts(reply.payload) : part.t = "text" => ~part.nul

(* The unique index on the key sees one lead where a sender repeats a key with
   other white space around it, and only there. *)
OneLeadPerKey ==
    /\ \A k \in requests : k.word # "" /\ ~k.nul
    /\ \A k, l \in requests : k.word = l.word => k = l

----------------------------------------------------------------------------
(* What the repository says of the program and the program does not do. *)

(* "200: Already accepted earlier", "201: Accepted and queued", "422: The lead
   is malformed; nothing was stored" (create_request), or 404 for an
   attachment: every call is answered with one of these. *)
OnlyDocumentedAnswers == reply.status \in {0, 200, 201, 404, 422}

(* "every URL on one host shares one budget of concurrent delivery slots"
   (origin_of), per scheme and port as it goes on to say: spellings of a host's
   name do not count.  The dot of the root does. *)
OneBudgetPerHost ==
    \A d, e \in deliveries :
        /\ d.url.host.name = e.url.host.name
        /\ d.origin.scheme = e.origin.scheme /\ d.origin.port = e.origin.port
        => d.origin = e.origin
=============================================================================
