---------------------------- MODULE MCValidation ----------------------------
(* Validation on small instances: the payloads and the URLs that are sent. *)
EXTENDS Validation

Plain == [t |-> "text", nul |-> FALSE]
Nul == [t |-> "text", nul |-> TRUE]
Number == [t |-> "number", finite |-> TRUE]
NotJson == [t |-> "number", finite |-> FALSE]

Dict(key, value) == [t |-> "dict", items |-> {[key |-> key, value |-> value]}]
List(values) == [t |-> "list", items |-> {[key |-> Plain, value |-> v] : v \in values}]

MCPayloads ==
    {Plain, Dict(Plain, Plain), Dict(Plain, Nul), Dict(Nul, Plain), Dict(Plain, NotJson),
     Dict(Plain, List({Number, Nul})), Dict(Plain, List({Plain, Number})),
     Dict(Plain, Dict(Nul, Number)), Dict(Plain, List({NotJson, Nul})),
     Dict(Plain, List({Dict(Plain, List({Plain, Number}))}))}

Host(name) == [name |-> name, capitals |-> FALSE, dot |-> FALSE]

Url(scheme, name, port) ==
    [scheme |-> scheme, host |-> Host(name), port |-> port, nul |-> FALSE, padded |-> FALSE]

(* A value and everything nested in it, and how deep it is nested. *)
RECURSIVE Within(_)
Within(value) == {value} \union UNION {Within(item.value) : item \in Items(value)}

RECURSIVE Height(_)
Height(value) == IF Items(value) = {} THEN 0
                 ELSE 1 + Max({Height(item.value) : item \in Items(value)})

MCValues == UNION {Within(payload) : payload \in MCPayloads}

MCDepth == [value \in MCValues |-> Height(value)]

MCUrls ==
    {Url("http", "crm", NoPort), Url("http", "crm", 0),
     [Url("http", "crm", 80) EXCEPT !.host.capitals = TRUE],
     [Url("http", "crm", NoPort) EXCEPT !.host.dot = TRUE],
     Url("ftp", "crm", NoPort), Url("http", "", NoPort), Url("http", "crm", BadPort),
     [Url("http", "crm", NoPort) EXCEPT !.padded = TRUE],
     [Url("http", "crm", NoPort) EXCEPT !.nul = TRUE]}
=============================================================================
