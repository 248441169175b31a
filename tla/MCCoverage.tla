----------------------------- MODULE MCCoverage -----------------------------
(* Documents and scripts with every outcome of interception, two sources with *)
(* each kind of statement, and a loop that overflows a count.                 *)
EXTENDS Coverage

CONSTANTS IntWidth, Mantissa

(* Some ids whose edges are near each other in the map, negative ones as well *)
MCHash(source, block) == 5 * source + 7 * block

Map == INSTANCE EdgeMap WITH Hash <- MCHash
MCIndexOf(id, location) == Map!EdgeIndex(id, location)
MCLocationOf(id) == Map!Previous(id)
MCBucketOf(count) == Map!Bucket(count)

Sent(status, text, contentType, xml, contents) ==
    [status |-> status, text |-> text, contentType |-> contentType,
     xml |-> xml, scripts |-> contents]
Script(source) == [source |-> source, parses |-> TRUE]
Broken == [source |-> 2, parses |-> FALSE]

MCResponses(type) ==
    IF type = "Document"
    THEN {Sent(200, TRUE, "html", FALSE, <<Script(1)>>),
          Sent(200, TRUE, "html", FALSE, <<Script(1), Broken>>),
          Sent(200, TRUE, "none", TRUE, <<Script(1)>>)}
    ELSE {Sent(200, TRUE, "other", FALSE, <<Script(2)>>),
          Sent(404, TRUE, "other", FALSE, <<Script(2)>>),
          Sent(200, FALSE, "other", FALSE, <<Broken>>)}

Statements(source) ==
    IF source = 1
    THEN Map!Block(<<Map!If(Map!Plain, Map!Plain), Map!For(Map!Plain)>>)
    ELSE Map!Switch(<<Map!Plain, Map!If(Map!Plain, Map!Plain)>>)

AllPaths ==
    [source \in Sources |->
        Map!HooksVisited(source, Statements(source), {1, 16})]
MCPaths(source) == AllPaths[source]
MCIds == {MCHash(source, block) : source \in Sources, block \in 0..3}
=============================================================================
