---------------------------- MODULE MCPipelines ----------------------------
(* A small instance of Pipelines: two owners, two repositories, two spindles. *)
EXTENDS Pipelines

CONSTANTS alice, bob, r1, r2, s1, s2

Owners == r1 :> alice @@ r2 :> bob
Pushers == r1 :> {alice, bob} @@ r2 :> {bob}

PlainClone == [skip |-> FALSE, submodules |-> FALSE, depth |-> 0]
OnMain == [event |-> {"push"}, branch |-> <<{"main", "master"}>>, tag |-> <<>>]
BadTag == [event |-> {"push"}, branch |-> <<>>, tag |-> <<BadPattern>>]

File(name, engine, when) ==
  [name |-> name, parses |-> TRUE, engine |-> engine, when |-> when, clone |-> PlainClone,
   raw |-> "valid"]

test   == File("test", "nixery", <<OnMain>>)
lint   == File("lint", "unheard-of", <<>>)
deploy == [File("deploy", "nixery", <<>>) EXCEPT !.clone.skip = TRUE, !.clone.depth = 1,
             !.raw = "invalid"]
broken == [File("broken", "nixery", <<>>) EXCEPT !.parses = FALSE]
badtag == File("badtag", "nixery", <<BadTag, OnMain>>)

Branch(name) == [kind |-> "push", type |-> "branch", name |-> name]
Tag(name)    == [kind |-> "push", type |-> "tag", name |-> name]

Pushes ==
  {[trigger |-> Branch("main"), files |-> {test}, langs |-> {"go"}, exists |-> TRUE, skipCi |-> FALSE],
   [trigger |-> Branch("main"), files |-> {test}, langs |-> {"nix"}, exists |-> TRUE, skipCi |-> TRUE],
   [trigger |-> Branch("main"), files |-> {}, langs |-> {}, exists |-> FALSE, skipCi |-> FALSE],
   [trigger |-> Tag("v1"), files |-> {test, broken, badtag, lint, deploy}, langs |-> {"go"}, exists |-> TRUE, skipCi |-> FALSE]}

Spindles == Permutations(Spindle)

=============================================================================
