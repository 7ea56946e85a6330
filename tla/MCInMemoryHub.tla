--------------------------- MODULE MCInMemoryHub ---------------------------
(***************************************************************************)
(* A small instance of InMemoryHub: two requests at a time on a room of    *)
(* two clients, with commands of every way to save.                        *)
(***************************************************************************)
EXTENDS InMemoryHub

HubCards == <<"1">>
HubAtoi  == "1" :> 1

Command(kind, sender, arg) == [kind |-> kind, sender |-> sender, arg |-> arg]

Mixed ==
    {Command(kind, c, None) :
        kind \in {"join", "leave", "reveal-votes", "add-story"}, c \in ClientIDs}
    \cup {Command("vote", c, "1") : c \in ClientIDs}
    \cup {Command("toggle-spectator", c, d) : c, d \in ClientIDs}
    \cup {Command("admin-toggle-owner", c, c) : c \in ClientIDs}
    \cup {Command("update-name", c, name) : c \in ClientIDs, name \in ClientNames}

Symmetry == Permutations(ClientIDs) \cup Permutations(Procs)
=============================================================================
