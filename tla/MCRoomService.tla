--------------------------- MODULE MCRoomService ---------------------------
(***************************************************************************)
(* Small instances of RoomService: two requests at a time on a room of two *)
(* clients.                                                                *)
(***************************************************************************)
EXTENDS RoomService

ServiceCards == <<"1">>
ServiceAtoi  == "1" :> 1

Command(kind, sender, arg) == [kind |-> kind, sender |-> sender, arg |-> arg]

Comings == {Command(kind, c, None) : kind \in {"join", "leave"}, c \in ClientIDs}

Votes == {Command("vote", c, "1") : c \in ClientIDs}

Renames == {Command("update-name", c, name) : c \in ClientIDs, name \in ClientNames}

\* One command of each way to save: locked, guarded, unlocked.
Mixed ==
    Comings \cup Votes \cup Renames
        \cup {Command("reveal-votes", c, None) : c \in ClientIDs}

\* Everything that locks.
Locking ==
    Comings \cup Votes
        \cup {Command("toggle-spectator", c, d) : c, d \in ClientIDs}
        \cup {Command("admin-toggle-owner", c, c) : c \in ClientIDs}

\* Every kind of command.
Everything ==
    Mixed \cup Locking
        \cup {Command(kind, c, None) :
                kind \in {"toggle-backlog-mode", "reset", "advance-story",
                          "prev-story", "add-story", "update-story"}, c \in ClientIDs}
        \cup {Command(kind, c, id) :
                kind \in {"remove-story", "select-story"}, c \in ClientIDs, id \in StoryIDs}
        \cup {Command("reorder-story", c, <<id, 0>>) : c \in ClientIDs, id \in StoryIDs}
        \cup {Command("toggle-owner", c, d) : c, d \in ClientIDs}

Symmetry == Permutations(ClientIDs) \cup Permutations(Procs) \cup Permutations(StoryIDs)
=============================================================================
