------------------------------ MODULE MCFiles -------------------------------
(***************************************************************************)
(* A few names: a path x (1) that others swap, the program's own name (2)  *)
(* and a descriptor's link to it (3); and a tree, a directory outside it   *)
(* and links, for the calls that walk.                                     *)
(***************************************************************************)
EXTENDS Files

MCKinds == [top |-> "dir", t |-> "dir", s |-> "dir", deep |-> "dir", out |-> "dir", locked |-> "dir",
            art |-> "file", plain |-> "file", other |-> "file", kept |-> "file", secret |-> "file", made |-> "file",
            to_bin |-> "link", to_fd |-> "link", to_out |-> "link", fd3 |-> "descriptor",
            null |-> "inert", tty |-> "device"]
MCLeads == [to_bin |-> <<"top", 2>>, to_fd |-> <<"top", 3>>, to_out |-> <<"top", 2>>, fd3 |-> "art"]
MCUnreadable == {"locked", "secret"}

MCDeed == [call |-> "open", path |-> <<"top", 1>>, artifact |-> TRUE, follow |-> TRUE, trunc |-> FALSE,
         rdonly |-> FALSE, creat |-> FALSE, contents |-> FALSE, loose |-> {}, news |-> {}]
In3(a, b, c) == <<a, b, c>>

(* The calls guarded.                                                      *)
Guarded == [MCDeed EXCEPT !.loose = {<<"top", 1>>, <<"top", 2>>}, !.news = {"art", "plain", "to_bin", "to_fd"}]
GuardedDeeds ==
    {[Guarded EXCEPT !.path = <<"top", p>>, !.follow = f, !.trunc = t, !.rdonly = r, !.creat = c] :
       p \in {1, 3}, f \in BOOLEAN, t \in BOOLEAN, r \in BOOLEAN, c \in BOOLEAN}
    \cup {[Guarded EXCEPT !.path = <<"top", p>>, !.call = c, !.follow = c # "utimensat"] :
            p \in {1, 3}, c \in {"chmod", "chown", "utimensat"}}
    \cup {[Guarded EXCEPT !.artifact = FALSE, !.call = c, !.trunc = t, !.creat = t] :
            c \in {"open", "chmod"}, t \in BOOLEAN}
GuardedScenes ==
    {[deed |-> d, holds |-> [top |-> In3(x, b, "fd3")]] :
       d \in GuardedDeeds, x \in {"none", "art", "plain", "to_bin", "to_fd"},
       b \in {"none", "art", "plain", "to_fd", "to_bin"}}

(* A tree to remove, of two directories, with a directory and a link       *)
(* outside it.                                                             *)
RemoveScene(top, in, low) ==
    [deed |-> [MCDeed EXCEPT !.call = "remove_tree", !.news = {"to_out", "plain"},
                 !.loose = {<<"top", 1>>, <<"top", 3>>, <<"t", 1>>, <<"s", 1>>, <<"out", 1>>, <<"out", 2>>}],
     holds |-> [top |-> In3(top, "out", "to_out"), t |-> In3(in, "plain", "none"),
                s |-> In3(low, "none", "none"), deep |-> In3("secret", "none", "none"),
                out |-> In3("kept", "none", "none"), locked |-> In3("none", "none", "none")]]
RemoveScenes == {RemoveScene("t", in, "other") : in \in {"s", "to_out", "locked"}}
                \cup {RemoveScene("t", "s", "deep"), RemoveScene("to_out", "s", "other"), RemoveScene("none", "s", "other")}

(* A tree to digest, with something of each kind.                          *)
DigestScene(c, top, in, third, low) ==
    [deed |-> [MCDeed EXCEPT !.call = "tree_digest", !.contents = c, !.news = {"other", "to_out"},
                 !.loose = {<<"top", 1>>, <<"t", 1>>, <<"t", 2>>, <<"s", 1>>}],
     holds |-> [top |-> In3(top, "out", "to_out"), t |-> In3(in, "plain", third),
                s |-> In3(low, "none", "null"), deep |-> In3("kept", "none", "none"), out |-> In3("kept", "none", "none"),
                locked |-> In3("none", "none", "none")]]
DigestScenes ==
    {DigestScene(TRUE, "t", "s", third, low) : third \in {"to_out", "tty", "secret"}, low \in {"other", "deep"}}
    \cup {DigestScene(c, top, "locked", "to_out", "none") : c \in BOOLEAN, top \in {"t", "plain", "none"}}

MCScenes == {[deed |-> MCDeed, holds |-> [top |-> In3("plain", "none", "fd3")]]} \cup GuardedScenes \cup RemoveScenes \cup DigestScenes
=============================================================================
