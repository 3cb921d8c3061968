------------------------------- MODULE Files --------------------------------
(***************************************************************************)
(* The calls of core/syscalls_fs.c that take several steps over names      *)
(* another process may be changing: open, chmod, chown and utimensat,      *)
(* which must not reach the program's own file (the artifact) through a    *)
(* descriptor's link when no name of it is in view; remove_tree; and       *)
(* tree_digest.                                                            *)
(*                                                                         *)
(* A place is a part of a path in a directory, and holds a node.  A call   *)
(* of the kernel is one step and resolves its path within it; the calls of *)
(* a handler are steps of their own, and others change places between      *)
(* them.  A path here is one part: a directory above it that is swapped is *)
(* a link at that part that is swapped.  The handlers are Linux's.         *)
(***************************************************************************)
EXTENDS Naturals, Sequences, FiniteSets

CONSTANTS
    Parts,      \* the parts a path may have, numbers in strcmp's order
    KindOf,     \* each node's kind: "dir", "file", "link", "descriptor", "inert", "device"
    LeadsTo,    \* the place a link's text names; the node a descriptor's link reaches
    Unreadable,       \* the nodes this process may not read
    Art,        \* the artifact's node
    MadeNode,   \* the node of a file the open makes
    Scenes,     \* the calls made: [holds, deed]
    MaxShifts,  \* bound: changes others make and reads that fail during a call
    MaxLinks,   \* the links followed before ELOOP, 40
    MaxDepth,   \* REMOVE_DEPTH_MAX and TREE_DEPTH_MAX
    MaxPasses   \* REMOVE_PASSES_MAX

VARIABLES
    holds,      \* each directory's parts: the node held, or NoNode
    deed,       \* the call: [call, path, artifact, follow, trunc, rdonly, creat, contents, loose, news]
    stage,      \* the handler's next step
    cursor,     \* the entry it is at: [place, links, then, name, node]
    opened,     \* the node its descriptor holds
    dirs_open,     \* the directories it has open
    touched,    \* the nodes whose contents, mode, owner or times it changed
    removed,    \* the places it removed an entry of
    lines,      \* the digest's lines: [name, kind, of, has]
    special,    \* whether the digest's tree is special
    file_errno, \* how it ended: "ok" or an errno
    shifts,     \* changes made by others, and reads of the disk that failed
    everNamed,  \* whether a plain name of the artifact was in view during the call
    vacated,    \* whether the call's path named nothing, at a moment of the call
    within      \* directories that were in the tree, or came beneath one, during the call

callVars == <<stage, cursor, opened, dirs_open, touched, removed, lines, special, file_errno>>
filesVars == <<holds, deed, callVars, shifts, everNamed, vacated, within>>

NoNode == "none"
FsDirs == DOMAIN holds
NodeAt(place) == holds[place[1]][place[2]]
IsDir(node) == node # NoNode /\ KindOf[node] = "dir"
IsLink(node) == node # NoNode /\ KindOf[node] \in {"link", "descriptor"}

-----------------------------------------------------------------------------
(* The disk, and what others saw of it.                                    *)

NamedIn(disk) == \E d \in DOMAIN disk, n \in Parts : disk[d][n] = Art

(* The directories of `dirs` and all beneath them.                         *)
Beneath(dirs, disk) ==
    LET down[k \in 0 .. Cardinality(DOMAIN disk)] ==
          IF k = 0 THEN dirs
          ELSE LET so_far == down[k - 1]
               IN  so_far \cup {x \in DOMAIN disk : \E d \in so_far, n \in Parts : disk[d][n] = x}
    IN  down[Cardinality(DOMAIN disk)]

Notes(disk) ==
    /\ everNamed' = (everNamed \/ NamedIn(disk))
    /\ vacated' = (vacated \/ disk[deed.path[1]][deed.path[2]] = NoNode)
    /\ within' = Beneath(within \cup ({disk[deed.path[1]][deed.path[2]]} \cap DOMAIN disk), disk)

(* A removed directory takes no more entries.                              *)
Attached(d) == d = deed.path[1] \/ \E e \in FsDirs, n \in Parts : holds[e][n] = d

Shifts(disk) ==
    /\ stage # "done" /\ shifts < MaxShifts /\ shifts' = shifts + 1
    /\ holds' = disk /\ Notes(disk)
    /\ UNCHANGED <<deed, callVars>>

(* Another process puts a file, a link or nothing where no directory is.   *)
Puts(p, node) ==
    /\ Attached(p[1]) /\ ~IsDir(NodeAt(p)) /\ NodeAt(p) # node
    /\ Shifts([holds EXCEPT ![p[1]][p[2]] = node])

(* Another process renames one place to another, or exchanges the two.     *)
Exchanges(p, q) ==
    /\ Attached(p[1]) /\ Attached(q[1]) /\ NodeAt(p) # NodeAt(q)
    /\ IsDir(NodeAt(p)) => q[1] \notin Beneath({NodeAt(p)}, holds)
    /\ IsDir(NodeAt(q)) => p[1] \notin Beneath({NodeAt(q)}, holds)
    /\ Shifts([d \in FsDirs |-> [n \in Parts |->
                 IF <<d, n>> = p THEN NodeAt(q) ELSE IF <<d, n>> = q THEN NodeAt(p) ELSE holds[d][n]]])

(* The kernel's own resolution of a place.                                 *)
Resolved(place, follow) ==
    LET go[k \in 0 .. MaxLinks, p \in FsDirs \X Parts] ==
          LET x == NodeAt(p) IN
          CASE x = NoNode -> [node |-> x, place |-> p, error |-> "ENOENT"]
            [] x # NoNode /\ ~(IsLink(x) /\ follow) -> [node |-> x, place |-> p, error |-> "ok"]
            [] IsLink(x) /\ follow /\ k = 0 -> [node |-> x, place |-> p, error |-> "ELOOP"]
            [] IsLink(x) /\ follow /\ k > 0 ->
                 IF KindOf[x] = "link" THEN go[k - 1, LeadsTo[x]]
                 ELSE [node |-> LeadsTo[x], place |-> p, error |-> "ok"]
    IN  go[MaxLinks, place]

FilesInit ==
    /\ \E s \in Scenes : holds = s.holds /\ deed = s.deed
    /\ stage = "begin"
    /\ cursor = [place |-> deed.path, links |-> 0, then |-> "none", name |-> <<>>, node |-> NoNode]
    /\ opened = NoNode /\ dirs_open = <<>> /\ touched = {} /\ removed = {}
    /\ lines = <<>> /\ special = FALSE /\ file_errno = "ok" /\ shifts = 0
    /\ everNamed = NamedIn(holds) /\ vacated = (NodeAt(deed.path) = NoNode)
    /\ within = Beneath({NodeAt(deed.path)} \cap FsDirs, holds)

Unseen == <<deed, shifts, everNamed, vacated, within>>

(* The handler returns.                                                    *)
Ends(error) == stage' = "done" /\ file_errno' = error /\ dirs_open' = <<>>

-----------------------------------------------------------------------------
(* The artifact's guard.                                                   *)

GuardOnly == UNCHANGED <<Unseen, removed, lines, special>>

(* After the guard let the call on: what it was asked before.              *)
GuardPasses(then) ==
    CASE then = "before" -> stage' = "open" /\ UNCHANGED <<file_errno, dirs_open>>
      [] then = "opened" /\ deed.trunc -> stage' = "truncate" /\ UNCHANGED <<file_errno, dirs_open>>
      [] then = "opened" /\ ~deed.trunc -> Ends("ok")
      [] then = "probed" -> stage' = "act" /\ UNCHANGED <<file_errno, dirs_open>>

(* artifact_through_descriptor: another file than the artifact is let on;  *)
(* the artifact's path is walked again.                                    *)
artifact_through_descriptor(node, then) ==
    IF deed.artifact /\ node = Art
    THEN /\ stage' = "walk" /\ cursor' = [cursor EXCEPT !.place = deed.path, !.links = 0, !.then = then]
         /\ UNCHANGED <<file_errno, dirs_open>>
    ELSE GuardPasses(then) /\ UNCHANGED cursor

(* One part of the walk: held, and read from what is held when a link.     *)
WalkFinds(node, error) ==
    IF error = "ok" /\ node = Art THEN GuardPasses(cursor.then)
    ELSE Ends(IF error \in {"ok", "EACCES", "ELOOP"} \/ cursor.then # "before" THEN "EACCES" ELSE error)

walk_without_descriptor_links ==
    /\ stage = "walk"
    /\ LET x == NodeAt(cursor.place) IN
       CASE x = NoNode -> WalkFinds(x, "ENOENT") /\ UNCHANGED cursor
         [] x # NoNode /\ ~(IsLink(x) /\ deed.follow) -> WalkFinds(x, "ok") /\ UNCHANGED cursor
         [] IsLink(x) /\ deed.follow /\ KindOf[x] = "descriptor" -> WalkFinds(x, "EACCES") /\ UNCHANGED cursor
         [] IsLink(x) /\ deed.follow /\ KindOf[x] = "link" ->
              IF cursor.links = MaxLinks THEN WalkFinds(x, "ELOOP") /\ UNCHANGED cursor
              ELSE /\ cursor' = [cursor EXCEPT !.place = LeadsTo[x], !.links = @ + 1]
                   /\ UNCHANGED <<stage, file_errno, dirs_open>>
    /\ UNCHANGED <<holds, opened, touched>> /\ GuardOnly

(* What is asked before the open; a path that names nothing is let on.     *)
OpenChecks ==
    /\ stage = "begin" /\ deed.call = "open"
    /\ artifact_through_descriptor(Resolved(deed.path, deed.follow).node, "before")
    /\ UNCHANGED <<holds, opened, touched>> /\ GuardOnly

(* The open, which leaves a truncation for later when there is an artifact. *)
Open(truncates) ==
    /\ stage = "open"
    /\ LET r == Resolved(deed.path, deed.follow) IN
       CASE r.error = "ok" /\ ~IsLink(r.node) ->
              /\ opened' = r.node
              /\ touched' = IF deed.trunc /\ truncates /\ KindOf[r.node] = "file" THEN touched \cup {r.node} ELSE touched
              /\ IF deed.artifact THEN artifact_through_descriptor(r.node, "opened")
                 ELSE Ends("ok") /\ UNCHANGED cursor
              /\ UNCHANGED holds
         [] r.error = "ENOENT" /\ deed.creat ->
              /\ holds' = [holds EXCEPT ![r.place[1]][r.place[2]] = MadeNode]
              /\ opened' = MadeNode /\ UNCHANGED <<cursor, touched>>
              /\ IF deed.artifact THEN GuardPasses("opened") ELSE Ends("ok")
         [] OTHER -> /\ Ends(IF r.error = "ok" THEN "ELOOP" ELSE r.error)
                     /\ UNCHANGED <<holds, cursor, opened, touched>>
    /\ GuardOnly

open_truncates == Open(TRUE)

open == Open(~deed.artifact)

(* An open for reading alone truncates through /proc, which may be absent  *)
(* or refuse it.                                                           *)
truncate_opened ==
    /\ stage = "truncate"
    /\ \/ /\ touched' = IF KindOf[opened] = "file" THEN touched \cup {opened} ELSE touched
          /\ Ends("ok")
       \/ deed.rdonly /\ KindOf[opened] = "file" /\ UNCHANGED touched /\ Ends("ENOENT")
    /\ UNCHANGED <<holds, cursor, opened>> /\ GuardOnly

(* probe_file: the file is held before it is judged.                       *)
probe_file ==
    /\ stage = "begin" /\ deed.call \in {"chmod", "chown", "utimensat"} /\ deed.artifact
    /\ LET r == Resolved(deed.path, deed.follow) IN
       IF r.error # "ok" THEN Ends(r.error) /\ UNCHANGED <<cursor, opened>>
       ELSE opened' = r.node /\ artifact_through_descriptor(r.node, "probed")
    /\ UNCHANGED <<holds, touched>> /\ GuardOnly

(* The change, made on the file held, by the descriptor or its /proc name; *)
(* it may be refused.                                                      *)
ActOn(node) ==
    /\ \/ touched' = touched \cup {node} /\ Ends("ok")
       \/ UNCHANGED touched /\ Ends("EPERM")
    /\ UNCHANGED <<holds, cursor, opened>> /\ GuardOnly

(* With no artifact there is nothing to judge, and the call is by name.    *)
ActByName ==
    LET r == Resolved(deed.path, deed.follow) IN
    IF r.error = "ok" THEN ActOn(r.node)
    ELSE Ends(r.error) /\ UNCHANGED <<holds, cursor, opened, touched>> /\ GuardOnly

Acts == \/ stage = "begin" /\ ~deed.artifact /\ ActByName
        \/ stage = "act" /\ ActOn(opened)

chmod == deed.call = "chmod" /\ Acts
chown == deed.call = "chown" /\ Acts
utimensat == deed.call = "utimensat" /\ Acts

GuardedNext ==
    \/ OpenChecks \/ open \/ truncate_opened \/ walk_without_descriptor_links
    \/ probe_file \/ chmod \/ chown \/ utimensat

-----------------------------------------------------------------------------
(* remove_tree.                                                            *)

RemoveOnly == UNCHANGED <<Unseen, opened, touched, lines, special>>
In(dir) == {n \in Parts : holds[dir][n] # NoNode}

remove_tree ==
    /\ stage = "begin" /\ deed.call = "remove_tree"
    /\ stage' = "enter"
    /\ UNCHANGED <<holds, cursor, dirs_open, removed, file_errno>> /\ RemoveOnly

(* remove_entry of the cursor's entry answered 0: back to its directory.   *)
Back(stack) ==
    /\ dirs_open' = stack
    /\ IF stack = <<>> THEN stage' = "done" /\ file_errno' = "ok" ELSE stage' = "list" /\ UNCHANGED file_errno

(* The entry opened as a directory, and no link, or found to be none.      *)
remove_entry ==
    /\ stage = "enter"
    /\ LET node == NodeAt(cursor.place) IN
       \/ Len(dirs_open) > MaxDepth /\ Ends("ENAMETOOLONG")
       \/ Len(dirs_open) <= MaxDepth /\ node = NoNode /\ Back(dirs_open)
       \/ Len(dirs_open) <= MaxDepth /\ node # NoNode /\ ~IsDir(node) /\ stage' = "unlink" /\ UNCHANGED <<dirs_open, file_errno>>
       \/ Len(dirs_open) <= MaxDepth /\ IsDir(node) /\ node \in Unreadable /\ Ends("EACCES")
       \/ /\ Len(dirs_open) <= MaxDepth /\ IsDir(node) /\ node \notin Unreadable
          /\ \/ Ends("ENOMEM")
             \/ /\ dirs_open' = Append(dirs_open, [place |-> cursor.place, dir |-> node, there |-> In(node),
                                             seen |-> {}, passes |-> 0])
                /\ stage' = "list" /\ UNCHANGED file_errno
    /\ UNCHANGED <<holds, cursor, removed>> /\ RemoveOnly

(* unlinkat of the cursor's entry.                                         *)
Unlinks == /\ holds' = [holds EXCEPT ![cursor.place[1]][cursor.place[2]] = NoNode]
           /\ removed' = removed \cup {cursor.place}
           /\ Notes(holds') /\ UNCHANGED <<deed, shifts>>
Leaves == UNCHANGED <<holds, removed, Unseen>>

UnlinkEntry ==
    /\ stage = "unlink"
    /\ LET x == NodeAt(cursor.place) IN
       \/ x = NoNode /\ Back(dirs_open) /\ Leaves
       \/ IsDir(x) /\ Ends("EISDIR") /\ Leaves
       \/ x # NoNode /\ ~IsDir(x) /\ Unlinks /\ Back(dirs_open)
    /\ UNCHANGED <<cursor, opened, touched, lines, special>>

(* A pass over the innermost directory: each entry there since the rewind  *)
(* is answered once, one that came or went since may be or may not.        *)
Pass ==
    /\ stage = "list"
    /\ LET top == Len(dirs_open)
           f == dirs_open[top] IN
       \/ \E n \in (In(f.dir) \cup f.there) \ f.seen :
             /\ dirs_open' = [dirs_open EXCEPT ![top].seen = @ \cup {n}]
             /\ cursor' = [cursor EXCEPT !.place = <<f.dir, n>>] /\ stage' = "enter" /\ UNCHANGED file_errno
       \/ /\ In(f.dir) \cap f.there \subseteq f.seen /\ f.seen = {}
          /\ dirs_open' = SubSeq(dirs_open, 1, top - 1)
          /\ cursor' = [cursor EXCEPT !.place = f.place] /\ stage' = "rmdir" /\ UNCHANGED file_errno
       \/ /\ In(f.dir) \cap f.there \subseteq f.seen /\ f.seen # {} /\ UNCHANGED cursor
          /\ IF f.passes + 1 >= MaxPasses THEN Ends("ENOTEMPTY")
             ELSE /\ dirs_open' = [dirs_open EXCEPT ![top] = [@ EXCEPT !.there = In(f.dir), !.seen = {}, !.passes = @ + 1]]
                  /\ UNCHANGED <<stage, file_errno>>
       \/ Ends("EIO") /\ UNCHANGED cursor
    /\ UNCHANGED <<holds, removed>> /\ RemoveOnly

RemoveDirectory ==
    /\ stage = "rmdir"
    /\ LET x == NodeAt(cursor.place) IN
       \/ x = NoNode /\ Back(dirs_open) /\ Leaves
       \/ x # NoNode /\ ~IsDir(x) /\ Ends("ENOTDIR") /\ Leaves
       \/ IsDir(x) /\ In(x) # {} /\ Ends("ENOTEMPTY") /\ Leaves
       \/ IsDir(x) /\ In(x) = {} /\ Unlinks /\ Back(dirs_open)
    /\ UNCHANGED <<cursor, opened, touched, lines, special>>

RemoveNext == remove_tree \/ remove_entry \/ UnlinkEntry \/ Pass \/ RemoveDirectory

(* What remove_tree's caller is told: ENOTDIR is nothing there to remove.  *)
RemoveAnswer == IF file_errno = "ENOTDIR" THEN "ok" ELSE file_errno

-----------------------------------------------------------------------------
(* tree_digest.                                                            *)

DigestOnly == UNCHANGED <<holds, Unseen, opened, touched, removed>>

tree_digest ==
    /\ stage = "begin" /\ deed.call = "tree_digest"
    /\ IF NodeAt(deed.path) = NoNode THEN Ends("ENOENT") ELSE stage' = "stat" /\ UNCHANGED <<file_errno, dirs_open>>
    /\ UNCHANGED <<cursor, lines, special>> /\ DigestOnly

(* tree_line, and tree_unseen, which makes the tree special.               *)
Line(kind, node, has) == [name |-> cursor.name, kind |-> kind, of |-> node, has |-> has]
Says(said) == lines' = lines \o said
UnseenLine == Line("!", NoNode, "unseen")

(* On to the next entry of the innermost directory that has one left.      *)
On(stack) ==
    LET more == {k \in DOMAIN stack : stack[k].left # <<>>} IN
    IF more = {} THEN Ends("ok") /\ UNCHANGED cursor
    ELSE LET k == CHOOSE k \in more : \A j \in more : j <= k
             f == stack[k] IN
         /\ dirs_open' = Append(SubSeq(stack, 1, k - 1), [f EXCEPT !.left = Tail(@)])
         /\ cursor' = [cursor EXCEPT !.place = <<f.dir, Head(f.left)>>, !.name = Append(f.name, Head(f.left))]
         /\ stage' = "stat" /\ UNCHANGED file_errno

Depth == Len(cursor.name)

(* The entry's lstat, and what follows from its kind.                      *)
tree_walk_entry ==
    /\ stage = "stat"
    /\ LET x == NodeAt(cursor.place)
           kind == IF x = NoNode THEN "none" ELSE KindOf[x]
           Then(next) == /\ stage' = next /\ cursor' = [cursor EXCEPT !.node = x]
                         /\ UNCHANGED <<dirs_open, file_errno, special>>
       IN
       \/ kind = "none" /\ Says(<<UnseenLine>>) /\ special' = TRUE /\ On(dirs_open)
       \/ IsLink(x) /\ Then("readlink") /\ UNCHANGED lines
       \/ kind = "file" /\ deed.contents /\ Then("digest") /\ UNCHANGED lines
       \/ kind = "file" /\ ~deed.contents /\ Says(<<Line("f", x, "stamp")>>) /\ On(dirs_open) /\ UNCHANGED special
       \/ kind \in {"inert", "device"} /\ Says(<<Line("o", x, "stamp")>>) /\ On(dirs_open)
          /\ special' = (special \/ kind = "device")
       \/ kind = "dir" /\ Depth < MaxDepth /\ Says(<<Line("d", x, "stamp")>>) /\ Then("opendir")
       \/ kind = "dir" /\ Depth >= MaxDepth /\ Says(<<Line("d", x, "stamp"), UnseenLine>>) /\ special' = TRUE /\ On(dirs_open)
    /\ DigestOnly

ReadLink ==
    /\ stage = "readlink"
    /\ LET x == NodeAt(cursor.place) IN
       \/ IsLink(x) /\ Says(<<Line("l", x, "text")>>) /\ UNCHANGED special
       \/ ~IsLink(x) /\ Says(<<UnseenLine>>) /\ special' = TRUE
    /\ On(dirs_open) /\ DigestOnly

(* The file opened again by its name is read only if it is the one seen.   *)
tree_file_digest ==
    /\ stage = "digest"
    /\ LET x == NodeAt(cursor.place)
           opens == x # NoNode /\ ~IsLink(x)
           same == x = cursor.node IN
       \/ ~opens /\ Says(<<UnseenLine>>) /\ special' = TRUE
       \/ opens /\ x \in Unreadable /\ Says(<<Line("f", cursor.node, "refused")>>) /\ UNCHANGED special
       \/ opens /\ x \notin Unreadable /\ same /\ Says(<<Line("f", cursor.node, x)>>) /\ UNCHANGED special
       \/ opens /\ x \notin Unreadable /\ ~same /\ Says(<<UnseenLine>>) /\ special' = TRUE
    /\ On(dirs_open) /\ DigestOnly

(* The directory opened and its names listed in order.                     *)
InOrder(set) == CHOOSE s \in [1 .. Cardinality(set) -> set] : \A i, j \in DOMAIN s : i < j => s[i] < s[j]

ListDirectory ==
    /\ stage = "opendir"
    /\ LET x == NodeAt(cursor.place) IN
       \/ ~IsDir(x) /\ Says(<<UnseenLine>>) /\ special' = TRUE /\ On(dirs_open)
       \/ IsDir(x) /\ x \in Unreadable /\ Says(<<Line("-", cursor.node, "refused")>>) /\ UNCHANGED special /\ On(dirs_open)
       \/ /\ IsDir(x) /\ x \notin Unreadable /\ UNCHANGED <<special, lines>>
          /\ \/ On(Append(dirs_open, [dir |-> x, left |-> InOrder(In(x)), name |-> cursor.name]))
             \/ Ends("ENOMEM") /\ UNCHANGED cursor
    /\ DigestOnly

(* A read of the file fails, or of the directory: the names that came      *)
(* before are gone into.                                                   *)
ReadFails ==
    /\ stage \in {"digest", "opendir"} /\ shifts < MaxShifts /\ shifts' = shifts + 1
    /\ LET x == NodeAt(cursor.place) IN
       /\ x # NoNode /\ ~IsLink(x) /\ x \notin Unreadable
       /\ Says(<<UnseenLine>>) /\ special' = TRUE
       /\ \/ stage = "digest" /\ On(dirs_open)
          \/ /\ stage = "opendir" /\ IsDir(x)
             /\ \E some \in SUBSET In(x) :
                   On(Append(dirs_open, [dir |-> x, left |-> InOrder(some), name |-> cursor.name]))
    /\ UNCHANGED <<holds, deed, everNamed, vacated, within, opened, touched, removed>>

DigestNext == tree_digest \/ tree_walk_entry \/ ReadLink \/ tree_file_digest \/ ListDirectory \/ ReadFails

-----------------------------------------------------------------------------
Others == \/ \E p \in deed.loose, k \in deed.news \cup {NoNode} : Puts(p, k)
          \/ \E p, q \in deed.loose : Exchanges(p, q)

FilesNext == GuardedNext \/ RemoveNext \/ DigestNext \/ Others

FilesSpec == FilesInit /\ [][FilesNext]_filesVars

-----------------------------------------------------------------------------
Finished(calls) == stage = "done" /\ deed.call \in calls

(* Whether the path, as it is, reaches its file through a descriptor.      *)
ThroughDescriptor ==
    deed.follow /\ Resolved(deed.path, TRUE).error = "ok" /\ IsLink(NodeAt(Resolved(deed.path, TRUE).place))

(* open, chmod, chown and utimensat change the artifact, or answer a       *)
(* descriptor of it, only if a plain name of it was in view at a moment of *)
(* the call, whatever others swapped on the path between the steps; a call *)
(* that fails changed nothing; and on a path nobody changed the artifact   *)
(* is refused exactly when a descriptor's link leads to it.                *)
ArtifactGuarded ==
    /\ deed.artifact /\ (Art \in touched \/ (file_errno = "ok" /\ stage = "done" /\ opened = Art)) => everNamed
    /\ Finished({"open", "chmod", "chown", "utimensat"}) /\ file_errno # "ok" => touched = {}
    /\ Finished({"open", "chmod", "chown", "utimensat"}) /\ deed.artifact /\ shifts = 0 =>
          (file_errno = "EACCES") = (ThroughDescriptor /\ Resolved(deed.path, TRUE).node = Art)

(* remove_tree removes only the entry it was given and entries of          *)
(* directories that were in its tree during the call, whatever links and   *)
(* directories others swap in; when every step answered 0, the path named  *)
(* nothing at a moment of the call.                                        *)
RemovesItsOwn ==
    /\ \A p \in removed : p = deed.path \/ p[1] \in within
    /\ Finished({"remove_tree"}) /\ file_errno = "ok" => vacated

(* The node a name below the tree is, and the lines of a tree at rest.     *)
NodeNamed(name) ==
    LET down[i \in 0 .. Len(name)] ==
          IF i = 0 THEN NodeAt(deed.path)
          ELSE LET above == down[i - 1]
               IN  IF IsDir(above) /\ above \notin Unreadable THEN holds[above][name[i]] ELSE NoNode
    IN  down[Len(name)]
TreeNames == {name \in UNION {[1 .. n -> Parts] : n \in 0 .. MaxDepth} : NodeNamed(name) # NoNode}
LinesAtRest ==
    UNION {LET x == NodeNamed(name)
               line(kind, of, has) == [name |-> name, kind |-> kind, of |-> of, has |-> has]
           IN  CASE KindOf[x] = "dir" ->
                      {line("d", x, "stamp")} \cup
                      (IF Len(name) >= MaxDepth THEN {line("!", NoNode, "unseen")}
                       ELSE IF x \in Unreadable THEN {line("-", x, "refused")} ELSE {})
                 [] KindOf[x] = "file" ->
                      {line("f", x, IF ~deed.contents THEN "stamp" ELSE IF x \in Unreadable THEN "refused" ELSE x)}
                 [] IsLink(x) -> {line("l", x, "text")}
                 [] OTHER -> {line("o", x, "stamp")} : name \in TreeNames}

(* tree_digest of a tree nobody changes says each entry once, by its name, *)
(* and is special exactly when an entry answers from past the tree or goes *)
(* unseen; of a tree that changes, a digest that is not special joins no   *)
(* file's mode with another file's contents.  Siblings are told in order.  *)
DigestTrue ==
    Finished({"tree_digest"}) /\ file_errno = "ok" =>
    /\ ~special => \A i \in DOMAIN lines : lines[i].kind = "f" => lines[i].has \in {lines[i].of, "stamp", "refused"}
    /\ shifts = 0 => /\ {lines[i] : i \in DOMAIN lines} = LinesAtRest
                     /\ Len(lines) = Cardinality(LinesAtRest)
                     /\ special = \E l \in LinesAtRest : l.kind = "!" \/ (l.kind = "o" /\ KindOf[l.of] = "device")
    /\ \A i, j \in DOMAIN lines :
          LET a == lines[i].name  b == lines[j].name IN
          i < j /\ Len(a) = Len(b) /\ Len(a) > 0 /\ SubSeq(a, 1, Len(a) - 1) = SubSeq(b, 1, Len(b) - 1)
             => a[Len(a)] <= b[Len(b)]

(* What the three kinds of call promise amid the changes of others.        *)
FilesHold == ArtifactGuarded /\ RemovesItsOwn /\ DigestTrue

(* remove_tree that answers ok removed its entry: "an entry swapped for a  *)
(* link by a process still running while this walks is removed too".       *)
RemovedWhenOk == Finished({"remove_tree"}) /\ RemoveAnswer = "ok" => vacated
=============================================================================
