------------------------------ MODULE AccessRules ------------------------------
(***************************************************************************)
(* Who may do what with a space or a page: the WHERE clauses of the store  *)
(* as operators over the rows they read.  A space or a page is open to all *)
(* for a permission that no row of it names.                               *)
(***************************************************************************)

\* A row of space_permissions or page_permissions names its target, the
\* permission and a subject, which is a user or a group.
Subject(type, id) == [type |-> type, id |-> id]

\* The user and the groups of the user, by the rows <<group, user>>.
Subjects(u, members) ==
  {Subject("USER", u)} \cup {Subject("GROUP", m[1]) : m \in {m \in members : m[2] = u}}

Restricted(grants, target, permission) ==
  \E g \in grants : g.target = target /\ g.permission = permission

Granted(grants, target, permission, subjects) ==
  \E g \in grants : g.target = target /\ g.permission = permission /\ g.subject \in subjects

OpenOrGranted(grants, target, permission, subjects) ==
  Restricted(grants, target, permission) => Granted(grants, target, permission, subjects)

\* CanSpace of a user who is no administrator, for a space that exists.
CanSpace(spaceGrants, space, permission, subjects) ==
  OpenOrGranted(spaceGrants, space, permission, subjects)

\* Mutant: a page is as open as its space.
CanPageOfSpace(pageGrants, spaceGrants, page, space, permission, subjects) ==
  OpenOrGranted(spaceGrants, space, permission, subjects)

\* CanPage: the page's own restriction and that of its space; PageByID,
\* PagesInSpace and SearchPages ask it for every page they return.
CanPage(pageGrants, spaceGrants, page, space, permission, subjects) ==
  /\ OpenOrGranted(pageGrants, page, permission, subjects)
  /\ OpenOrGranted(spaceGrants, space, permission, subjects)

\* ListSpaces: the same rule, written out in its query, for VIEW.
ListSpaces(spaceGrants, spaces, subjects) ==
  {s \in spaces :
     \/ ~ \E g \in spaceGrants : g.target = s /\ g.permission = "VIEW"
     \/ \E g \in spaceGrants :
          g.target = s /\ g.permission = "VIEW" /\ g.subject \in subjects}
=============================================================================
