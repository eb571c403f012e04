--------------------------- MODULE MCSnapshotImport ---------------------------
(* Small sources, asked for as a whole or without users and spaces.        *)
EXTENDS SnapshotImport

Blank == [entity |-> "USER", name |-> "", of |-> 0, member |-> 0, user |-> "",
          group |-> "", permission |-> ""]

User(name) == [Blank EXCEPT !.name = name]
Group(name) == [Blank EXCEPT !.entity = "GROUP", !.name = name]
Member(group, user) ==
  [Blank EXCEPT !.entity = "GROUP_MEMBER", !.of = group, !.member = user]
Space(key) == [Blank EXCEPT !.entity = "SPACE", !.name = key]
Child(entity, of, user) == [Blank EXCEPT !.entity = entity, !.of = of, !.user = user]
Permission(entity, of, permission, user, group) ==
  [Blank EXCEPT !.entity = entity, !.of = of, !.permission = permission,
                !.user = user, !.group = group]

\* A space for a group and a page in it for one of its members.
Team == <<User("ann"), User("bob"), User("cy"), Group("dev"), Member(4, 1), Member(4, 2),
          Space("S"), Child("PAGE", 7, "ann"), Child("COMMENT", 8, "bob"),
          Permission("SPACE_PERMISSION", 7, "VIEWSPACE", "", "dev"),
          Permission("PAGE_PERMISSION", 8, "VIEW", "ann", "")>>

\* Two permissions that mean the same, one for nobody, one for two subjects,
\* a page without a space, an attachment without a page.
Odd == <<User("ann"), Space("S"), Child("PAGE", 0, ""), Child("ATTACHMENT", 0, ""),
         Permission("SPACE_PERMISSION", 2, "EDITSPACE", "ann", ""),
         Permission("SPACE_PERMISSION", 2, "EDITPAGE", "ann", ""),
         Permission("SPACE_PERMISSION", 2, "VIEWSPACE", "", ""),
         Permission("PAGE_PERMISSION", 3, "VIEW", "ann", "dev")>>

\* A permission and the user it is for: a job over it may end COMPLETE after the
\* user's record has failed.
Small == <<User("ann"), Space("S"),
           Permission("SPACE_PERMISSION", 2, "VIEWSPACE", "ann", "")>>

SomeSources == {Team, Odd, Small}

\* A page for a user who is gone.
Gone == <<User("ann"), Space("S"), Child("PAGE", 2, "ann"),
          Permission("PAGE_PERMISSION", 3, "VIEW", "zed", "")>>

GoneOnly == {Gone}

\* The hypotheses under which AccessNotWidened and CompleteJobPasses are proved
\* for all sources.
ASSUME InstanceAssumption == NamesOnce /\ RecordsOnce

WholeOrRest == {Entities, Content \cup Permissions}
=============================================================================
