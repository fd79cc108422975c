--------------------------- MODULE PageAccess_proofs ---------------------------
(***************************************************************************)
(* The rules of page access hold for any tree of pages, users and groups:  *)
(* the queries agree, the sidebar leads to every page that may be opened,  *)
(* and no use of the permission dialog and of the tree raises its user or  *)
(* locks him out.                                                          *)
(***************************************************************************)
EXTENDS PageAccess, TLAPS

-------------------------------------------------------------------------------
(* Chains.  up is the parent of each page; the lemmas speak of any up, for  *)
(* a step compares the tree before it with the tree after it.               *)

Parents == [Page -> Page \cup {Nil}]

Closed(up, T) == \A q \in T : up[q] # Nil => up[q] \in T

\* The page and all above it.
Chain(up, p) == {q \in Page : \A T \in SUBSET Page : p \in T /\ Closed(up, T) => q \in T}

\* Going up leads out of every set of pages.
Climbs(up) == \A S \in (SUBSET Page) \ {{}} : \E p \in S : up[p] \notin S

\* A chain begins with its page and goes on with the parent of each member.
LEMMA ChainClosed ==
  ASSUME NEW up \in Parents, NEW p \in Page
  PROVE  p \in Chain(up, p) /\ Closed(up, Chain(up, p)) /\ Chain(up, p) \subseteq Page
  BY DEF Chain, Closed, Parents

\* It is the least set that does.
LEMMA ChainLeast ==
  ASSUME NEW up, NEW p, NEW T \in SUBSET Page, p \in T, Closed(up, T)
  PROVE  Chain(up, p) \subseteq T
  BY DEF Chain

\* What is above a member is above the page.
LEMMA ChainAbove ==
  ASSUME NEW up \in Parents, NEW p \in Page, NEW q \in Chain(up, p)
  PROVE  Chain(up, q) \subseteq Chain(up, p)
  BY ChainClosed, ChainLeast

\* All but the page itself is above its parent.
LEMMA ChainNext ==
  ASSUME NEW up \in Parents, NEW p \in Page, NEW q \in Chain(up, p), q # p
  PROVE  up[p] \in Page /\ q \in Chain(up, up[p])
  <1>1. CASE up[p] = Nil
    <2>1. Closed(up, {p})
      BY <1>1 DEF Closed
    <2> QED
      BY <2>1, ChainLeast
  <1>2. CASE up[p] # Nil
    <2>1. up[p] \in Page
      BY <1>2 DEF Parents
    <2>2. Closed(up, {p} \cup Chain(up, up[p]))
      BY <2>1, ChainClosed DEF Closed
    <2> QED
      BY <2>1, <2>2, ChainLeast, ChainClosed
  <1> QED
    BY <1>1, <1>2

\* Every member but the page has a child in the chain.
LEMMA ChainChild ==
  ASSUME NEW up \in Parents, NEW p \in Page, NEW q \in Chain(up, p), q # p
  PROVE  \E c \in Chain(up, p) : up[c] = q
  <1> SUFFICES ASSUME \A c \in Chain(up, p) : up[c] # q PROVE FALSE
    OBVIOUS
  <1>1. Closed(up, Chain(up, p) \ {q})
    BY ChainClosed DEF Closed
  <1> QED
    BY <1>1, ChainLeast, ChainClosed

\* Of two members one is above the other.
LEMMA ChainLinear ==
  ASSUME NEW up \in Parents, NEW p \in Page, NEW a \in Chain(up, p), NEW b \in Chain(up, p)
  PROVE  a \in Chain(up, b) \/ b \in Chain(up, a)
  <1> DEFINE T == {q \in Chain(up, p) : a \in Chain(up, q) \/ q \in Chain(up, a)}
  <1>1. a \in Page /\ b \in Page
    BY ChainClosed
  <1>2. ASSUME NEW q \in T, up[q] # Nil PROVE up[q] \in T
    <2>1. up[q] \in Chain(up, p) /\ q \in Page
      BY <1>2, ChainClosed DEF Closed
    <2>2. CASE q \in Chain(up, a)
      BY <1>1, <1>2, <2>1, <2>2, ChainClosed DEF Closed
    <2>3. CASE a \in Chain(up, q) /\ a # q
      BY <2>1, <2>3, ChainNext
    <2>4. CASE a = q
      BY <1>1, <2>2, <2>4, ChainClosed
    <2> QED
      BY <2>2, <2>3, <2>4
  <1>3. Closed(up, T)
    BY <1>2 DEF Closed
  <1>4. p \in T
    BY ChainClosed
  <1>5. Chain(up, p) \subseteq T
    BY <1>3, <1>4, ChainClosed, ChainLeast
  <1> QED
    BY <1>5

\* Where going up leads out of every set, no two pages are above each other.
LEMMA ChainOnce ==
  ASSUME Nil \notin Page, NEW up \in Parents, Climbs(up), NEW a \in Page, NEW b \in Page,
         a \in Chain(up, b), b \in Chain(up, a)
  PROVE  a = b
  <1> SUFFICES ASSUME a # b PROVE FALSE
    OBVIOUS
  <1> DEFINE S == {q \in Chain(up, a) : a \in Chain(up, q)}
  <1>1. a \in S /\ S \subseteq Page
    BY ChainClosed
  <1>2. PICK q \in S : up[q] \notin S
    BY <1>1 DEF Climbs
  <1>3. q \in Page /\ q \in Chain(up, a) /\ a \in Chain(up, q)
    BY <1>1
  <1>4. CASE q # a
    <2>1. up[q] \in Page /\ a \in Chain(up, up[q])
      BY <1>3, <1>4, ChainNext
    <2>2. up[q] \in Chain(up, a)
      BY <1>3, <2>1, ChainClosed DEF Closed
    <2> QED
      BY <1>2, <2>1, <2>2
  <1>5. CASE q = a
    <2>1. up[a] \in Page /\ b \in Chain(up, up[a])
      BY ChainNext
    <2>2. a \in Chain(up, up[a])
      BY <2>1, ChainAbove
    <2>3. up[a] \in Chain(up, a)
      BY <2>1, ChainClosed DEF Closed
    <2> QED
      BY <1>2, <1>5, <2>2, <2>3
  <1> QED
    BY <1>4, <1>5

\* Some restricted page of a chain has all others above it, and only one.
LEMMA NearestIs ==
  ASSUME Nil \notin Page, NEW up \in Parents, Climbs(up), NEW p \in Page, NEW A,
         Chain(up, p) \cap A # {}
  PROVE  \E a \in Chain(up, p) \cap A :
            /\ Chain(up, p) \cap A \subseteq Chain(up, a)
            /\ \A b \in Chain(up, p) \cap A :
                  Chain(up, p) \cap A \subseteq Chain(up, b) => b = a
  <1> DEFINE R == Chain(up, p) \cap A
             S == {q \in Chain(up, p) : R \subseteq Chain(up, q)}
  <1>1. p \in S /\ S \subseteq Page /\ R \subseteq Page
    BY ChainClosed
  <1>2. PICK a \in S : up[a] \notin S
    BY <1>1 DEF Climbs
  <1>3. a \in Page /\ a \in Chain(up, p) /\ R \subseteq Chain(up, a)
    BY <1>1
  <1>4. a \in A
    <2> SUFFICES ASSUME a \notin A PROVE FALSE
      OBVIOUS
    <2>1. \A b \in R : b # a /\ b \in Chain(up, a)
      BY <1>3
    <2>2. up[a] \in Page /\ R \subseteq Chain(up, up[a])
      BY <1>3, <2>1, ChainNext
    <2>3. up[a] \in Chain(up, p)
      BY <1>3, <2>2, ChainClosed DEF Closed
    <2> QED
      BY <1>2, <2>2, <2>3
  <1>5. \A b \in R : R \subseteq Chain(up, b) => b = a
    BY <1>1, <1>3, <1>4, ChainOnce
  <1> QED
    BY <1>3, <1>4, <1>5

\* A page hung below q, which is not below it, closes no circle.
LEMMA GraftClimbs ==
  ASSUME Nil \notin Page, NEW up \in Parents, Climbs(up), NEW p \in Page, NEW q \in Page \cup {Nil},
         q # Nil => p \notin Chain(up, q)
  PROVE  Climbs([up EXCEPT ![p] = q])
  <1> DEFINE down == [up EXCEPT ![p] = q]
  <1>1. \A x \in Page : down[x] = IF x = p THEN q ELSE up[x]
    BY DEF Parents
  <1> HIDE DEF down
  <1> SUFFICES ASSUME NEW S \in (SUBSET Page) \ {{}} PROVE \E x \in S : down[x] \notin S
    BY DEF Climbs, down
  <1>2. CASE p \notin S
    BY <1>1, <1>2 DEF Climbs
  <1>3. CASE p \in S /\ q \notin S
    BY <1>1, <1>3
  <1>4. CASE p \in S /\ q \in S
    <2>1. q \in Page /\ q \in Chain(up, q) /\ Closed(up, Chain(up, q))
      BY <1>4, ChainClosed
    <2>2. PICK x \in S \cap Chain(up, q) : up[x] \notin S \cap Chain(up, q)
      BY <1>4, <2>1 DEF Climbs
    <2>3. up[x] \notin S
      BY <2>1, <2>2 DEF Closed
    <2> QED
      BY <1>1, <2>1, <2>2, <2>3
  <1> QED
    BY <1>2, <1>3, <1>4

\* It has no effect on the chains it is not in.
LEMMA GraftElsewhere ==
  ASSUME NEW up \in Parents, NEW p \in Page, NEW q \in Page \cup {Nil}, NEW x \in Page,
         p \notin Chain(up, x),
         NEW down \in Parents, down[p] = q, \A y \in Page \ {p} : down[y] = up[y]
  PROVE  Chain(down, x) = Chain(up, x)
  <1>1. Closed(down, Chain(up, x))
    BY ChainClosed DEF Closed
  <1>2. Chain(down, x) \subseteq Chain(up, x)
    BY <1>1, ChainLeast, ChainClosed
  <1>3. Closed(up, Chain(down, x))
    BY <1>2, ChainClosed DEF Closed
  <1>4. Chain(up, x) \subseteq Chain(down, x)
    BY <1>3, ChainLeast, ChainClosed
  <1> QED
    BY <1>2, <1>4

\* In the chains it is in, what was above it is replaced by the chain of q.
LEMMA GraftChain ==
  ASSUME Nil \notin Page, NEW up \in Parents, Climbs(up), NEW p \in Page, NEW q \in Page \cup {Nil},
         q # Nil => p \notin Chain(up, q), NEW x \in Page, p \in Chain(up, x),
         NEW down \in Parents, down[p] = q, \A y \in Page \ {p} : down[y] = up[y]
  PROVE  \A y : y \in Chain(down, x) <=> \/ y \in Chain(up, x) /\ y \notin Chain(up, p)
                                         \/ y = p
                                         \/ q # Nil /\ y \in Chain(up, q)
  <1> DEFINE top  == IF q = Nil THEN {} ELSE Chain(up, q)
             new  == (Chain(up, x) \ Chain(up, p)) \cup {p} \cup top
  <1>1. down \in Parents /\ \A y \in Page : down[y] = IF y = p THEN q ELSE up[y]
    OBVIOUS
  <1>2. top \subseteq Page /\ p \notin top /\ Closed(up, top) /\ (q # Nil => q \in top)
    BY ChainClosed DEF Closed
  <1> HIDE DEF top
  <1>3. \A y \in Chain(up, x) \ Chain(up, p) : y \in Page /\ y # p /\ p \in Chain(up, y)
    BY ChainLinear, ChainClosed
  <1>4. ASSUME NEW y \in new, down[y] # Nil PROVE down[y] \in new
    <2>1. CASE y = p
      BY <1>1, <1>2, <1>4, <2>1
    <2>2. CASE y \in top
      BY <1>1, <1>2, <1>4, <2>2 DEF Closed
    <2>3. CASE y \in Chain(up, x) \ Chain(up, p)
      <3>1. y \in Page /\ y # p /\ p \in Chain(up, y) /\ down[y] = up[y]
        BY <1>1, <1>3, <2>3
      <3>2. up[y] \in Page /\ p \in Chain(up, up[y]) /\ up[y] \in Chain(up, x)
        BY <2>3, <3>1, ChainNext, ChainClosed DEF Closed
      <3>3. up[y] \in Chain(up, p) => up[y] = p
        BY <3>2, ChainOnce
      <3> QED
        BY <3>1, <3>2, <3>3
    <2> QED
      BY <2>1, <2>2, <2>3
  <1>5. x \in new
    BY ChainClosed, ChainOnce
  <1>6. Chain(down, x) \subseteq new
    <2>1. new \subseteq Page
      BY <1>2, ChainClosed
    <2>2. Closed(down, new)
      BY <1>4 DEF Closed
    <2> HIDE DEF new
    <2> QED
      BY <1>5, <2>1, <2>2, ChainLeast
  <1>7. x \in Chain(down, x) /\ Closed(down, Chain(down, x)) /\ Chain(down, x) \subseteq Page
    BY <1>1, ChainClosed
  <1>8. Chain(up, x) \subseteq Chain(down, x) \cup Chain(up, p)
    <2>1. Closed(up, Chain(down, x) \cup Chain(up, p))
      BY <1>1, <1>7, ChainClosed DEF Closed
    <2> QED
      BY <1>7, <2>1, ChainClosed, ChainLeast
  <1>9. p \in Chain(down, x)
    <2>1. CASE p = x
      BY <1>7, <2>1
    <2>2. CASE p # x
      <3>1. PICK c \in Chain(up, x) : up[c] = p
        BY <2>2, ChainChild
      <3>2. c \in Page /\ p \in Chain(up, c)
        BY <3>1, ChainClosed DEF Closed
      <3>3. c # p
        <4> SUFFICES ASSUME c = p PROVE FALSE
          OBVIOUS
        <4>1. PICK y \in {p} : up[y] \notin {p}
          BY DEF Climbs
        <4> QED
          BY <3>1, <4>1
      <3>4. c \notin Chain(up, p)
        BY <3>2, <3>3, ChainOnce
      <3> QED
        BY <1>1, <1>7, <1>8, <3>1, <3>2, <3>3, <3>4 DEF Closed
    <2> QED
      BY <2>1, <2>2
  <1>4a. top \subseteq Chain(down, x)
    <2>1. CASE q = Nil
      BY <2>1 DEF top
    <2>2. CASE q # Nil
      <3>1. q \in Page /\ down[p] = q /\ q \in Chain(down, x)
        BY <1>1, <1>7, <1>9, <2>2 DEF Closed
      <3>2. Chain(down, q) = Chain(up, q)
        BY <2>2, <3>1, GraftElsewhere
      <3> QED
        BY <1>1, <2>2, <3>1, <3>2, ChainAbove DEF top
    <2> QED
      BY <2>1, <2>2
  <1> QED
    BY <1>6, <1>8, <1>9, <1>4a DEF top
-------------------------------------------------------------------------------
(* What the queries of the repository say, in terms of chains.             *)

LEMMA BelowIs == \A p, q \in Page : IsBelow(p, q) <=> q \in Chain(parent, p)
  <1> SUFFICES ASSUME NEW p \in Page, NEW q \in Page
               PROVE  IsBelow(p, q) <=> q \in Chain(parent, p)
    OBVIOUS
  <1>1. ASSUME IsBelow(p, q), q # p, NEW T \in SUBSET Page, p \in T, Closed(parent, T)
        PROVE  q \in T
    <2> SUFFICES ASSUME q \notin T PROVE FALSE
      OBVIOUS
    <2>1. (T \ {p}) \in SUBSET (Page \ {p, q}) /\ (T \ {p}) \cup {p} = T
      BY <1>1
    <2>2. ClosedUp(T)
      BY <1>1 DEF Closed, ClosedUp
    <2> QED
      BY <1>1, <2>1, <2>2 DEF IsBelow
  <1>2. ASSUME q \in Chain(parent, p), NEW T \in SUBSET (Page \ {p, q}), ClosedUp(T \cup {p})
        PROVE  q = p
    <2>1. Closed(parent, T \cup {p})
      BY <1>2 DEF Closed, ClosedUp
    <2> QED
      BY <1>2, <2>1 DEF Chain
  <1> QED
    BY <1>1, <1>2 DEF IsBelow, Chain

LEMMA BelowWillBe == \A p, q \in Page : IsBelow(p, q)' <=> q \in Chain(parent', p)
  <1>1. (\A p, q \in Page : IsBelow(p, q) <=> q \in Chain(parent, p))'
    BY BelowIs, PTL
  <1> QED
    BY <1>1

\* The restricted pages over p, p included.
Over(p) == Chain(parent, p) \cap access

\* All of them have a role for u.
Opens(u, p) == \A a \in Over(p) : RolesOn(u, a) # {}

\* The one nearest to p has the role of a writer for u.
Writes(u, p) == \E a \in Over(p) : Over(p) \subseteq Chain(parent, a) /\ "writer" \in RolesOn(u, a)

(* The inductive invariant: the pages never hang in a circle, for nobody   *)
(* moves a page below itself.                                              *)
IInv == TypeOK /\ Climbs(parent)

LEMMA ChainIs == IInv => \A p \in Page : RestrictedChain(p) = Over(p)
  BY BelowIs DEF RestrictedChain, Over, IInv, TypeOK, Chain

\* The choice of the nearest restriction is no choice.
LEMMA NearestGives ==
    IInv => \A u \in User, p \in Page : Over(p) # {} =>
      /\ NearestRestricted(p) \in Over(p)
      /\ "writer" \in RolesOn(u, NearestRestricted(p)) <=> Writes(u, p)
  <1> SUFFICES ASSUME IInv, NEW u \in User, NEW p \in Page, Over(p) # {}
               PROVE  /\ NearestRestricted(p) \in Over(p)
                      /\ "writer" \in RolesOn(u, NearestRestricted(p)) <=> Writes(u, p)
    OBVIOUS
  <1> DEFINE n == CHOOSE a \in Over(p) : \A b \in Over(p) : IsBelow(a, b)
  <1>1. parent \in Parents /\ Climbs(parent) /\ access \subseteq Page
    BY DEF IInv, TypeOK, Parents
  <1>2. Over(p) \subseteq Page
    BY <1>1 DEF Over
  <1>3. NearestRestricted(p) = n
    BY ChainIs DEF NearestRestricted
  <1>4. \A a \in Over(p) :
          (\A b \in Over(p) : IsBelow(a, b)) <=> Over(p) \subseteq Chain(parent, a)
    BY <1>2, BelowIs
  <1>5. PICK a \in Over(p) : /\ Over(p) \subseteq Chain(parent, a)
                             /\ \A b \in Over(p) : Over(p) \subseteq Chain(parent, b) => b = a
    BY <1>1, NilAssumption, NearestIs DEF Over
  <1>6. n \in Over(p) /\ \A b \in Over(p) : IsBelow(n, b)
    BY <1>4, <1>5
  <1>7. n \in Over(p) /\ Over(p) \subseteq Chain(parent, n)
    BY <1>4, <1>6
  <1>8. n = a
    BY <1>5, <1>7
  <1> HIDE DEF n
  <1> QED
    BY <1>3, <1>5, <1>7, <1>8 DEF Writes

\* What the joined rows say of one restricted page.
LEMMA Joined ==
    IInv => \A u \in User, a \in Page :
      /\ Nil \in JoinedRoles(u, a) <=> RolesOn(u, a) = {}
      /\ HighestRole(JoinedRoles(u, a)) = "writer" <=> "writer" \in RolesOn(u, a)
  <1> SUFFICES ASSUME IInv, NEW u \in User, NEW a \in Page
               PROVE  /\ Nil \in JoinedRoles(u, a) <=> RolesOn(u, a) = {}
                      /\ HighestRole(JoinedRoles(u, a)) = "writer" <=> "writer" \in RolesOn(u, a)
    OBVIOUS
  <1>1. Nil \notin RolesOn(u, a) /\ Nil # "writer"
    BY NilAssumption DEF RolesOn, Role
  <1> QED
    BY <1>1 DEF JoinedRoles, HighestRole

\* The query of the dialog and of the lists.
LEMMA AccessIs == IInv => \A u \in User, p \in Page : CanUserAccessPage(u, p) <=> Opens(u, p)
  <1> SUFFICES ASSUME IInv, NEW u \in User, NEW p \in Page
               PROVE  CanUserAccessPage(u, p) <=> Opens(u, p)
    OBVIOUS
  <1>1. Over(p) \subseteq Page
    BY DEF Over, IInv, TypeOK
  <1> QED
    BY <1>1, ChainIs, Joined DEF CanUserAccessPage, Opens

\* The query of the request guard and of the collaboration server.
LEMMA EditQueryIs ==
    IInv => \A u \in User, p \in Page :
      /\ CanUserEditPage(u, p).hasAnyRestriction <=> Over(p) # {}
      /\ CanUserEditPage(u, p).canAccess <=> Opens(u, p)
      /\ CanUserEditPage(u, p).canEdit <=> Opens(u, p) /\ (Over(p) # {} => Writes(u, p))
  <1> SUFFICES ASSUME IInv, NEW u \in User, NEW p \in Page
               PROVE  /\ CanUserEditPage(u, p).hasAnyRestriction <=> Over(p) # {}
                      /\ CanUserEditPage(u, p).canAccess <=> Opens(u, p)
                      /\ CanUserEditPage(u, p).canEdit
                           <=> Opens(u, p) /\ (Over(p) # {} => Writes(u, p))
    OBVIOUS
  <1>1. Over(p) \subseteq Page
    BY DEF Over, IInv, TypeOK
  <1>2. CASE Over(p) = {}
    <2>1. CanUserEditPage(u, p) = [hasAnyRestriction |-> FALSE, canAccess |-> TRUE, canEdit |-> TRUE]
      BY <1>2, ChainIs DEF CanUserEditPage
    <2> QED
      BY <1>2, <2>1 DEF Opens
  <1>3. CASE Over(p) # {}
    <2> DEFINE every == \A a \in Over(p) : Nil \notin JoinedRoles(u, a)
               edit  == every /\ HighestRole(JoinedRoles(u, NearestRestricted(p))) = "writer"
    <2>1. CanUserEditPage(u, p) = [hasAnyRestriction |-> TRUE, canAccess |-> every, canEdit |-> edit]
      BY <1>3, ChainIs DEF CanUserEditPage
    <2>2. every \in BOOLEAN /\ (every <=> Opens(u, p))
      BY <1>1, Joined DEF Opens
    <2>3. edit \in BOOLEAN /\ (edit <=> Opens(u, p) /\ Writes(u, p))
      BY <1>1, <1>3, <2>2, NearestGives, Joined
    <2> HIDE DEF every, edit
    <2> QED
      BY <1>3, <2>1, <2>2, <2>3
  <1> QED
    BY <1>2, <1>3

LEMMA Views ==
    IInv => \A u \in User, p \in Page :
      ValidateCanView(u, p) <=> IF Over(p) = {} THEN spaceRole[u] # Nil ELSE Opens(u, p)
  BY EditQueryIs DEF ValidateCanView

LEMMA Edits ==
    IInv => \A u \in User, p \in Page :
      ValidateCanEdit(u, p) <=> IF Over(p) = {} THEN spaceRole[u] = "writer"
                                                ELSE Opens(u, p) /\ Writes(u, p)
  BY EditQueryIs DEF ValidateCanEdit

-------------------------------------------------------------------------------
(* The inductive invariant.                                                *)

LEMMA InductiveInit == Init => IInv
  <1> SUFFICES ASSUME Init PROVE IInv
    OBVIOUS
  <1>1. TypeOK
    BY SpaceRolesAssumption DEF Init, TypeOK
  <1>2. Climbs(parent)
    BY NilAssumption DEF Init, Climbs
  <1> QED
    BY <1>1, <1>2 DEF IInv

LEMMA InductiveStep == IInv /\ [Next]_vars => IInv'
  <1> SUFFICES ASSUME IInv, [Next]_vars PROVE IInv'
    OBVIOUS
  <1> USE DEF TypeOK, IInv
  <1>1. ASSUME NEW u \in User, NEW p \in Page, NEW members \in [Member \ {u} -> Role \cup {Nil}],
               SetPagePermissions(u, p, members)
        PROVE  IInv'
    <2>1. [m \in Member |-> IF m = u THEN "writer" ELSE members[m]] \in [Member -> Role \cup {Nil}]
      BY DEF Role
    <2> QED
      BY <1>1, <2>1 DEF SetPagePermissions, Member
  <1>2. ASSUME NEW u \in User, NEW p \in Page, ClearPagePermissions(u, p) PROVE IInv'
    BY <1>2 DEF ClearPagePermissions
  <1>3. ASSUME NEW u \in User, NEW p \in Page, NEW q \in Page \cup {Nil}, MovePage(u, p, q)
        PROVE  IInv'
    <2>1. q # Nil => p \notin Chain(parent, q)
      BY <1>3, BelowIs DEF MovePage
    <2>2. Climbs(parent')
      BY <1>3, <2>1, NilAssumption, GraftClimbs DEF MovePage, Parents
    <2> QED
      BY <1>3, <2>2 DEF MovePage
  <1>4. ASSUME NEW u \in User, NEW g \in Group, AddToGroup(u, g) PROVE IInv'
    BY <1>4 DEF AddToGroup
  <1>5. ASSUME NEW u \in User, NEW g \in Group, RemoveFromGroup(u, g) PROVE IInv'
    BY <1>5 DEF RemoveFromGroup
  <1>6. ASSUME NEW g \in Group, DeleteGroup(g) PROVE IInv'
    BY <1>6 DEF DeleteGroup, Member
  <1>7. CASE UNCHANGED vars
    BY <1>7 DEF vars
  <1> QED
    BY <1>1, <1>2, <1>3, <1>4, <1>5, <1>6, <1>7 DEF Next, Acts

LEMMA Invariance == Spec => []IInv
  BY InductiveInit, InductiveStep, PTL DEF Spec

\* The rows have their types, and only a restricted page has permissions.
THEOREM Typing == Spec => []TypeOK
  <1>1. IInv => TypeOK
    BY DEF IInv
  <1> QED
    BY <1>1, Invariance, PTL

-------------------------------------------------------------------------------
(* The queries agree.                                                      *)

\* What the sidebar's query says of one page.
Row(u, p) == [id |-> p, hasAnyRestriction |-> HasRestrictedAncestor(p),
              canEdit |-> NearestGivesWriter(u, p)]

LEMMA RowIs ==
    IInv => \A u \in User, p \in Page :
      /\ Row(u, p).id = p
      /\ Row(u, p).hasAnyRestriction <=> Over(p) # {}
      /\ Row(u, p).canEdit <=> (Over(p) # {} => Writes(u, p))
  <1> SUFFICES ASSUME IInv, NEW u \in User, NEW p \in Page
               PROVE  /\ Row(u, p).id = p
                      /\ Row(u, p).hasAnyRestriction <=> Over(p) # {}
                      /\ Row(u, p).canEdit <=> (Over(p) # {} => Writes(u, p))
    OBVIOUS
  <1> DEFINE any == HasRestrictedAncestor(p)
             can == NearestGivesWriter(u, p)
  <1>1. any \in BOOLEAN /\ (any <=> Over(p) # {})
    BY ChainIs DEF HasRestrictedAncestor
  <1>2. can \in BOOLEAN /\ (can <=> (Over(p) # {} => Writes(u, p)))
    BY <1>1, NearestGives DEF NearestGivesWriter
  <1>3. Row(u, p) = [id |-> p, hasAnyRestriction |-> any, canEdit |-> can]
    BY DEF Row
  <1> HIDE DEF any, can
  <1> QED
    BY <1>1, <1>2, <1>3

\* An entry of the sidebar, for a row r of the query and the rows it is among.
Entry(u, r, shown) ==
  [id |-> r.id,
   canEdit |-> IF r.hasAnyRestriction THEN r.canEdit ELSE spaceRole[u] = "writer",
   hasChildren |-> r.id \in GetParentIdsWithAccessibleChildren(shown, u)]

LEMMA EntryIs ==
    IInv => \A u \in User, p \in Page : \A shown : Opens(u, p) =>
      /\ Entry(u, Row(u, p), shown).id = p
      /\ Entry(u, Row(u, p), shown).canEdit <=> ValidateCanEdit(u, p)
      /\ Entry(u, Row(u, p), shown).hasChildren
           <=> p \in shown /\ \E c \in Children(p) : Opens(u, c)
  <1> SUFFICES ASSUME IInv, NEW u \in User, NEW p \in Page, NEW shown, Opens(u, p)
               PROVE  /\ Entry(u, Row(u, p), shown).id = p
                      /\ Entry(u, Row(u, p), shown).canEdit <=> ValidateCanEdit(u, p)
                      /\ Entry(u, Row(u, p), shown).hasChildren
                           <=> p \in shown /\ \E c \in Children(p) : Opens(u, c)
    OBVIOUS
  <1> DEFINE r   == Row(u, p)
             can == IF r.hasAnyRestriction THEN r.canEdit ELSE spaceRole[u] = "writer"
             has == r.id \in GetParentIdsWithAccessibleChildren(shown, u)
  <1>1. Entry(u, r, shown) = [id |-> r.id, canEdit |-> can, hasChildren |-> has]
    BY DEF Entry
  <1>2. /\ r.id = p
        /\ r.hasAnyRestriction <=> Over(p) # {}
        /\ r.canEdit <=> (Over(p) # {} => Writes(u, p))
    BY RowIs
  <1> HIDE DEF r
  <1>3. can <=> ValidateCanEdit(u, p)
    BY <1>2, Edits
  <1>4. has \in BOOLEAN /\ (has <=> p \in shown /\ \E c \in Children(p) : Opens(u, c))
    BY <1>2, AccessIs DEF GetParentIdsWithAccessibleChildren, Children
  <1> HIDE DEF can, has
  <1> QED
    BY <1>1, <1>2, <1>3, <1>4 DEF r

\* A member sees the pages of a level that he may open, with what he may do.
LEMMA SidebarIs ==
    IInv => \A u \in User, p \in Page : spaceRole[u] # Nil =>
      /\ Opens(u, p) <=> \E e \in SidebarPages(u, parent[p]) : e.id = p
      /\ Opens(u, p) /\ ValidateCanEdit(u, p)
           <=> \E e \in SidebarPages(u, parent[p]) : e.id = p /\ e.canEdit
      /\ Opens(u, p) /\ (\E c \in Children(p) : Opens(u, c))
           => \E e \in SidebarPages(u, parent[p]) : e.id = p /\ e.hasChildren
  <1> SUFFICES ASSUME IInv, NEW u \in User, NEW p \in Page, spaceRole[u] # Nil
               PROVE  /\ Opens(u, p) <=> \E e \in SidebarPages(u, parent[p]) : e.id = p
                      /\ Opens(u, p) /\ ValidateCanEdit(u, p)
                           <=> \E e \in SidebarPages(u, parent[p]) : e.id = p /\ e.canEdit
                      /\ Opens(u, p) /\ (\E c \in Children(p) : Opens(u, c))
                           => \E e \in SidebarPages(u, parent[p]) : e.id = p /\ e.hasChildren
    OBVIOUS
  <1> DEFINE items == Children(parent[p])
             pages == SidebarPages(u, parent[p])
  <1>1. p \in items /\ items \subseteq Page
    BY DEF Children
  <1>2. CASE access = {}
    <2> DEFINE can == spaceRole[u] = "writer"
               Plain(x) == [id |-> x, canEdit |-> can, hasChildren |-> Children(x) # {}]
    <2>1. pages = {Plain(x) : x \in items}
      BY <1>2 DEF SidebarPages, HasRestrictedPagesInSpace
    <2>2. Opens(u, p) /\ (can <=> ValidateCanEdit(u, p)) /\ can \in BOOLEAN
      BY <1>2, Edits DEF Opens, Over
    <2> HIDE DEF can
    <2>3. ASSUME NEW x \in items
          PROVE  /\ Plain(x).id = x
                 /\ Plain(x).canEdit <=> can
                 /\ Plain(x).hasChildren <=> Children(x) # {}
      <3> DEFINE has == Children(x) # {}
      <3>1. has \in BOOLEAN
        OBVIOUS
      <3> HIDE DEF has
      <3>2. Plain(x) = [id |-> x, canEdit |-> can, hasChildren |-> has]
        BY DEF has
      <3> HIDE DEF Plain
      <3>3. Plain(x).id = x /\ (Plain(x).canEdit <=> can) /\ (Plain(x).hasChildren <=> has)
        BY <2>2, <3>1, <3>2
      <3> QED
        BY <3>3 DEF has
    <2> HIDE DEF Plain, pages
    <2> QED
      BY <1>1, <2>1, <2>2, <2>3 DEF pages
  <1>3. CASE access # {}
    <2> DEFINE permitted == {Row(u, x) : x \in {y \in items : CanUserAccessPage(u, y)}}
               shown     == {e.id : e \in permitted}
    <2>1. permitted = {Row(u, x) : x \in {y \in items : Opens(u, y)}}
      BY <1>1, AccessIs
    <2>2. pages = {Entry(u, e, shown) : e \in permitted}
      BY <1>3 DEF SidebarPages, HasRestrictedPagesInSpace, Entry, Row,
                  FilterAccessiblePageIdsWithPermissions
    <2> HIDE DEF permitted
    <2>3. shown = {y \in items : Opens(u, y)}
      BY <1>1, <2>1, RowIs
    <2> HIDE DEF shown
    <2>4. pages = {Entry(u, Row(u, x), shown) : x \in {y \in items : Opens(u, y)}}
      BY <2>1, <2>2
    <2> HIDE DEF pages
    <2>5. \A x \in items : Opens(u, x) =>
            /\ Entry(u, Row(u, x), shown).id = x
            /\ Entry(u, Row(u, x), shown).canEdit <=> ValidateCanEdit(u, x)
            /\ Entry(u, Row(u, x), shown).hasChildren <=> \E c \in Children(x) : Opens(u, c)
      BY <1>1, <2>3, EntryIs
    <2> QED
      BY <1>1, <2>4, <2>5 DEF pages
  <1> QED
    BY <1>2, <1>3

\* Above a page that may be opened all may be.
LEMMA OpensAbove ==
    IInv => \A u \in User, p \in Page : Opens(u, p) =>
              \A q \in Chain(parent, p) : q \in Page /\ Opens(u, q)
  <1> SUFFICES ASSUME IInv, NEW u \in User, NEW p \in Page, Opens(u, p),
                      NEW q \in Chain(parent, p)
               PROVE  q \in Page /\ Opens(u, q)
    OBVIOUS
  <1>1. parent \in Parents
    BY DEF IInv, TypeOK, Parents
  <1>2. q \in Page /\ Chain(parent, q) \subseteq Chain(parent, p)
    BY <1>1, ChainAbove, ChainClosed
  <1> QED
    BY <1>2 DEF Opens, Over

\* Seven callers, one answer: to a member of the space each of them says of a
\* page what the restrictions over it say, and no age of the websocket service's
\* cached answer takes an event from him who may open the page.
THEOREM ViewsAlwaysAgree == Spec => []ViewsAgree
  <1>1. ASSUME IInv, NEW u \in User, spaceRole[u] # Nil, NEW p \in Page
        PROVE  LET view == ValidateCanView(u, p)
               IN  /\ view = GetUserPageAccessLevel(u, p).canAccess
                   /\ view = (p \in Found(u))
                   /\ view = (u \in Audience(p, HasRestrictedPagesInSpace))
                   /\ view = (u \in Audience(p, TRUE))
                   /\ view => u \in Audience(p, FALSE)
                   /\ view = (Connection(u, p) # "refused")
                   /\ view = \E e \in SidebarPages(u, parent[p]) : e.id = p
    <2> DEFINE view == ValidateCanView(u, p)
    <2>1. view <=> Opens(u, p)
      BY <1>1, Views DEF Opens
    <2>2. view \in BOOLEAN
      <3>1. CASE Over(p) = {}
        BY <1>1, <3>1, EditQueryIs DEF ValidateCanView
      <3>2. CASE Over(p) # {}
        BY <1>1, <3>2, EditQueryIs, ChainIs DEF ValidateCanView, CanUserEditPage
      <3> QED
        BY <3>1, <3>2
    <2>3. GetUserPageAccessLevel(u, p).canAccess = CanUserAccessPage(u, p)
      BY DEF GetUserPageAccessLevel
    <2>4. CanUserAccessPage(u, p) \in BOOLEAN /\ (CanUserAccessPage(u, p) <=> Opens(u, p))
      BY <1>1, AccessIs DEF CanUserAccessPage
    <2>5. p \in Found(u) <=> Opens(u, p)
      BY <1>1, AccessIs DEF Found, FilterAccessiblePageIds, HasRestrictedPagesInSpace, Opens, Over
    <2>6. ASSUME NEW answer, answer \/ ~HasRestrictedPagesInSpace
          PROVE  u \in Audience(p, answer) <=> Opens(u, p)
      <3>1. HasRestrictedAncestor(p) <=> Over(p) # {}
        BY <1>1, ChainIs DEF HasRestrictedAncestor
      <3>2. ~HasRestrictedPagesInSpace => Over(p) = {}
        BY DEF HasRestrictedPagesInSpace, Over
      <3>3. u \in GetUserIdsWithPageAccess(p, {v \in User : spaceRole[v] # Nil}) <=> Opens(u, p)
        BY <1>1, ChainIs DEF GetUserIdsWithPageAccess, Opens
      <3> QED
        BY <1>1, <2>6, <3>1, <3>2, <3>3 DEF Audience, Opens
    <2>6a. u \in Audience(p, HasRestrictedPagesInSpace) <=> Opens(u, p)
      BY <2>6
    <2>6b. u \in Audience(p, TRUE) <=> Opens(u, p)
      BY <2>6
    <2>6c. u \in Audience(p, FALSE)
      BY <1>1 DEF Audience
    <2>7. Connection(u, p) # "refused" <=> Opens(u, p)
      BY <1>1, EditQueryIs DEF Connection, Opens
    <2>8. (\E e \in SidebarPages(u, parent[p]) : e.id = p) <=> Opens(u, p)
      BY <1>1, SidebarIs
    <2> DEFINE found == p \in Found(u)
               told  == u \in Audience(p, HasRestrictedPagesInSpace)
               over  == u \in Audience(p, TRUE)
               joins == Connection(u, p) # "refused"
               lists == \E e \in SidebarPages(u, parent[p]) : e.id = p
    <2>9. /\ found \in BOOLEAN /\ told \in BOOLEAN /\ over \in BOOLEAN
          /\ joins \in BOOLEAN /\ lists \in BOOLEAN
      OBVIOUS
    <2>10. /\ (view <=> found) /\ (view <=> told) /\ (view <=> over)
           /\ (view <=> joins) /\ (view <=> lists)
      BY <2>1, <2>5, <2>6a, <2>6b, <2>7, <2>8
    <2> HIDE DEF view, found, told, over, joins, lists
    <2>11. view = CanUserAccessPage(u, p)
      BY <2>1, <2>2, <2>4
    <2>12. view = found /\ view = told /\ view = over /\ view = joins /\ view = lists
      BY <2>2, <2>9, <2>10
    <2> QED
      BY <2>3, <2>6c, <2>11, <2>12 DEF view, found, told, over, joins, lists
  <1>2. IInv => ViewsAgree
    BY <1>1 DEF ViewsAgree
  <1> QED
    BY <1>2, Invariance, PTL

\* To change a page by request, to type in it and to be offered both is one.
THEOREM EditsAlwaysAgree == Spec => []EditsAgree
  <1>1. ASSUME IInv, NEW u \in User, spaceRole[u] # Nil, NEW p \in Page
        PROVE  LET edit == ValidateCanEdit(u, p)
               IN  /\ edit = (Connection(u, p) = "write")
                   /\ edit = \E e \in SidebarPages(u, parent[p]) : e.id = p /\ e.canEdit
                   /\ HasRestrictedAncestor(p) => edit = GetUserPageAccessLevel(u, p).canEdit
    <2> DEFINE edit  == ValidateCanEdit(u, p)
               types == Connection(u, p) = "write"
               lists == \E e \in SidebarPages(u, parent[p]) : e.id = p /\ e.canEdit
               level == CanUserAccessPage(u, p) /\ NearestGivesWriter(u, p)
    <2>1. edit <=> Opens(u, p) /\ IF Over(p) = {} THEN spaceRole[u] = "writer" ELSE Writes(u, p)
      BY <1>1, Edits DEF Opens
    <2>2. edit \in BOOLEAN
      <3>1. CASE Over(p) = {}
        BY <1>1, <3>1, EditQueryIs DEF ValidateCanEdit
      <3>2. CASE Over(p) # {}
        BY <1>1, <3>2, EditQueryIs, ChainIs DEF ValidateCanEdit, CanUserEditPage
      <3> QED
        BY <3>1, <3>2
    <2>3. types <=> edit
      <3>1. types <=> IF CanUserEditPage(u, p).hasAnyRestriction
                        THEN CanUserEditPage(u, p).canAccess /\ CanUserEditPage(u, p).canEdit
                        ELSE spaceRole[u] = "writer"
        BY <1>1 DEF Connection
      <3> QED
        BY <1>1, <2>1, <3>1, EditQueryIs DEF Opens
    <2>4. lists <=> edit
      BY <1>1, <2>1, SidebarIs
    <2>5. HasRestrictedAncestor(p) => (level <=> edit)
      BY <1>1, <2>1, ChainIs, AccessIs, NearestGives DEF HasRestrictedAncestor, NearestGivesWriter
    <2>6. types \in BOOLEAN /\ lists \in BOOLEAN /\ level \in BOOLEAN
      OBVIOUS
    <2>7. GetUserPageAccessLevel(u, p).canEdit = level
      BY DEF GetUserPageAccessLevel
    <2> HIDE DEF edit, types, lists, level
    <2>8. edit = types /\ edit = lists /\ (HasRestrictedAncestor(p) => edit = level)
      BY <2>2, <2>3, <2>4, <2>5, <2>6
    <2> QED
      BY <2>7, <2>8 DEF edit, types, lists
  <1>2. IInv => EditsAgree
    BY <1>1 DEF EditsAgree
  <1> QED
    BY <1>2, Invariance, PTL

\* The sidebar leads to every page that may be opened: each page above it is
\* listed where it hangs and says that it has something to unfold.
THEOREM SidebarLeadsThere == Spec => []SidebarReaches
  <1>1. ASSUME IInv, NEW u \in User, spaceRole[u] # Nil, NEW p \in Page, ValidateCanView(u, p),
               NEW q \in Ancestors(p), q # p
        PROVE  \E r \in Page \cup {Nil} : \E e \in SidebarPages(u, r) : e.id = q /\ e.hasChildren
    <2>1. q \in Page /\ q \in Chain(parent, p) /\ parent \in Parents
      BY <1>1, BelowIs DEF Ancestors, IInv, TypeOK, Parents
    <2>2. PICK c \in Chain(parent, p) : parent[c] = q
      BY <1>1, <2>1, ChainChild
    <2>3. Opens(u, p)
      BY <1>1, Views DEF Opens
    <2>4. Opens(u, q) /\ c \in Page /\ Opens(u, c) /\ c \in Children(q)
      BY <1>1, <2>1, <2>2, <2>3, OpensAbove DEF Children
    <2>5. \E e \in SidebarPages(u, parent[q]) : e.id = q /\ e.hasChildren
      BY <1>1, <2>1, <2>4, SidebarIs
    <2> QED
      BY <2>1, <2>5 DEF Parents
  <1>2. IInv => SidebarReaches
    <2> SUFFICES ASSUME IInv, NEW u \in User, spaceRole[u] # Nil, NEW p \in Page,
                        ValidateCanView(u, p), NEW q \in Ancestors(p), q # p
                 PROVE  q \in {e.id : e \in {s \in UNION {SidebarPages(u, r) :
                                                r \in Page \cup {Nil}} : s.hasChildren}}
      BY DEF SidebarReaches
    <2> QED
      BY <1>1
  <1> QED
    BY <1>2, Invariance, PTL

-------------------------------------------------------------------------------
(* What a user does to restrictions and to the tree.                       *)

\* The queries after a step.
LEMMA WillBe ==
    IInv' => \A u \in User, p \in Page :
      /\ ValidateCanView(u, p)' <=> IF Over(p)' = {} THEN spaceRole'[u] # Nil ELSE Opens(u, p)'
      /\ ValidateCanEdit(u, p)' <=> IF Over(p)' = {} THEN spaceRole'[u] = "writer"
                                                     ELSE Opens(u, p)' /\ Writes(u, p)'
  <1>1. (IInv => \A u \in User, p \in Page :
           ValidateCanView(u, p) <=> IF Over(p) = {} THEN spaceRole[u] # Nil ELSE Opens(u, p))'
    BY Views, PTL
  <1>2. (IInv => \A u \in User, p \in Page :
           ValidateCanEdit(u, p) <=> IF Over(p) = {} THEN spaceRole[u] = "writer"
                                                     ELSE Opens(u, p) /\ Writes(u, p))'
    BY Edits, PTL
  <1> QED
    BY <1>1, <1>2

\* The roles on a page are those of its rows.
LEMMA RolesStay ==
  ASSUME inGroup' = inGroup, NEW a, role'[a] = role[a]
  PROVE  \A u : RolesOn(u, a)' = RolesOn(u, a)
  BY DEF RolesOn

\* No page that u could not change or open becomes one that he can.
NotRaised(u) ==
  \A p \in Page : /\ ~ValidateCanEdit(u, p) => ~ValidateCanEdit(u, p)'
                  /\ ~ValidateCanView(u, p) => ~ValidateCanView(u, p)'

\* Of the restrictions over a page, the ones over a page in its chain.
LEMMA OverChain ==
    IInv => \A x \in Page : \A y \in Chain(parent, x) :
      /\ y \in Page /\ Over(y) \subseteq Over(x)
      /\ Over(x) \subseteq Chain(parent, y) => Over(x) = Over(y)
  <1> SUFFICES ASSUME IInv, NEW x \in Page, NEW y \in Chain(parent, x)
               PROVE  /\ y \in Page /\ Over(y) \subseteq Over(x)
                      /\ Over(x) \subseteq Chain(parent, y) => Over(x) = Over(y)
    OBVIOUS
  <1>1. parent \in Parents
    BY DEF IInv, TypeOK, Parents
  <1>2. y \in Page /\ Chain(parent, y) \subseteq Chain(parent, x)
    BY <1>1, ChainAbove, ChainClosed
  <1> QED
    BY <1>2 DEF Over

LEMMA SetNotRaised ==
  ASSUME IInv, IInv', NEW u \in User, NEW x \in Page, NEW members, SetPagePermissions(u, x, members)
  PROVE  NotRaised(u)
  <1> SUFFICES ASSUME NEW p \in Page
               PROVE  /\ ValidateCanEdit(u, p)' => ValidateCanEdit(u, p)
                      /\ ValidateCanView(u, p)' => ValidateCanView(u, p)
    BY DEF NotRaised
  <1>1. /\ parent \in Parents /\ parent' = parent /\ spaceRole' = spaceRole
        /\ access \subseteq Page /\ access' = access \cup {x}
    BY DEF SetPagePermissions, IInv, TypeOK, Parents
  <1>2. \A a \in Page \ {x} : RolesOn(u, a)' = RolesOn(u, a)
    BY RolesStay DEF SetPagePermissions, IInv, TypeOK
  <1>3. \A y \in Page : /\ Over(y) \subseteq Page
                        /\ Over(y)' = Over(y) \cup (Chain(parent, y) \cap {x})
    BY <1>1 DEF Over
  <1>4. ValidateCanEdit(u, x)
    BY DEF SetPagePermissions
  <1>5. CASE x \notin Chain(parent, p)
    <2>1. Over(p)' = Over(p) /\ x \notin Over(p)
      BY <1>3, <1>5 DEF Over
    <2>2. Opens(u, p)' <=> Opens(u, p)
      BY <1>2, <1>3, <2>1 DEF Opens
    <2>3. Writes(u, p)' <=> Writes(u, p)
      BY <1>1, <1>2, <1>3, <2>1 DEF Writes
    <2> QED
      BY <1>1, <2>1, <2>2, <2>3, WillBe, Views, Edits
  <1>6. CASE x \in Chain(parent, p)
    <2>1. Over(p)' = Over(p) \cup {x} /\ Over(x) \subseteq Over(p)
      BY <1>3, <1>6, OverChain
    <2>2. CASE Over(p) = {}
      <3>1. spaceRole[u] = "writer" /\ Nil # "writer"
        BY <1>4, <2>1, <2>2, Edits, NilAssumption DEF Role
      <3> QED
        BY <2>2, <3>1, Views, Edits
    <2>3. CASE Over(p) # {}
      <3>1. Opens(u, p)' => Opens(u, p)
        <4> SUFFICES ASSUME Opens(u, p)', NEW a \in Over(p) PROVE RolesOn(u, a) # {}
          BY DEF Opens
        <4>1. CASE a # x
          BY <1>2, <1>3, <2>1, <4>1 DEF Opens
        <4>2. CASE a = x
          <5>1. x \in Over(x)
            BY <1>1, <4>2, ChainClosed DEF Over
          <5> QED
            BY <1>4, <4>2, <5>1, Edits DEF Opens
        <4> QED
          BY <4>1, <4>2
      <3>2. Writes(u, p)' => Writes(u, p)
        <4> SUFFICES ASSUME Writes(u, p)' PROVE Writes(u, p)
          OBVIOUS
        <4>1. PICK a \in Over(p)' : /\ Over(p)' \subseteq Chain(parent, a)
                                    /\ "writer" \in RolesOn(u, a)'
          BY <1>1 DEF Writes
        <4>2. CASE a # x
          BY <1>2, <1>3, <2>1, <4>1, <4>2 DEF Writes
        <4>3. CASE a = x
          <5>1. Over(p) = Over(x)
            BY <1>6, <2>1, <4>1, <4>3, OverChain
          <5>2. Writes(u, x)
            BY <1>4, <2>3, <5>1, Edits
          <5> QED
            BY <5>1, <5>2 DEF Writes
        <4> QED
          BY <4>2, <4>3
      <3> QED
        BY <2>1, <2>3, <3>1, <3>2, WillBe, Views, Edits
    <2> QED
      BY <2>2, <2>3
  <1> QED
    BY <1>5, <1>6

LEMMA ClearNotRaised ==
  ASSUME IInv, IInv', NEW u \in User, NEW x \in Page, ClearPagePermissions(u, x)
  PROVE  NotRaised(u)
  <1> SUFFICES ASSUME NEW p \in Page
               PROVE  /\ ValidateCanEdit(u, p)' => ValidateCanEdit(u, p)
                      /\ ValidateCanView(u, p)' => ValidateCanView(u, p)
    BY DEF NotRaised
  <1>1. /\ parent \in Parents /\ parent' = parent /\ spaceRole' = spaceRole
        /\ access \subseteq Page /\ access' = access \ {x}
    BY DEF ClearPagePermissions, IInv, TypeOK, Parents
  <1>2. \A a \in Page \ {x} : RolesOn(u, a)' = RolesOn(u, a)
    BY RolesStay DEF ClearPagePermissions, IInv, TypeOK
  <1>3. Over(p) \subseteq Page /\ Over(p)' = Over(p) \ {x}
    BY <1>1 DEF Over
  <1>4. ValidateCanEdit(u, x)
    BY DEF ClearPagePermissions
  <1>5. CASE x \notin Over(p)
    <2>1. Opens(u, p)' <=> Opens(u, p)
      BY <1>2, <1>3, <1>5 DEF Opens
    <2>2. Writes(u, p)' <=> Writes(u, p)
      BY <1>1, <1>2, <1>3, <1>5 DEF Writes
    <2> QED
      BY <1>1, <1>3, <1>5, <2>1, <2>2, WillBe, Views, Edits
  <1>6. CASE x \in Over(p)
    <2>1. x \in Chain(parent, p) /\ x \in Over(x) /\ x \in Chain(parent, x)
      BY <1>1, <1>6, ChainClosed DEF Over
    <2>2. Opens(u, x) /\ Writes(u, x) /\ RolesOn(u, x) # {}
      BY <1>4, <2>1, Edits DEF Opens
    <2>3. "writer" \in RolesOn(u, x)
      <3>1. PICK a \in Over(x) : Over(x) \subseteq Chain(parent, a) /\ "writer" \in RolesOn(u, a)
        BY <2>2 DEF Writes
      <3>2. a \in Chain(parent, x) /\ x \in Chain(parent, a) /\ a \in Page
        BY <1>1, <2>1, <3>1 DEF Over
      <3>3. a = x
        BY <1>1, <3>2, ChainOnce, NilAssumption DEF IInv
      <3> QED
        BY <3>1, <3>3
    <2>4. CASE Over(p) \subseteq Chain(parent, x)
      <3>1. Over(p) = Over(x)
        BY <2>1, <2>4, OverChain
      <3> QED
        BY <1>6, <2>2, <3>1, Views, Edits DEF Opens, Writes
    <2>5. CASE ~(Over(p) \subseteq Chain(parent, x))
      <3>1. Over(p)' # {}
        BY <1>3, <2>1, <2>5
      <3>2. Opens(u, p)' => Opens(u, p)
        BY <1>2, <1>3, <2>2 DEF Opens
      <3>3. Writes(u, p)' => Writes(u, p)
        <4> SUFFICES ASSUME Writes(u, p)' PROVE Writes(u, p)
          OBVIOUS
        <4>1. PICK a \in Over(p)' : /\ Over(p)' \subseteq Chain(parent, a)
                                    /\ "writer" \in RolesOn(u, a)'
          BY <1>1 DEF Writes
        <4>2. a \in Over(p) /\ a # x /\ a \in Page /\ "writer" \in RolesOn(u, a)
          BY <1>2, <1>3, <4>1
        <4>3. a \in Chain(parent, p)
          BY <4>2 DEF Over
        <4>4. CASE x \in Chain(parent, a)
          BY <1>3, <4>1, <4>2, <4>4 DEF Writes
        <4>5. CASE a \in Chain(parent, x)
          <5>1. Chain(parent, a) \subseteq Chain(parent, x)
            BY <1>1, <4>5, ChainAbove
          <5> QED
            BY <1>3, <2>1, <2>5, <4>1, <5>1
        <4> QED
          BY <1>1, <2>1, <4>3, <4>4, <4>5, ChainLinear
      <3> QED
        BY <1>6, <3>1, <3>2, <3>3, WillBe, Views, Edits
    <2> QED
      BY <2>4, <2>5
  <1> QED
    BY <1>5, <1>6

LEMMA MoveNotRaised ==
  ASSUME IInv, IInv', NEW u \in User, NEW x \in Page, NEW q \in Page \cup {Nil}, MovePage(u, x, q)
  PROVE  NotRaised(u)
  <1> SUFFICES ASSUME NEW p \in Page
               PROVE  /\ ValidateCanEdit(u, p)' => ValidateCanEdit(u, p)
                      /\ ValidateCanView(u, p)' => ValidateCanView(u, p)
    BY DEF NotRaised
  <1> DEFINE top == IF q = Nil THEN {} ELSE Chain(parent, q)
  <1>1. /\ parent \in Parents /\ Climbs(parent) /\ parent' = [parent EXCEPT ![x] = q]
        /\ parent' \in Parents /\ Climbs(parent') /\ spaceRole' = spaceRole
        /\ access \subseteq Page /\ access' = access /\ spaceRole[u] = "writer"
    BY DEF MovePage, IInv, TypeOK, Parents
  <1>2. \A a \in Page : RolesOn(u, a)' = RolesOn(u, a)
    BY RolesStay DEF MovePage, IInv, TypeOK
  <1>3. ValidateCanEdit(u, x)
    BY DEF MovePage
  <1>4. q # Nil => x \notin Chain(parent, q)
    BY BelowIs DEF MovePage
  <1>4a. /\ parent \in Parents /\ Climbs(parent) /\ parent' \in Parents
         /\ parent'[x] = q /\ \A y \in Page \ {x} : parent'[y] = parent[y]
    BY <1>1 DEF Parents
  <1>5. ASSUME NEW y \in Page, x \in Chain(parent, y)
        PROVE  Chain(parent', y) = (Chain(parent, y) \ Chain(parent, x)) \cup {x} \cup top
    <2>1. Nil \notin Page
      BY NilAssumption
    <2>2. \A z : z \in Chain(parent', y) <=> \/ z \in Chain(parent, y) /\ z \notin Chain(parent, x)
                                             \/ z = x
                                             \/ q # Nil /\ z \in Chain(parent, q)
      BY <1>4, <1>5, <1>4a, <2>1, GraftChain
    <2> QED
      BY <2>2
  <1>6. ASSUME NEW y \in Page, x \notin Chain(parent, y)
        PROVE  Chain(parent', y) = Chain(parent, y)
    BY <1>6, <1>4a, GraftElsewhere
  <1> HIDE DEF top
  <1>7. /\ Over(p) \subseteq Page
        /\ Over(p) = Chain(parent, p) \cap access
        /\ Over(p)' = Chain(parent', p) \cap access
    BY <1>1 DEF Over
  <1>8. CASE x \notin Chain(parent, p)
    <2>1. Over(p)' = Over(p)
      BY <1>5, <1>6, <1>7, <1>8 DEF Over
    <2>2. Opens(u, p)' <=> Opens(u, p)
      BY <1>2, <1>7, <2>1 DEF Opens
    <2>3. \A a \in Over(p) : Chain(parent', a) = Chain(parent, a)
      <3> SUFFICES ASSUME NEW a \in Over(p) PROVE Chain(parent', a) = Chain(parent, a)
        OBVIOUS
      <3>1. a \in Page /\ Chain(parent, a) \subseteq Chain(parent, p)
        BY <1>1, <1>7, ChainAbove
      <3> QED
        BY <1>5, <1>6, <1>8, <3>1
    <2>4. Writes(u, p)' <=> Writes(u, p)
      BY <1>2, <1>7, <2>1, <2>3 DEF Writes
    <2> QED
      BY <1>1, <2>1, <2>2, <2>4, WillBe, Views, Edits
  <1>9. CASE x \in Chain(parent, p)
    <2>1. Over(x) \subseteq Over(p) /\ Over(x) = Chain(parent, x) \cap access
      BY <1>9, OverChain DEF Over
    <2>2. CASE Over(p) \subseteq Chain(parent, x)
      <3>1. Over(p) = Over(x)
        BY <1>9, <2>2, OverChain
      <3>2. ValidateCanEdit(u, p)
        BY <1>1, <1>3, <3>1, Edits DEF Opens, Writes
      <3> QED
        BY <1>1, <3>2, Views, Edits, NilAssumption DEF Role
    <2>3. CASE ~(Over(p) \subseteq Chain(parent, x))
      <3> DEFINE low == Over(p) \ Chain(parent, x)
      <3>1. low # {} /\ low \subseteq Over(p)'
        BY <1>5, <1>6, <1>7, <1>9, <2>3
      <3>2. Opens(u, p)' => Opens(u, p)
        <4> SUFFICES ASSUME Opens(u, p)', NEW a \in Over(p) PROVE RolesOn(u, a) # {}
          BY DEF Opens
        <4>1. CASE a \in Chain(parent, x)
          <5>1. a \in Over(x)
            BY <2>1, <4>1 DEF Over
          <5> QED
            BY <1>3, <5>1, Edits DEF Opens
        <4>2. CASE a \notin Chain(parent, x)
          BY <1>2, <1>7, <3>1, <4>2 DEF Opens
        <4> QED
          BY <4>1, <4>2
      <3>3. PICK n \in Over(p) : Over(p) \subseteq Chain(parent, n)
        BY <1>1, <2>3, NearestIs, NilAssumption DEF Over
      <3>4. n \in Page /\ n \in Chain(parent, p) /\ n \notin Chain(parent, x)
        <4>1. n \in Page /\ n \in Chain(parent, p)
          BY <1>7
        <4>2. n \in Chain(parent, x) => Chain(parent, n) \subseteq Chain(parent, x)
          BY <1>1, ChainAbove
        <4> QED
          BY <2>3, <3>3, <4>1, <4>2
      <3>5. x \in Chain(parent, n)
        BY <1>1, <1>9, <3>4, ChainLinear
      <3>6. Over(p)' \subseteq Chain(parent', n) /\ n \in Over(p)'
        BY <1>5, <1>6, <1>7, <1>9, <3>1, <3>3, <3>4, <3>5
      <3>7. Writes(u, p)' => Writes(u, p)
        <4> SUFFICES ASSUME Writes(u, p)' PROVE Writes(u, p)
          OBVIOUS
        <4>1. PICK a \in Over(p)' : /\ Over(p)' \subseteq Chain(parent', a)
                                    /\ "writer" \in RolesOn(u, a)'
          BY DEF Writes
        <4>2. a \in Page /\ a \in Chain(parent', n) /\ n \in Chain(parent', a)
          BY <1>1, <1>7, <3>6, <4>1
        <4>3. a = n
          BY <1>1, <3>4, <4>2, ChainOnce, NilAssumption
        <4> QED
          BY <1>2, <3>3, <3>4, <4>1, <4>3 DEF Writes
      <3> QED
        BY <1>1, <3>1, <3>2, <3>7, WillBe, Views, Edits
    <2> QED
      BY <2>2, <2>3
  <1> QED
    BY <1>8, <1>9

\* Nobody raises himself with the dialog or the tree: after whatever a user does
\* he may change and open no page that he could not before.
THEOREM NobodyIsRaised == Spec => NobodyRaisesHimself
  <1>1. ASSUME IInv, IInv', Next, NEW u, u = actor', u # Nil
        PROVE  NotRaised(u)
    <2>1. ASSUME NEW v \in User, NEW x \in Page, NEW members, SetPagePermissions(v, x, members)
          PROVE  NotRaised(u)
      BY <1>1, <2>1, SetNotRaised DEF SetPagePermissions
    <2>2. ASSUME NEW v \in User, NEW x \in Page, ClearPagePermissions(v, x)
          PROVE  NotRaised(u)
      BY <1>1, <2>2, ClearNotRaised DEF ClearPagePermissions
    <2>3. ASSUME NEW v \in User, NEW x \in Page, NEW q \in Page \cup {Nil}, MovePage(v, x, q)
          PROVE  NotRaised(u)
      BY <1>1, <2>3, MoveNotRaised DEF MovePage
    <2> QED
      BY <1>1, <2>1, <2>2, <2>3 DEF Next, Acts, AddToGroup, RemoveFromGroup, DeleteGroup
  <1>2. IInv /\ IInv' /\ [Next]_vars =>
          [\A u \in {actor'} \ {Nil} : \A p \in Page :
             /\ ~ValidateCanEdit(u, p) => ~ValidateCanEdit(u, p)'
             /\ ~ValidateCanView(u, p) => ~ValidateCanView(u, p)']_vars
    BY <1>1 DEF NotRaised
  <1> QED
    BY <1>2, Invariance, PTL DEF Spec, NobodyRaisesHimself

\* Nobody locks himself out with the dialog: he who sets the permissions of a
\* page may change it after that.
THEOREM SetterStaysWriter == Spec => SetterKeepsEdit
  <1>1. ASSUME IInv, IInv', Next, NEW u, u = actor', u # Nil,
               NEW p \in Page, p \in access', role'[p] # role[p]
        PROVE  ValidateCanEdit(u, p)'
    <2>1. ASSUME NEW v \in User, NEW x \in Page, NEW members \in [Member \ {v} -> Role \cup {Nil}],
                 SetPagePermissions(v, x, members)
          PROVE  ValidateCanEdit(u, p)'
      <3>1. /\ u = v /\ x = p /\ parent' = parent /\ access' = access \cup {p} /\ access \subseteq Page
            /\ parent \in Parents /\ role'[p][u] = "writer" /\ Nil # "writer" /\ u \in User
        BY <1>1, <2>1, NilAssumption DEF SetPagePermissions, IInv, TypeOK, Parents, Role, Member
      <3>2. ValidateCanEdit(u, p)
        BY <2>1, <3>1 DEF SetPagePermissions
      <3>3. Over(p)' = Over(p) \cup {p} /\ Over(p) \subseteq Chain(parent, p) /\ Over(p) \subseteq Page
        BY <3>1, ChainClosed DEF Over
      <3>4. "writer" \in RolesOn(u, p)'
        BY <3>1 DEF RolesOn
      <3>5. Writes(u, p)'
        <4>1. p \in Chain(parent, p)
          BY <3>1, ChainClosed
        <4> QED
          BY <3>1, <3>3, <3>4, <4>1 DEF Writes
      <3>6. Opens(u, p)'
        <4> SUFFICES ASSUME NEW a \in Over(p)' PROVE RolesOn(u, a)' # {}
          BY DEF Opens
        <4>1. CASE a = p
          BY <3>4, <4>1
        <4>2. CASE a # p
          <5>1. a \in Over(p) /\ role'[a] = role[a] /\ inGroup' = inGroup
            BY <2>1, <3>1, <3>3, <4>2 DEF SetPagePermissions, IInv, TypeOK
          <5>2. RolesOn(u, a)' = RolesOn(u, a)
            BY <5>1, RolesStay
          <5> QED
            BY <1>1, <3>1, <3>2, <5>1, <5>2, Edits DEF Opens
        <4> QED
          BY <4>1, <4>2
      <3> QED
        BY <1>1, <3>1, <3>3, <3>5, <3>6, WillBe
    <2>2. ASSUME NEW v \in User, NEW x \in Page, ClearPagePermissions(v, x)
          PROVE  FALSE
      BY <1>1, <2>2 DEF ClearPagePermissions, IInv, TypeOK
    <2> QED
      BY <1>1, <2>1, <2>2 DEF Next, Acts, MovePage, AddToGroup, RemoveFromGroup, DeleteGroup
  <1>2. IInv /\ IInv' /\ [Next]_vars =>
          [\A u \in {actor'} \ {Nil}, p \in Page : p \in access' /\ role'[p] # role[p]
             => ValidateCanEdit(u, p)']_vars
    BY <1>1
  <1> QED
    BY <1>2, Invariance, PTL DEF Spec, SetterKeepsEdit
================================================================================
