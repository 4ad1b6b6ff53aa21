----------------------------- MODULE MCSiteCrawl -----------------------------
(* Bounds for SiteCrawl: three URLs in scope and one, outside, that is not;  *)
(* two contents; the seed links to the rest, the others back to the seed,    *)
(* and b offers an annual variant.                                           *)
EXTENDS SiteCrawl

CONSTANTS a, b, c, outside, x, y

MCUrl == {a, b, c, outside}
MCScope == {a, b, c}
MCContent == {x, y}

\* A redirect ends at a page that does not redirect, and only a page moves on.
Redirects ==
  {f \in [MCUrl -> MCUrl] : /\ f[outside] = outside
                            /\ \A u \in MCScope : f[u] # outside /\ f[f[u]] = f[u]}

\* The contents of b and c vary where they are pages of their own.
Contents(f) ==
  {g \in [MCUrl -> MCContent] :
     \A u \in MCUrl : u \in {a, outside} \/ f[u] # u => g[u] = x}

AllPages == [u \in MCUrl |-> "page"]
Links == [u \in MCUrl |-> IF u = a THEN << b, c >> ELSE << a, c >>]
VariantOfB(v) == [u \in MCUrl |-> IF u = b THEN << v >> ELSE << >>]

SiteOf(outcome, f, g, v) ==
  [outcome |-> outcome, final |-> f, content |-> g, links |-> Links,
   annual |-> VariantOfB(v)]

\* Pages only: every redirect, every content, a variant in scope.
Plain == UNION {{SiteOf(AllPages, f, g, c) : g \in Contents(f)} : f \in Redirects}

\* One content, every redirect, and a URL that ends in something else than a page;
\* or an annual variant that is out of scope.
Same == [u \in MCUrl |-> x]
Troubled ==
  {SiteOf([AllPages EXCEPT ![u] = o], f, Same, c)
     : u \in {b, c}, o \in Outcome \ {"page"}, f \in Redirects}
  \union {SiteOf(AllPages, f, Same, outside) : f \in Redirects}

MCSite == Plain \union Troubled

=============================================================================
