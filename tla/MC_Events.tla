------------------------------ MODULE MC_Events ------------------------------
(* A small page: a document, a box in it, a field in the box, and a clone of the
   field; and the calls that make the interesting cases.                      *)
EXTENDS Events, TLC
CONSTANTS doc, box, field, copy, f, g

MCAbove == [e \in Elements |-> CASE e = field -> box [] e = copy -> box [] e = box -> doc [] OTHER -> Nowhere]

B(at, type, sel, fn, ns, one) == [at |-> at, type |-> type, sel |-> sel, fn |-> fn, ns |-> ns, one |-> one]
MCBindings ==
    {B(doc, "click", TRUE, g, FALSE, FALSE), B(box, "click", TRUE, f, TRUE, TRUE),
     B(box, "click", FALSE, f, FALSE, FALSE),
     B(box, "focus", TRUE, f, FALSE, FALSE), B(doc, "focusin", FALSE, g, FALSE, FALSE),
     B(field, "focus", FALSE, f, FALSE, FALSE)}

U(at, type, sel, fn, ns) == [at |-> at, type |-> type, sel |-> sel, fn |-> fn, ns |-> ns]
MCUnbindings ==
    {U(box, "click", FALSE, f, FALSE), U(box, "any", FALSE, AnyFn, TRUE), U(box, "any", FALSE, AnyFn, FALSE),
     U(box, "focus", TRUE, AnyFn, FALSE), U(doc, "focusin", FALSE, AnyFn, FALSE)}

E(at, type, ns, how) == [at |-> at, type |-> type, ns |-> ns, how |-> how]
MCFired == {E(field, "click", FALSE, "trigger"), E(field, "click", TRUE, "trigger"), E(box, "click", FALSE, "handler"),
            E(field, "click", FALSE, "native"), E(field, "focus", FALSE, "trigger"), E(field, "focus", FALSE, "native")}
MCCopies == {<<field, copy>>}
=============================================================================
