------------------------------- MODULE MCData ---------------------------------
(***************************************************************************)
(* Shorthands the model-checking instances write their descriptors with.   *)
(***************************************************************************)
EXTENDS Descriptors, TLC

Absolute(scheme, host, path) ==
    [form |-> "absolute", scheme |-> scheme, host |-> host, path |-> path]
Rooted(path) == [form |-> "rooted", path |-> path]
Relative(path) == [form |-> "relative", path |-> path]
Network(host, path) == [form |-> "network", host |-> host, path |-> path]
Opaque(host, path) == [form |-> "opaque", host |-> host, path |-> path]

At(scheme, host, path) == [scheme |-> scheme, host |-> host, path |-> path]

Inline(d) == [ref |-> None, desc |-> d]
Ref(ref) == [ref |-> ref, desc |-> None]

NoSlots == [s \in {} |-> << >>]
Full(template, metadata, mapper, slots) ==
    [template |-> template, integrity |-> metadata, mapper |-> mapper,
     slots |-> slots]
Plain(template, slots) == Full(template, << >>, None, slots)
Leaf(template) == Plain(template, NoSlots)
Pinned(template, alg, body) ==
    Full(template, << [alg |-> alg, of |-> body] >>, None, NoSlots)
=============================================================================
