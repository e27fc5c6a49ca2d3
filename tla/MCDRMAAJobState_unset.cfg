\* Does GetState ever answer Unset for a real job?
CONSTANT MaxPolls = 3
SPECIFICATION Spec
INVARIANT
    GetStateNeverUnset
