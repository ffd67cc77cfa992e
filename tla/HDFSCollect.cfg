\* Name, data and unknown nodes; every response of up to three beans and
\* a failed fetch, collected repeatedly.
CONSTANTS
    NodeTypes = {"unknown", "name", "data"}
    MaxBeans = 3
SPECIFICATION Spec
INVARIANT CollectedAsReference
