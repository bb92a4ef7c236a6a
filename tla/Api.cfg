CONSTANTS
  ParameterValues = {"uuid", "text", "number", "object"}
SPECIFICATION Spec
INVARIANTS RepliesValid IntrospectionTrue SlipAsAnnounced
